------------------------- MODULE MatchingAloneProofs -------------------------
(***************************************************************************)
(* Proofs about Matching when one search runs at a time: every match it    *)
(* reports fills something, and what it offers to the AMM it does not      *)
(* fill itself afterwards - whatever slot it passes, so also when its      *)
(* writes miss the list the order is in.  With a current slot no write     *)
(* misses; then the matches of an order together fit what is left of it,   *)
(* and a loop over asks overlooks none.                                    *)
(*                                                                         *)
(* The producers check what is filled long before the consumer takes it.   *)
(* It is still true then, since the outer and the inner loop never have    *)
(* an order in common and no producer yields an order twice: an order is   *)
(* written to only while it is the outer loop's, or once it has left the   *)
(* inner generator.                                                        *)
(***************************************************************************)
EXTENDS MatchingProofs, FiniteSetTheorems, WellFoundedInduction

Alone == \A f, g \in Finders : f = g

IsReady(g, o) == \E i \in 1..Len(g.ready) : g.ready[i] = o

\* The orders put by are open, and each is put by once.
AllOpen(g) ==
  \A i \in 1..Len(g.ready) :
    /\ g.ready[i] \in g.passed /\ ~IsBaseFilled(g.ready[i])
    /\ \A j \in 1..Len(g.ready) : g.ready[j] = g.ready[i] => j = i

\* A maker that is to be written has left the generator; the taker is the
\* outer loop's order and comes last.
WritesOf(f) ==
  /\ Len(writes[f]) <= 2
  /\ \A i \in 1..Len(writes[f]) :
       IF i = Len(writes[f]) THEN writes[f][i].o = current[f]
       ELSE writes[f][i].o \in inner[f].passed /\ ~IsReady(inner[f], writes[f][i].o)

HandsOpen(f) ==
  /\ AllOpen(outer[f]) /\ AllOpen(inner[f])
  /\ current[f] # None => /\ ~IsBaseFilled(current[f])
                          /\ current[f] \in outer[f].passed /\ ~IsReady(outer[f], current[f])
  /\ WritesOf(f)

FoundFill(f) == \A m \in found[f] : m.base > 0

BeforeOffers == {"idle", "collecting", "moving", "crossing", "restingAsksFallback"}
BeforeTaking == {"restingBidsFallback", "takingAsks", "takingAsksFallback"}

OffersOpen(f) ==
  /\ phase[f] \in BeforeOffers => offered[f] = {}
  /\ \A o \in offered[f] : book[o].side = "ask" =>
       ~IsBaseFilled(o) /\ (phase[f] \in BeforeTaking => o \in Resting("ask"))

\* Nobody else moves a node.
Unmoved(f) == ~loose[f] /\ \A o \in Orders : gone[f][o] = None

AloneInv == \A f \in Finders : HandsOpen(f) /\ FoundFill(f) /\ OffersOpen(f) /\ Unmoved(f)

-----------------------------------------------------------------------------
(* Generators.                                                             *)

LEMMA NothingReady == AllOpen(NewGenerator) /\ \A o : ~IsReady(NewGenerator, o)
BY DEF NewGenerator, AllOpen, IsReady

\* The two loops have no order in common.
LEMMA LoopsApart ==
  ASSUME NEW f \in Finders, phase[f] \in Looping, Unmoved(f)
  PROVE  \A o : ~(o \in OuterMembers(f) /\ o \in InnerMembers)
BY DEF OuterMembers, InnerMembers, Resting, Taking, TakingOf, Listed, Looping, Unmoved

\* What the outer loop is at is where it was, with what has been written to it.
LEMMA StillThere ==
  ASSUME NEW f \in Finders, Unmoved(f)
  PROVE  /\ \A o \in Orders : Carried(f, o) = filled[o]
         /\ \A side : TakingOf(f, side) = Taking(side)
BY DEF Unmoved, Carried, TakingOf

\* What a producer takes it has not passed before.
LEMMA YieldOpen ==
  ASSUME NEW g \in Generators, NEW members \in SUBSET Orders, NEW o \in Produces(g, members, FALSE),
         AllOpen(g)
  PROVE  /\ AllOpen(Yield(g, o, filled[o])) /\ o \notin g.passed
         /\ g.passed \subseteq Yield(g, o, filled[o]).passed
         /\ \A x : IsReady(Yield(g, o, filled[o]), x) => IsReady(g, x) \/ x = o
<1>1. o \in members \ g.passed /\ g.ready \in Seq(Orders) /\ o \in Orders
  BY DEF Produces, Best, Heads, Generators
<1>2. CASE IsBaseFilled(o)
  <2>1. Yield(g, o, filled[o]) = [passed |-> g.passed \cup {o}, ready |-> g.ready]
    BY <1>2 DEF Yield, IsBaseFilled
  <2> QED
    BY <1>1, <2>1 DEF AllOpen, IsReady
<1>3. CASE ~IsBaseFilled(o)
  <2> DEFINE more == Append(g.ready, o)
             n == Len(g.ready)
  <2>1. Yield(g, o, filled[o]) = [passed |-> g.passed \cup {o}, ready |-> more]
    BY <1>3 DEF Yield, IsBaseFilled
  <2>2. /\ n \in Nat /\ Len(more) = n + 1 /\ more[n + 1] = o
        /\ \A i \in 1..n : more[i] = g.ready[i]
    BY <1>1
  <2> HIDE DEF more, n
  <2>3. \A i \in 1..n : /\ g.ready[i] \in g.passed /\ ~IsBaseFilled(g.ready[i])
                        /\ \A j \in 1..n : g.ready[j] = g.ready[i] => j = i
    BY DEF AllOpen, n
  <2>4. \A i \in 1..(n + 1) : i \in 1..n \/ i = n + 1
    BY <2>2
  <2>5. \A i \in 1..(n + 1) : /\ more[i] \in g.passed \cup {o} /\ ~IsBaseFilled(more[i])
                              /\ \A j \in 1..(n + 1) : more[j] = more[i] => j = i
    BY <1>1, <1>3, <2>2, <2>3, <2>4
  <2>6. AllOpen(Yield(g, o, filled[o]))
    BY <2>1, <2>2, <2>5 DEF AllOpen
  <2>7. ASSUME NEW x, IsReady(Yield(g, o, filled[o]), x) PROVE IsReady(g, x) \/ x = o
    BY <2>1, <2>2, <2>4, <2>7 DEF IsReady, n
  <2>8. Yield(g, o, filled[o]).passed = g.passed \cup {o}
    BY <2>1
  <2> QED
    BY <1>1, <2>6, <2>7, <2>8
<1> QED
  BY <1>2, <1>3

\* What the consumer takes is not put by any more.
LEMMA PopOpen ==
  ASSUME NEW g \in Generators, g.ready # <<>>, AllOpen(g), NEW h,
         h = [g EXCEPT !.ready = Tail(@)]
  PROVE  /\ AllOpen(h) /\ h.passed = g.passed
         /\ ~IsReady(h, Head(g.ready)) /\ Head(g.ready) \in g.passed
         /\ ~IsBaseFilled(Head(g.ready)) /\ Head(g.ready) \in Orders
         /\ \A x : IsReady(h, x) => IsReady(g, x)
<1> DEFINE n == Len(g.ready)
<1>1. /\ h.passed = g.passed /\ Len(h.ready) = n - 1
      /\ \A i \in 1..Len(h.ready) : h.ready[i] = g.ready[i + 1]
      /\ Head(g.ready) = g.ready[1] /\ g.ready \in Seq(Orders)
  BY PopType
<1>2. n \in Nat /\ n >= 1 /\ g.ready[1] \in Orders
  BY <1>1
<1>3. \A i \in 1..(n - 1) : i + 1 \in 1..n
  BY <1>2
<1>4. \A i \in 1..n : /\ g.ready[i] \in g.passed /\ ~IsBaseFilled(g.ready[i])
                      /\ \A j \in 1..n : g.ready[j] = g.ready[i] => j = i
  BY DEF AllOpen
<1> HIDE DEF n
<1>5. AllOpen(h)
  BY <1>1, <1>2, <1>3, <1>4 DEF AllOpen
<1>6. \A x : IsReady(h, x) => \E i \in 2..n : g.ready[i] = x
  BY <1>1, <1>2, <1>3 DEF IsReady
<1>7. ~IsReady(h, Head(g.ready))
  <2>1. \A i \in 2..n : g.ready[i] # g.ready[1]
    BY <1>2, <1>4
  <2> QED
    BY <1>1, <1>6, <2>1
<1>8. \A x : IsReady(h, x) => IsReady(g, x)
  <2>1. \A i \in 2..n : i \in 1..Len(g.ready)
    BY <1>2 DEF n
  <2> QED
    BY <1>6, <2>1 DEF IsReady
<1>9. g.ready[1] \in g.passed /\ ~IsBaseFilled(g.ready[1])
  <2>1. 1 \in 1..n
    BY <1>2
  <2> QED
    BY <1>4, <2>1
<1>10. ~IsBaseFilled(Head(g.ready)) /\ Head(g.ready) \in Orders /\ Head(g.ready) \in g.passed
  BY <1>1, <1>2, <1>9
<1> QED
  BY <1>1, <1>5, <1>7, <1>8, <1>10

-----------------------------------------------------------------------------
(* Steps.                                                                  *)

\* What is left alone.
LEMMA OffersSame ==
  ASSUME NEW f \in Finders, OffersOpen(f),
         UNCHANGED <<book, filled, place>>, phase'[f] = phase[f], offered'[f] = offered[f]
  PROVE  OffersOpen(f)'
<1>1. Resting("ask")' = Resting("ask")
  BY DEF Resting, Listed
<1> QED
  BY <1>1 DEF OffersOpen, IsBaseFilled

\* A search that holds nothing: between two loops, and at the beginning.
LEMMA EmptyHands ==
  ASSUME NEW f \in Finders, outer'[f] = NewGenerator, inner'[f] = NewGenerator,
         current'[f] = None, writes'[f] = <<>>
  PROVE  HandsOpen(f)'
BY DEF HandsOpen, AllOpen, IsReady, WritesOf, NewGenerator

LEMMA IdleHands ==
  ASSUME MatchingInv, NEW f \in Finders, phase[f] \notin Looping
  PROVE  /\ outer[f] = NewGenerator /\ inner[f] = NewGenerator
         /\ current[f] = None /\ writes[f] = <<>>
BY DEF MatchingInv, Tidy

LEMMA WritesType ==
  ASSUME MatchingInv, AloneInv, NEW f \in Finders, writes[f] # <<>>
  PROVE  /\ writes[f] \in Seq(Amounts) /\ Len(writes[f]) \in {1, 2}
         /\ current[f] \in Orders /\ phase[f] \in Looping
<1>1. writes[f] \in Seq(Amounts) /\ current[f] \in Orders \cup {None}
  BY DEF MatchingInv, Typed
<1>2. Len(writes[f]) \in {1, 2}
  <2>1. Len(writes[f]) \in Nat /\ Len(writes[f]) # 0
    BY <1>1
  <2>2. Len(writes[f]) <= 2
    BY DEF AloneInv, HandsOpen, WritesOf
  <2>3. \A n \in Nat : n # 0 /\ n <= 2 => n \in {1, 2}
    OBVIOUS
  <2> QED
    BY <2>1, <2>2, <2>3
<1>3. Len(writes[f]) \in 1..Len(writes[f])
  BY <1>2
<1>4. writes[f][Len(writes[f])] \in Amounts
  BY <1>1, <1>3
<1>5. writes[f][Len(writes[f])].o = current[f]
  BY <1>3 DEF AloneInv, HandsOpen, WritesOf
<1>6. phase[f] \in Looping
  BY DEF MatchingInv, Tidy
<1> QED
  BY <1>1, <1>2, <1>4, <1>5, <1>6 DEF Amounts

LEMMA AfterSearch ==
  ASSUME MatchingInv, AloneInv, NEW f \in Finders, NEW s \in SearchSlots, Search(f, s)
  PROVE  HandsOpen(f)' /\ FoundFill(f)' /\ OffersOpen(f)'
<1>1. /\ UNCHANGED <<outer, current, inner, writes, found, offered>>
      /\ phase[f] = "idle" /\ phase'[f] \in {"collecting", "crossing"}
  BY DEF Search, MatchingInv, Typed
<1>2. HandsOpen(f)'
  BY <1>1, IdleHands, EmptyHands DEF Looping
<1>3. offered[f] = {}
  BY <1>1 DEF AloneInv, OffersOpen, BeforeOffers
<1> QED
  BY <1>1, <1>2, <1>3 DEF AloneInv, FoundFill, OffersOpen, BeforeOffers

\* Before the first loop a search has nothing.
LEMMA AfterMoves ==
  ASSUME MatchingInv, AloneInv, NEW f \in Finders,
         Collect(f) \/ RemoveDue(f) \/ InsertDue(f) \/ Moved(f)
  PROVE  HandsOpen(f)' /\ FoundFill(f)' /\ OffersOpen(f)'
<1>1. /\ UNCHANGED <<outer, current, inner, writes, found, offered>>
      /\ phase[f] \in {"collecting", "moving"} /\ phase'[f] \in {"moving", "crossing"}
  BY DEF Collect, RemoveDue, InsertDue, Moved, MatchingInv, Typed, MovesInv
<1>2. HandsOpen(f)'
  BY <1>1, IdleHands, EmptyHands DEF Looping
<1>3. offered[f] = {}
  BY <1>1 DEF AloneInv, OffersOpen, BeforeOffers
<1> QED
  BY <1>1, <1>2, <1>3 DEF AloneInv, FoundFill, OffersOpen

\* Alone, the producers merge the lists as they are.
LEMMA OuterProduced ==
  ASSUME MatchingInv, AloneInv, NEW f \in Finders, ProduceOuter(f)
  PROVE  \E o \in Produces(outer[f], OuterMembers(f), FALSE) : outer'[f] = Yield(outer[f], o, filled[o])
<1>1. ~loose[f] /\ \A o \in Orders : Carried(f, o) = filled[o]
  BY StillThere DEF AloneInv, Unmoved
<1>2. loose[f] = FALSE
  BY <1>1 DEF MatchingInv, MovesTyped
<1>3. \A o \in Produces(outer[f], OuterMembers(f), loose[f]) : o \in Orders
  BY <1>2, MembersAreOrders DEF Produces, Best, Heads
<1>4. \E o \in Produces(outer[f], OuterMembers(f), loose[f]) :
        outer' = [outer EXCEPT ![f] = Yield(@, o, Carried(f, o))]
  BY DEF ProduceOuter
<1>5. outer \in [Finders -> Generators]
  BY DEF MatchingInv, Typed
<1> QED
  BY <1>1, <1>2, <1>3, <1>4, <1>5

LEMMA InnerProduced ==
  ASSUME MatchingInv, AloneInv, NEW f \in Finders, ProduceInner(f)
  PROVE  \E o \in Produces(inner[f], InnerMembers, FALSE) : inner'[f] = Yield(inner[f], o, filled[o])
<1>1. loose[f] = FALSE
  BY DEF MatchingInv, MovesTyped, AloneInv, Unmoved
<1> QED
  BY <1>1 DEF ProduceInner, MatchingInv, Typed

LEMMA AfterProduceOuter ==
  ASSUME MatchingInv, AloneInv, NEW f \in Finders, ProduceOuter(f)
  PROVE  HandsOpen(f)' /\ FoundFill(f)' /\ OffersOpen(f)'
<1>1. UNCHANGED <<book, filled, place, maxSlot, phase, current, inner, writes, found, offered>>
  BY DEF ProduceOuter, moveVars
<1>2. PICK o \in Produces(outer[f], OuterMembers(f), FALSE) : outer'[f] = Yield(outer[f], o, filled[o])
  BY OuterProduced
<1>3. /\ AllOpen(Yield(outer[f], o, filled[o])) /\ o \notin outer[f].passed
      /\ outer[f].passed \subseteq Yield(outer[f], o, filled[o]).passed
      /\ \A x : IsReady(Yield(outer[f], o, filled[o]), x) => IsReady(outer[f], x) \/ x = o
  <2>1. outer[f] \in Generators /\ OuterMembers(f) \in SUBSET Orders /\ AllOpen(outer[f])
    BY MembersAreOrders DEF MatchingInv, Typed, AloneInv, HandsOpen
  <2> QED
    BY <2>1, YieldOpen
<1>4. AllOpen(outer[f])' /\ AllOpen(inner[f])'
  BY <1>1, <1>2, <1>3 DEF AllOpen, IsBaseFilled, AloneInv, HandsOpen
<1>5. current[f] # None => /\ ~IsBaseFilled(current[f])'
                           /\ current[f] \in outer'[f].passed /\ ~IsReady(outer'[f], current[f])
  BY <1>1, <1>2, <1>3 DEF IsBaseFilled, AloneInv, HandsOpen
<1>6. HandsOpen(f)'
  BY <1>1, <1>4, <1>5 DEF AloneInv, HandsOpen, WritesOf, IsReady
<1> QED
  BY <1>1, <1>6, OffersSame DEF AloneInv, FoundFill

LEMMA AfterProduceInner ==
  ASSUME MatchingInv, AloneInv, NEW f \in Finders, ProduceInner(f)
  PROVE  HandsOpen(f)' /\ FoundFill(f)' /\ OffersOpen(f)'
<1>1. UNCHANGED <<book, filled, place, maxSlot, phase, current, outer, writes, found, offered>>
  BY DEF ProduceInner, moveVars
<1>2. PICK o \in Produces(inner[f], InnerMembers, FALSE) : inner'[f] = Yield(inner[f], o, filled[o])
  BY InnerProduced
<1>3. /\ AllOpen(Yield(inner[f], o, filled[o])) /\ o \notin inner[f].passed
      /\ inner[f].passed \subseteq Yield(inner[f], o, filled[o]).passed
      /\ \A x : IsReady(Yield(inner[f], o, filled[o]), x) => IsReady(inner[f], x) \/ x = o
  <2>1. inner[f] \in Generators /\ InnerMembers \in SUBSET Orders /\ AllOpen(inner[f])
    BY MembersAreOrders DEF MatchingInv, Typed, AloneInv, HandsOpen
  <2> QED
    BY <2>1, YieldOpen
<1>4. AllOpen(outer[f])' /\ AllOpen(inner[f])'
  BY <1>1, <1>2, <1>3 DEF AllOpen, IsBaseFilled, AloneInv, HandsOpen
<1>5. WritesOf(f)'
  <2>1. \A x : x \in inner[f].passed /\ ~IsReady(inner[f], x)
                 => x \in inner'[f].passed /\ ~IsReady(inner'[f], x)
    BY <1>2, <1>3
  <2> QED
    BY <1>1, <2>1 DEF AloneInv, HandsOpen, WritesOf, IsReady
<1>6. HandsOpen(f)'
  BY <1>1, <1>4, <1>5 DEF AloneInv, HandsOpen, IsReady, IsBaseFilled
<1> QED
  BY <1>1, <1>6, OffersSame DEF AloneInv, FoundFill

LEMMA AfterTake ==
  ASSUME MatchingInv, AloneInv, NEW f \in Finders, Take(f)
  PROVE  HandsOpen(f)' /\ FoundFill(f)' /\ OffersOpen(f)'
<1>1. /\ UNCHANGED <<book, filled, place, maxSlot, phase, writes, found, offered>>
      /\ current[f] = None /\ outer[f].ready # <<>>
      /\ current'[f] = Head(outer[f].ready) /\ inner'[f] = NewGenerator
      /\ outer'[f] = [outer[f] EXCEPT !.ready = Tail(@)]
  BY DEF Take, MatchingInv, Typed, moveVars
<1>2. outer[f] \in Generators /\ AllOpen(outer[f])
  BY DEF MatchingInv, Typed, AloneInv, HandsOpen
<1>3. writes[f] = <<>>
  BY <1>1, WritesType, MatchingAssumption DEF MatchingAssumption
<1>4. \A h : h = [outer[f] EXCEPT !.ready = Tail(@)] =>
        /\ AllOpen(h) /\ h.passed = outer[f].passed
        /\ ~IsReady(h, Head(outer[f].ready)) /\ Head(outer[f].ready) \in outer[f].passed
        /\ ~IsBaseFilled(Head(outer[f].ready))
  BY <1>1, <1>2, PopOpen
<1>5. /\ AllOpen(outer'[f]) /\ outer'[f].passed = outer[f].passed
      /\ ~IsReady(outer'[f], current'[f]) /\ current'[f] \in outer[f].passed
      /\ ~IsBaseFilled(current'[f])
  BY <1>1, <1>4
<1>6. HandsOpen(f)'
  <2>1. \A o : IsBaseFilled(o)' <=> IsBaseFilled(o)
    BY <1>1 DEF IsBaseFilled
  <2>2. \A g : AllOpen(g)' <=> AllOpen(g)
    BY <2>1 DEF AllOpen
  <2>3. AllOpen(outer[f])' /\ AllOpen(inner[f])'
    <3>1. \A g : (g = outer'[f] \/ g = inner'[f]) => AllOpen(g)'
      BY <1>1, <1>5, <2>2, NothingReady
    <3> QED
      BY <3>1
  <2>4. WritesOf(f)'
    BY <1>1, <1>3 DEF WritesOf
  <2>5. ~IsBaseFilled(current[f])' /\ current'[f] \in outer'[f].passed /\ ~IsReady(outer'[f], current'[f])
    BY <1>1, <1>5 DEF IsBaseFilled
  <2> QED
    BY <2>3, <2>4, <2>5 DEF HandsOpen, IsReady
<1> QED
  BY <1>1, <1>6, OffersSame DEF AloneInv, FoundFill

\* Both have something left.
LEMMA LookFills ==
  ASSUME MatchingInv, NEW a \in Orders, NEW b \in Orders, ~IsBaseFilled(a), ~IsBaseFilled(b)
  PROVE  Min({Remaining(a, filled[a]), Remaining(b, filled[b])}) > 0
<1>1. \A o \in {a, b} : Remaining(o, filled[o]) \in Nat /\ Remaining(o, filled[o]) > 0
  <2> SUFFICES ASSUME NEW o \in {a, b} PROVE Remaining(o, filled[o]) \in Nat /\ Remaining(o, filled[o]) > 0
    OBVIOUS
  <2>1. filled[o] \in Nat /\ book[o].size \in Nat /\ filled[o] <= book[o].size
    BY BookTypes DEF MatchingInv, Typed, Bounded, Within
  <2> QED
    BY <2>1 DEF Remaining, IsBaseFilled
<1>2. \E x \in {Remaining(a, filled[a]), Remaining(b, filled[b])} :
        \A y \in {Remaining(a, filled[a]), Remaining(b, filled[b])} : x <= y
  BY <1>1
<1>3. Min({Remaining(a, filled[a]), Remaining(b, filled[b])})
        \in {Remaining(a, filled[a]), Remaining(b, filled[b])}
  BY <1>2 DEF Min
<1> QED
  BY <1>1, <1>3

LEMMA AfterLook ==
  ASSUME MatchingInv, AloneInv, NEW f \in Finders, Look(f)
  PROVE  HandsOpen(f)' /\ FoundFill(f)' /\ OffersOpen(f)'
<1> DEFINE taker == current[f]
           maker == Head(inner[f].ready)
           has == Carried(f, taker)
           base == Min({Remaining(taker, has), Remaining(maker, filled[maker])})
           pairs == Pairs(phase[f], taker, maker)
           new == <<[o |-> maker, amount |-> NewAmount(filled[maker], base)],
                    [o |-> taker, amount |-> NewAmount(has, base)]>>
<1>1. /\ UNCHANGED <<book, filled, place, maxSlot, phase, outer, offered>>
      /\ taker # None /\ writes[f] = <<>> /\ inner[f].ready # <<>>
  BY DEF Look, moveVars
<1>2. OffersOpen(f)'
  BY <1>1, OffersSame DEF AloneInv
<1>3. inner[f] \in Generators /\ AllOpen(inner[f]) /\ taker \in Orders
  BY <1>1 DEF MatchingInv, Typed, AloneInv, HandsOpen
<1>4. CASE Stops(phase[f], taker, maker)
  <2>1. /\ current'[f] = None /\ inner'[f] = NewGenerator /\ writes' = writes /\ found' = found
    BY <1>4 DEF Look, LeaveInner, MatchingInv, Typed
  <2>2. HandsOpen(f)'
    BY <1>1, <2>1 DEF AloneInv, HandsOpen, AllOpen, IsReady, IsBaseFilled, WritesOf, NewGenerator
  <2> QED
    BY <1>2, <2>1, <2>2 DEF AloneInv, FoundFill
<1>5. CASE ~Stops(phase[f], taker, maker)
  <2>1. /\ inner'[f] = [inner[f] EXCEPT !.ready = Tail(@)] /\ current' = current
        /\ found'[f] = found[f] \cup
             {[node |-> p.node, maker |-> p.maker, base |-> base] : p \in pairs}
        /\ writes'[f] \in {<<>>, new}
    BY <1>1, <1>5 DEF Look, MatchingInv, Typed
  <2>2. \A h : h = [inner[f] EXCEPT !.ready = Tail(@)] =>
          /\ AllOpen(h) /\ h.passed = inner[f].passed
          /\ ~IsReady(h, maker) /\ maker \in inner[f].passed
          /\ ~IsBaseFilled(maker) /\ maker \in Orders
    BY <1>1, <1>3, PopOpen
  <2>3. /\ AllOpen(inner'[f]) /\ maker \in inner'[f].passed /\ ~IsReady(inner'[f], maker)
        /\ ~IsBaseFilled(maker) /\ maker \in Orders
    BY <2>1, <2>2
  <2>4. base > 0
    <3>1. has = filled[taker] /\ ~IsBaseFilled(taker)
      BY <1>1, <1>3, StillThere DEF AloneInv, HandsOpen
    <3> HIDE DEF taker, maker, has
    <3> QED
      BY <1>3, <2>3, <3>1, LookFills
  <2>5. Len(new) = 2 /\ new[1].o = maker /\ new[2].o = taker
    OBVIOUS
  <2> HIDE DEF taker, maker, has, base, pairs, new
  <2>6. FoundFill(f)'
    BY <2>1, <2>4 DEF AloneInv, FoundFill
  <2>7. WritesOf(f)'
    <3>1. CASE writes'[f] = <<>>
      BY <3>1 DEF WritesOf
    <3>2. CASE writes'[f] = new
      <4>1. /\ Len(writes'[f]) = 2 /\ writes'[f][1].o = maker
            /\ writes'[f][2].o = current'[f]
        BY <2>1, <2>5, <3>2 DEF taker
      <4>2. ~(\E i \in 1..Len(inner'[f].ready) : inner'[f].ready[i] = maker)
        BY <2>3 DEF IsReady
      <4>3. \A i \in 1..2 : i = 1 \/ i = 2
        OBVIOUS
      <4> QED
        BY <2>3, <4>1, <4>2, <4>3 DEF WritesOf, IsReady
    <3> QED
      BY <2>1, <3>1, <3>2
  <2>8. HandsOpen(f)'
    BY <1>1, <2>1, <2>3, <2>7 DEF AloneInv, HandsOpen, AllOpen, IsReady, IsBaseFilled
  <2> QED
    BY <1>2, <2>6, <2>8
<1> QED
  BY <1>4, <1>5

\* What is written belongs to no order that is put by.
LEMMA WrittenIsApart ==
  ASSUME MatchingInv, AloneInv, NEW f \in Finders, writes[f] # <<>>
  PROVE  LET w == Head(writes[f])
         IN /\ ~IsReady(outer[f], w.o) /\ ~IsReady(inner[f], w.o)
            /\ \/ Len(writes[f]) = 1 /\ w.o = current[f] /\ w.o \in OuterMembers(f)
               \/ Len(writes[f]) = 2 /\ w.o \in InnerMembers /\ w.o # current[f]
<1> DEFINE w == Head(writes[f])
<1>1. /\ writes[f] \in Seq(Amounts) /\ Len(writes[f]) \in {1, 2} /\ w = writes[f][1]
      /\ current[f] \in Orders /\ phase[f] \in Looping
  BY WritesType
<1>2. current[f] \in OuterMembers(f) /\ current[f] # None
  BY <1>1, MatchingAssumption DEF MatchingInv, Tidy, MatchingAssumption
<1>3. \A x : x \in OuterMembers(f) => x \notin InnerMembers
  BY <1>1, LoopsApart DEF AloneInv
<1>4. \A x : IsReady(outer[f], x) => x \in OuterMembers(f)
  BY DEF MatchingInv, Tidy, IsReady
<1>5. \A x : IsReady(inner[f], x) => x \in InnerMembers
  BY DEF MatchingInv, Tidy, IsReady, AloneInv, HandsOpen, AllOpen
<1>6. CASE Len(writes[f]) = 1
  <2>1. w.o = current[f]
    BY <1>1, <1>6 DEF AloneInv, HandsOpen, WritesOf
  <2>2. ~IsReady(outer[f], current[f])
    BY <1>2 DEF AloneInv, HandsOpen
  <2> HIDE DEF w
  <2> QED
    BY <1>2, <1>3, <1>5, <1>6, <2>1, <2>2 DEF w
<1>7. CASE Len(writes[f]) = 2
  <2>1. w.o \in inner[f].passed /\ ~IsReady(inner[f], w.o)
    BY <1>1, <1>7 DEF AloneInv, HandsOpen, WritesOf
  <2>2. w.o \in InnerMembers
    BY <2>1 DEF MatchingInv, Tidy
  <2> HIDE DEF w
  <2> QED
    BY <1>2, <1>3, <1>4, <1>7, <2>1, <2>2 DEF w
<1> QED
  BY <1>1, <1>6, <1>7

LEMMA AfterWrite ==
  ASSUME MatchingInv, AloneInv, NEW f \in Finders, Write(f)
  PROVE  HandsOpen(f)' /\ FoundFill(f)' /\ OffersOpen(f)'
<1> DEFINE w == Head(writes[f])
<1>1. /\ writes[f] # <<>> /\ writes'[f] = Tail(writes[f])
      /\ UNCHANGED <<book, confirmed, place, maxSlot, phase, slot, outer, found, offered>>
      /\ filled' \in {filled, [filled EXCEPT ![w.o] = w.amount]}
      /\ IF w.o = current[f] /\ w.amount = book[w.o].size
         THEN LeaveInner(f) ELSE UNCHANGED <<current, inner>>
  BY DEF Write, MatchingInv, Typed, moveVars
<1>2. /\ writes[f] \in Seq(Amounts) /\ Len(writes[f]) \in {1, 2} /\ w = writes[f][1]
      /\ current[f] \in Orders /\ current[f] # None /\ phase[f] \in Looping
  BY <1>1, WritesType, MatchingAssumption DEF MatchingAssumption
<1>3. /\ ~IsReady(outer[f], w.o) /\ ~IsReady(inner[f], w.o)
      /\ \/ Len(writes[f]) = 1 /\ w.o = current[f] /\ w.o \in OuterMembers(f)
         \/ Len(writes[f]) = 2 /\ w.o \in InnerMembers /\ w.o # current[f]
  BY <1>1, WrittenIsApart
<1>4. w.o \in Orders
  BY <1>2, <1>3, MembersAreOrders
<1>5. \/ current'[f] = None /\ inner'[f] = NewGenerator /\ w.o = current[f]
      \/ /\ current'[f] = current[f] /\ inner'[f] = inner[f]
         /\ w.o = current[f] => w.amount # book[w.o].size
  BY <1>1 DEF LeaveInner, MatchingInv, Typed
<1>6. /\ Len(writes'[f]) = Len(writes[f]) - 1
      /\ \A i \in 1..Len(writes'[f]) : writes'[f][i] = writes[f][i + 1]
  BY <1>1, <1>2
<1> HIDE DEF w
<1>7. \A x \in Orders : x # w.o => (IsBaseFilled(x)' <=> IsBaseFilled(x))
  BY <1>1, <1>4 DEF MatchingInv, Typed, IsBaseFilled
<1>8. ASSUME NEW g \in Generators, AllOpen(g), ~IsReady(g, w.o)
      PROVE  \A i \in 1..Len(g.ready) : ~(filled'[g.ready[i]] = book[g.ready[i]].size)
  <2>1. \A i \in 1..Len(g.ready) : g.ready[i] \in Orders /\ g.ready[i] # w.o
    BY <1>8 DEF IsReady, Generators
  <2> QED
    BY <1>1, <1>7, <1>8, <2>1 DEF AllOpen, IsBaseFilled
<1>9. outer[f] \in Generators /\ inner[f] \in Generators /\ AllOpen(outer[f]) /\ AllOpen(inner[f])
  BY DEF MatchingInv, Typed, AloneInv, HandsOpen
<1>10. AllOpen(outer[f])'
  <2>1. outer'[f] = outer[f] /\ book' = book
    BY <1>1
  <2>2. \A i \in 1..Len(outer[f].ready) : ~(filled'[outer[f].ready[i]] = book[outer[f].ready[i]].size)
    BY <1>3, <1>8, <1>9
  <2> QED
    BY <1>9, <2>1, <2>2 DEF AllOpen, IsBaseFilled
<1>11. AllOpen(inner[f])'
  <2>1. CASE inner'[f] = NewGenerator
    BY <2>1 DEF AllOpen, NewGenerator
  <2>2. CASE inner'[f] = inner[f]
    <3>1. book' = book
      BY <1>1
    <3>2. \A i \in 1..Len(inner[f].ready) : ~(filled'[inner[f].ready[i]] = book[inner[f].ready[i]].size)
      BY <1>3, <1>8, <1>9
    <3> QED
      BY <1>9, <2>2, <3>1, <3>2 DEF AllOpen, IsBaseFilled
  <2> QED
    BY <1>5, <2>1, <2>2
<1>12. current'[f] # None => /\ current'[f] = current[f] /\ ~IsBaseFilled(current[f])'
  <2> SUFFICES ASSUME current'[f] # None PROVE current'[f] = current[f] /\ ~IsBaseFilled(current[f])'
    OBVIOUS
  <2>1. current'[f] = current[f] /\ (w.o = current[f] => w.amount # book[w.o].size)
    BY <1>5
  <2>2. ~IsBaseFilled(current[f])
    BY <1>2 DEF AloneInv, HandsOpen
  <2>3. CASE w.o # current[f]
    BY <1>2, <1>7, <2>1, <2>2, <2>3 DEF IsBaseFilled
  <2>4. CASE w.o = current[f]
    BY <1>1, <1>4, <2>1, <2>2, <2>4 DEF IsBaseFilled, MatchingInv, Typed
  <2> QED
    BY <2>1, <2>3, <2>4
<1>13. WritesOf(f)'
  <2>1. CASE Len(writes[f]) = 1
    BY <1>6, <2>1 DEF WritesOf
  <2>2. CASE Len(writes[f]) = 2
    <3>1. writes[f][2].o = current[f] /\ current'[f] = current[f]
      BY <1>3, <1>5, <2>2 DEF AloneInv, HandsOpen, WritesOf
    <3>2. Len(writes'[f]) = 1 /\ writes'[f][1].o = current'[f]
      BY <1>6, <2>2, <3>1
    <3> QED
      BY <3>2 DEF WritesOf
  <2> QED
    BY <1>2, <2>1, <2>2
<1>14. HandsOpen(f)'
  BY <1>1, <1>10, <1>11, <1>12, <1>13 DEF AloneInv, HandsOpen, IsReady, IsBaseFilled
<1>15. ASSUME NEW o \in offered[f], book[o].side = "ask" PROVE o # w.o /\ o \in Orders
  <2>1. o \in Orders
    BY DEF MatchingInv, Typed
  <2>2. w.o \in OuterMembers(f) \/ w.o \in InnerMembers
    BY <1>3
  <2>3. phase[f] \in {"takingAsks", "takingBids"}
    BY <1>2, <1>15 DEF AloneInv, OffersOpen, BeforeOffers, Looping
  <2>4. phase[f] = "takingAsks" => o \in Resting("ask")
    BY <1>15 DEF AloneInv, OffersOpen, BeforeTaking
  <2> QED
    BY <1>15, <2>1, <2>2, <2>3, <2>4
    DEF OuterMembers, InnerMembers, Resting, Taking, TakingOf, Listed, AloneInv, Unmoved
<1>16. OffersOpen(f)'
  <2>1. Resting("ask")' = Resting("ask")
    BY <1>1 DEF Resting, Listed
  <2>2. \A o \in offered[f] : book[o].side = "ask" => ~IsBaseFilled(o)'
    BY <1>7, <1>15 DEF AloneInv, OffersOpen
  <2> QED
    BY <1>1, <2>1, <2>2 DEF AloneInv, OffersOpen, IsBaseFilled
<1> QED
  BY <1>1, <1>14, <1>16 DEF AloneInv, FoundFill

LEMMA AfterEndInner ==
  ASSUME MatchingInv, AloneInv, NEW f \in Finders, EndInner(f)
  PROVE  HandsOpen(f)' /\ FoundFill(f)' /\ OffersOpen(f)'
<1>1. /\ UNCHANGED <<book, filled, place, maxSlot, phase, outer, writes, found, offered>>
      /\ writes[f] = <<>> /\ current'[f] = None /\ inner'[f] = NewGenerator
  BY DEF EndInner, LeaveInner, MatchingInv, Typed, moveVars
<1>2. HandsOpen(f)'
  BY <1>1 DEF AloneInv, HandsOpen, AllOpen, IsReady, IsBaseFilled, WritesOf, NewGenerator
<1> QED
  BY <1>1, <1>2, OffersSame DEF AloneInv, FoundFill

LEMMA AfterPhase ==
  /\ After("crossing") = "restingAsksFallback"
  /\ After("restingAsksFallback") = "restingBidsFallback"
  /\ After("restingBidsFallback") = "takingAsks"
  /\ After("takingAsks") = "takingAsksFallback"
  /\ After("takingAsksFallback") = "takingBids"
  /\ After("takingBids") = "takingBidsFallback"
  /\ After("takingBidsFallback") = "return"
<1>1. /\ Len(Phases) = 8 /\ DOMAIN Phases = 1..8
      /\ Phases[1] = "crossing" /\ Phases[2] = "restingAsksFallback"
      /\ Phases[3] = "restingBidsFallback" /\ Phases[4] = "takingAsks"
      /\ Phases[5] = "takingAsksFallback" /\ Phases[6] = "takingBids"
      /\ Phases[7] = "takingBidsFallback" /\ Phases[8] = "return"
  BY DEF Phases
<1>2. \A i, j \in 1..8 : Phases[i] = Phases[j] => i = j
  BY <1>1
<1>3. ASSUME NEW i \in 1..7 PROVE After(Phases[i]) = Phases[i + 1]
  <2>1. (CHOOSE j \in DOMAIN Phases : Phases[j] = Phases[i]) = i
    BY <1>1, <1>2
  <2> QED
    BY <1>1, <2>1 DEF After
<1> QED
  BY <1>1, <1>3

LEMMA AfterEndOuter ==
  ASSUME MatchingInv, AloneInv, NEW f \in Finders, EndOuter(f)
  PROVE  HandsOpen(f)' /\ FoundFill(f)' /\ OffersOpen(f)'
<1>1. /\ UNCHANGED <<book, filled, place, maxSlot, current, inner, writes, found, offered>>
      /\ phase[f] \in Looping /\ phase'[f] = After(phase[f])
      /\ current[f] = None /\ writes[f] = <<>> /\ outer'[f] = NewGenerator
  BY DEF EndOuter, MatchingInv, Typed
<1>2. inner[f] = NewGenerator
  BY <1>1 DEF MatchingInv, Tidy
<1>3. HandsOpen(f)'
  BY <1>1, <1>2, EmptyHands
<1>4. Resting("ask")' = Resting("ask")
  BY <1>1 DEF Resting, Listed
<1>5. /\ phase'[f] \in BeforeOffers => phase[f] \in BeforeOffers
      /\ phase'[f] \in BeforeTaking => phase[f] \in BeforeTaking
  BY <1>1, AfterPhase DEF Looping, BeforeOffers, BeforeTaking
<1>6. OffersOpen(f)'
  BY <1>1, <1>4, <1>5 DEF AloneInv, OffersOpen, IsBaseFilled
<1> QED
  BY <1>1, <1>3, <1>6 DEF AloneInv, FoundFill

\* An ask that is offered is open, and the loops that follow do not fill it.
LEMMA AfterOffer ==
  ASSUME MatchingInv, AloneInv, NEW f \in Finders, Offer(f)
  PROVE  HandsOpen(f)' /\ FoundFill(f)' /\ OffersOpen(f)'
<1>1. /\ UNCHANGED <<book, filled, place, maxSlot, outer, current, inner, writes, found>>
      /\ phase[f] \in {"restingAsksFallback", "restingBidsFallback", "takingAsksFallback",
                       "takingBidsFallback"}
      /\ phase'[f] = After(phase[f])
      /\ offered'[f] = offered[f] \cup FallbackOrders(f)
  BY DEF Offer, MatchingInv, Typed, Types, Looping, moveVars
<1>2. HandsOpen(f)'
  BY <1>1, IdleHands, EmptyHands DEF Looping
<1>3. Resting("ask")' = Resting("ask")
  BY <1>1 DEF Resting, Listed
<1>4. ASSUME NEW o \in FallbackOrders(f), book[o].side = "ask"
      PROVE  ~IsBaseFilled(o) /\ (phase[f] \in {"restingAsksFallback", "restingBidsFallback"}
                                    => o \in Resting("ask"))
  BY <1>1, <1>4 DEF FallbackOrders, Unfilled, Resting, Taking, Listed
<1>5. /\ phase'[f] \notin BeforeOffers
      /\ phase'[f] \in BeforeTaking =>
           /\ phase[f] \in {"restingAsksFallback", "restingBidsFallback"}
           /\ phase[f] \in BeforeTaking \cup BeforeOffers
  BY <1>1, AfterPhase DEF BeforeOffers, BeforeTaking
<1>6. OffersOpen(f)'
  BY <1>1, <1>3, <1>4, <1>5 DEF AloneInv, OffersOpen, IsBaseFilled
<1> QED
  BY <1>1, <1>2, <1>6 DEF AloneInv, FoundFill

LEMMA AfterReturn ==
  ASSUME MatchingInv, AloneInv, NEW f \in Finders, Return(f)
  PROVE  HandsOpen(f)' /\ FoundFill(f)' /\ OffersOpen(f)'
<1>1. /\ UNCHANGED <<outer, current, inner, writes>>
      /\ phase[f] = "return" /\ found'[f] = {} /\ offered'[f] = {}
  BY DEF Return, MatchingInv, Typed
<1>2. HandsOpen(f)'
  BY <1>1, IdleHands, EmptyHands DEF Looping
<1> QED
  BY <1>1, <1>2 DEF FoundFill, OffersOpen

LEMMA AfterUpdate ==
  ASSUME MatchingInv, AloneInv, NEW o \in Orders, NEW amount, Update(o, amount),
         NEW f \in Finders
  PROVE  HandsOpen(f)' /\ FoundFill(f)' /\ OffersOpen(f)'
<1>1. /\ UNCHANGED <<phase, outer, current, inner, writes, found, offered>>
      /\ phase[f] = "idle"
  BY DEF Update
<1>2. HandsOpen(f)'
  BY <1>1, IdleHands, EmptyHands DEF Looping
<1>3. offered[f] = {}
  BY <1>1 DEF AloneInv, OffersOpen, BeforeOffers
<1> QED
  BY <1>1, <1>2, <1>3 DEF AloneInv, FoundFill, OffersOpen

-----------------------------------------------------------------------------

LEMMA AloneInvInitially == Init => AloneInv
<1> SUFFICES ASSUME Init, NEW f \in Finders
             PROVE  HandsOpen(f) /\ FoundFill(f) /\ OffersOpen(f) /\ Unmoved(f)
  BY DEF AloneInv
<1>1. HandsOpen(f)
  BY NothingReady DEF Init, HandsOpen, WritesOf
<1> QED
  BY <1>1 DEF Init, FoundFill, OffersOpen, Unmoved

LEMMA UnmovedKept ==
  ASSUME Alone, MatchingInv, AloneInv, [Next]_vars, NEW f \in Finders
  PROVE  Unmoved(f)'
<1>1. loose \in [Finders -> BOOLEAN] /\ Unmoved(f) /\ \A g \in Finders : g = f
  BY DEF MatchingInv, MovesTyped, AloneInv, Alone
<1>2. CASE Collect(f) \/ EndOuter(f)
  BY <1>1, <1>2 DEF Collect, EndOuter, Forget, Unmoved, MatchingInv, MovesTyped
<1>3. CASE RemoveDue(f) \/ InsertDue(f)
  BY <1>1, <1>3 DEF RemoveDue, InsertDue, Unmoved
<1>4. CASE UNCHANGED <<gone, loose>>
  BY <1>1, <1>4 DEF Unmoved
<1> QED
  BY <1>1, <1>2, <1>3, <1>4 DEF Next, Work, Search, Update, Moved, ProduceOuter, ProduceInner, Take,
     Look, Write, EndInner, Offer, Return, Race, vars, moveVars

LEMMA AloneInvKept ==
  ASSUME Alone, MatchingInv, AloneInv, [Next]_vars
  PROVE  AloneInv'
<1> SUFFICES ASSUME NEW f \in Finders
             PROVE  HandsOpen(f)' /\ FoundFill(f)' /\ OffersOpen(f)'
  BY UnmovedKept DEF AloneInv
<1>1. \A g \in Finders : g = f
  BY DEF Alone
<1>2. CASE \E s \in SearchSlots : Search(f, s)
  BY <1>2, AfterSearch
<1>3. CASE Work(f)
  BY <1>3, AfterMoves, AfterProduceOuter, AfterProduceInner, AfterTake, AfterLook, AfterWrite, AfterEndInner,
     AfterEndOuter, AfterOffer, AfterReturn DEF Work
<1>4. CASE \E o \in Orders : \E amount \in 0..book[o].size - 1 : Update(o, amount)
  BY <1>4, AfterUpdate
<1>5. CASE UNCHANGED vars
  <2>1. UNCHANGED <<book, filled, place, maxSlot, phase, outer, current, inner, writes, found, offered>>
    BY <1>5 DEF vars, moveVars
  <2>2. AllOpen(outer[f])' /\ AllOpen(inner[f])'
    BY <2>1 DEF AloneInv, HandsOpen, AllOpen, IsBaseFilled
  <2>3. WritesOf(f)'
    BY <2>1 DEF AloneInv, HandsOpen, WritesOf, IsReady
  <2>4. HandsOpen(f)'
    BY <2>1, <2>2, <2>3 DEF AloneInv, HandsOpen, IsReady, IsBaseFilled
  <2> QED
    BY <2>1, <2>4, OffersSame DEF AloneInv, FoundFill
<1> QED
  BY <1>1, <1>2, <1>3, <1>4, <1>5 DEF Next, Race

\* With one search at a time, every match it reports has something to fill,
\* although its producers looked at what is filled before earlier matches wrote it.
THEOREM MatchesFill ==
  ASSUME Alone
  PROVE  Spec => []EveryMatchFills
<1>1. AloneInv => EveryMatchFills
  BY DEF AloneInv, FoundFill, EveryMatchFills
<1>2. MatchingInv /\ AloneInv /\ [Next]_vars => AloneInv'
  BY AloneInvKept
<1> QED
  BY <1>1, <1>2, AloneInvInitially, MatchingInvAlways, PTL DEF Spec

\* With one search at a time, an ask it has offered to the AMM is not filled by
\* the matches it reports afterwards.
THEOREM OfferedAsksAreOpen ==
  ASSUME Alone
  PROVE  Spec => []LeftForAMM
<1>1. AloneInv => LeftForAMM
  BY DEF AloneInv, OffersOpen, LeftForAMM
<1>2. MatchingInv /\ AloneInv /\ [Next]_vars => AloneInv'
  BY AloneInvKept
<1> QED
  BY <1>1, <1>2, AloneInvInitially, MatchingInvAlways, PTL DEF Spec

-----------------------------------------------------------------------------
(* Sums.  MapThenSumSet is defined by a recursive function over the        *)
(* subsets of a finite set; a least subset where two such functions would  *)
(* differ takes the place of an induction.                                 *)

\* The base amount of a set of matches.
TotalOf(T) == MapThenSumSet(LAMBDA m : m.base, T)

Pick(s) == CHOOSE x \in s : TRUE

\* The function MapThenSumSet recurses with on the subsets of S.
Totals(g, S) ==
  g = [s \in SUBSET S |->
         IF s = {} THEN 0 ELSE LET x == CHOOSE x \in s : TRUE IN x.base + g[s \ {x}]]

LEMMA TotalIsFold ==
  ASSUME NEW T
  PROVE  TotalOf(T) = (CHOOSE g : Totals(g, T))[T]
BY DEF TotalOf, MapThenSumSet, MapThenFoldSet, Totals

\* Among sets of subsets of a finite set there is a least one.
LEMMA LeastSubset ==
  ASSUME NEW S, IsFiniteSet(S), NEW D \in SUBSET SUBSET S, D # {}
  PROVE  \E s \in D : \A t \in D : t \subseteq s => t = s
<1>1. D \subseteq FiniteSubsetsOf(S)
  BY FS_FiniteSubsetsOfFinite
<1>2. PICK s \in D : \A t \in D : <<t, s>> \notin StrictSubsetOrdering(S)
  BY <1>1, FS_StrictSubsetOrderingWellFounded, WFMin
<1>3. \A t \in D : t \subseteq s => t = s
  BY <1>2 DEF StrictSubsetOrdering
<1> QED
  BY <1>3

LEMMA Picked == \A s : s # {} => Pick(s) \in s
BY DEF Pick

LEMMA TotalsStep ==
  ASSUME NEW S, NEW g, Totals(g, S)
  PROVE  /\ g[{}] = 0
         /\ \A s \in SUBSET S : s # {} => g[s] = Pick(s).base + g[s \ {Pick(s)}]
<1> {} \in SUBSET S
  OBVIOUS
<1> QED
  BY DEF Totals, Pick

LEMMA TotalsAgree ==
  ASSUME NEW S, NEW T, IsFiniteSet(T), T \subseteq S, NEW g, NEW h, Totals(g, S), Totals(h, T),
         NEW s \in SUBSET T
  PROVE  g[s] = h[s]
<1>a. g[{}] = 0 /\ \A s1 \in SUBSET S : s1 # {} => g[s1] = Pick(s1).base + g[s1 \ {Pick(s1)}]
  BY TotalsStep
<1>b. h[{}] = 0 /\ \A s1 \in SUBSET T : s1 # {} => h[s1] = Pick(s1).base + h[s1 \ {Pick(s1)}]
  BY TotalsStep
<1> DEFINE D == {d \in SUBSET T : g[d] # h[d]}
<1> SUFFICES ASSUME D # {} PROVE FALSE
  OBVIOUS
<1>1. PICK d \in D : \A t \in D : t \subseteq d => t = d
  <2>1. D \in SUBSET SUBSET T
    OBVIOUS
  <2> HIDE DEF D
  <2> QED
    BY <2>1, LeastSubset
<1>2. d \in SUBSET T /\ d \in SUBSET S /\ g[d] # h[d]
  OBVIOUS
<1>3. d # {}
  BY <1>a, <1>b, <1>2
<1> DEFINE u == d \ {Pick(d)}
<1>4. Pick(d) \in d
  BY <1>3, Picked
<1>5. u \notin D /\ u \in SUBSET T
  BY <1>1, <1>2, <1>4
<1>6. g[u] = h[u]
  BY <1>5
<1>7. g[d] = Pick(d).base + g[u] /\ h[d] = Pick(d).base + h[u]
  <2> HIDE DEF D
  <2> QED
    BY <1>a, <1>b, <1>2, <1>3
<1> QED
  BY <1>2, <1>6, <1>7

LEMMA TotalsExist ==
  ASSUME NEW S, IsFiniteSet(S)
  PROVE  \E g : Totals(g, S)
<1> DEFINE D == {d \in SUBSET S : ~ \E g : Totals(g, d)}
<1> SUFFICES ASSUME D # {} PROVE FALSE
  OBVIOUS
<1>1. PICK d \in D : \A t \in D : t \subseteq d => t = d
  <2>1. D \in SUBSET SUBSET S
    OBVIOUS
  <2> HIDE DEF D
  <2> QED
    BY <2>1, LeastSubset
<1>2. d \in SUBSET S /\ ~ \E g : Totals(g, d)
  OBVIOUS
<1> DEFINE G(t) == CHOOSE g : Totals(g, t)
           sum(t) == IF t = {} THEN 0 ELSE Pick(t).base + G(t \ {Pick(t)})[t \ {Pick(t)}]
           f == [t \in SUBSET d |-> sum(t)]
<1>3. ASSUME NEW t \in SUBSET d, t # d PROVE Totals(G(t), t) /\ IsFiniteSet(t)
  <2>1. t \in SUBSET S /\ t \notin D
    BY <1>1, <1>2, <1>3
  <2>2. \E g : Totals(g, t)
    BY <2>1
  <2>3. IsFiniteSet(t)
    BY <2>1, FS_Subset
  <2> QED
    BY <2>2, <2>3
<1> HIDE DEF G, D
<1>4. ASSUME NEW t \in SUBSET d, t # d PROVE G(t)[t] = sum(t)
  <2>1. Totals(G(t), t) /\ t \in SUBSET t
    BY <1>3, <1>4
  <2>2. CASE t = {}
    BY <2>1, <2>2, TotalsStep
  <2>3. CASE t # {}
    <3>1. G(t)[t] = Pick(t).base + G(t)[t \ {Pick(t)}]
      BY <2>1, <2>3, TotalsStep
    <3>2. Pick(t) \in t
      BY <2>3, Picked
    <3> DEFINE u == t \ {Pick(t)}
    <3>3. u \in SUBSET d /\ u # d /\ u \subseteq t /\ u \in SUBSET u
      BY <1>4, <3>2
    <3>4. Totals(G(u), u) /\ IsFiniteSet(u)
      BY <1>3, <3>3
    <3> HIDE DEF u
    <3>5. G(t)[u] = G(u)[u]
      BY <2>1, <3>3, <3>4, TotalsAgree
    <3> QED
      BY <2>3, <3>1, <3>5 DEF u
  <2> QED
    BY <2>2, <2>3
<1>5. ASSUME NEW t \in SUBSET d
      PROVE  f[t] = IF t = {} THEN 0 ELSE Pick(t).base + f[t \ {Pick(t)}]
  <2>1. CASE t = {}
    BY <2>1
  <2>2. CASE t # {}
    <3> DEFINE u == t \ {Pick(t)}
    <3>1. Pick(t) \in t
      BY <2>2, Picked
    <3>2. u \in SUBSET d /\ u # d
      BY <3>1
    <3>3. G(u)[u] = sum(u)
      BY <1>4, <3>2
    <3>4. f[u] = sum(u) /\ f[t] = sum(t)
      BY <3>2
    <3>5. sum(t) = Pick(t).base + G(u)[u]
      BY <2>2
    <3> HIDE DEF f, sum
    <3> QED
      BY <2>2, <3>3, <3>4, <3>5
  <2> QED
    BY <2>1, <2>2
<1>6. Totals(f, d)
  <2> DEFINE step(t) == IF t = {} THEN 0 ELSE Pick(t).base + f[t \ {Pick(t)}]
  <2>1. \A t \in SUBSET d : sum(t) = step(t)
    BY <1>5
  <2> HIDE DEF sum, step
  <2>2. f = [t \in SUBSET d |-> step(t)]
    BY <2>1
  <2> HIDE DEF f
  <2> QED
    BY <2>2 DEF Totals, step, Pick
<1> QED
  BY <1>2, <1>6

\* The sum of nothing, and of what there is less one.
LEMMA TotalStep ==
  /\ TotalOf({}) = 0
  /\ \A T : IsFiniteSet(T) /\ T # {} => TotalOf(T) = Pick(T).base + TotalOf(T \ {Pick(T)})
<1> DEFINE G(t) == CHOOSE g : Totals(g, t)
<1>1. ASSUME NEW T, IsFiniteSet(T) PROVE Totals(G(T), T) /\ T \in SUBSET T /\ TotalOf(T) = G(T)[T]
  BY <1>1, TotalsExist, TotalIsFold
<1> HIDE DEF G
<1>2. TotalOf({}) = 0
  BY <1>1, FS_EmptySet, TotalsStep
<1>3. ASSUME NEW T, IsFiniteSet(T), T # {}
      PROVE  TotalOf(T) = Pick(T).base + TotalOf(T \ {Pick(T)})
  <2> DEFINE U == T \ {Pick(T)}
  <2>1. U \subseteq T /\ IsFiniteSet(U) /\ U \in SUBSET U
    BY <1>3, FS_Subset
  <2>2. Totals(G(U), U) /\ TotalOf(U) = G(U)[U]
    BY <2>1, <1>1
  <2>3. Totals(G(T), T) /\ T \in SUBSET T /\ TotalOf(T) = G(T)[T]
    BY <1>1, <1>3
  <2>4. G(T)[T] = Pick(T).base + G(T)[U]
    <3>1. \A s \in SUBSET T : s # {} => G(T)[s] = Pick(s).base + G(T)[s \ {Pick(s)}]
      BY <2>3, TotalsStep
    <3> QED
      BY <2>3, <1>3, <3>1
  <2> HIDE DEF U
  <2>5. G(T)[U] = G(U)[U]
    BY <2>1, <2>2, <2>3, TotalsAgree
  <2> QED
    BY <2>2, <2>3, <2>4, <2>5 DEF U
<1> QED
  BY <1>2, <1>3

LEMMA TotalType ==
  ASSUME NEW T, IsFiniteSet(T), \A m \in T : m.base \in Nat
  PROVE  TotalOf(T) \in Nat
<1> DEFINE D == {d \in SUBSET T : TotalOf(d) \notin Nat}
<1> SUFFICES ASSUME D # {} PROVE FALSE
  OBVIOUS
<1>1. PICK d \in D : \A t \in D : t \subseteq d => t = d
  <2>1. D \in SUBSET SUBSET T
    OBVIOUS
  <2> HIDE DEF D
  <2> QED
    BY <2>1, LeastSubset
<1>2. d \in SUBSET T /\ TotalOf(d) \notin Nat /\ IsFiniteSet(d)
  BY FS_Subset
<1>3. d # {}
  <2>1. TotalOf({}) = 0
    BY TotalStep
  <2> QED
    BY <1>2, <2>1
<1> DEFINE u == d \ {Pick(d)}
<1>4. Pick(d) \in d /\ Pick(d) \in T
  BY <1>2, <1>3, Picked
<1>5. TotalOf(u) \in Nat
  <2>1. u \in SUBSET T /\ u \notin D
    BY <1>1, <1>2, <1>4
  <2> HIDE DEF u
  <2> QED
    BY <2>1
<1>6. TotalOf(d) = Pick(d).base + TotalOf(u)
  BY <1>2, <1>3, TotalStep
<1> HIDE DEF D, u
<1> QED
  BY <1>2, <1>4, <1>5, <1>6

\* Any element can be taken out first.
LEMMA TotalWithout ==
  ASSUME NEW T, IsFiniteSet(T), \A m \in T : m.base \in Nat, NEW y \in T
  PROVE  TotalOf(T) = y.base + TotalOf(T \ {y})
<1> DEFINE Holds(d) == \A z \in d : TotalOf(d) = z.base + TotalOf(d \ {z})
           D == {d \in SUBSET T : ~Holds(d)}
<1> SUFFICES ASSUME D # {} PROVE FALSE
  OBVIOUS
<1>1. PICK d \in D : \A t \in D : t \subseteq d => t = d
  <2>1. D \in SUBSET SUBSET T
    OBVIOUS
  <2> HIDE DEF D
  <2> QED
    BY <2>1, LeastSubset
<1>2. d \in SUBSET T /\ ~Holds(d)
  OBVIOUS
<1>3. PICK z \in d : TotalOf(d) # z.base + TotalOf(d \ {z})
  BY <1>2
<1>4. Pick(d) \in d /\ d # {}
  BY <1>3, Picked
<1>5. PICK x : x = Pick(d)
  OBVIOUS
<1>6. \A t \in SUBSET d : IsFiniteSet(t) /\ TotalOf(t) \in Nat /\ (t # d => Holds(t))
  <2> TAKE t \in SUBSET d
  <2>1. IsFiniteSet(t) /\ \A m \in t : m.base \in Nat
    BY <1>2, FS_Subset
  <2> QED
    BY <1>1, <1>2, <2>1, TotalType
<1> HIDE DEF D
<1> DEFINE P == d \ {x}
           Q == d \ {z}
           R == P \ {z}
<1>7. TotalOf(d) = x.base + TotalOf(P)
  BY <1>4, <1>5, <1>6, TotalStep
<1>8. z # x /\ x \in d
  BY <1>3, <1>4, <1>5, <1>7
<1>9. /\ P \in SUBSET d /\ P # d /\ z \in P /\ Q \in SUBSET d /\ Q # d /\ x \in Q
      /\ R = Q \ {x} /\ R \in SUBSET d
  BY <1>3, <1>8
<1>10. TotalOf(d) # z.base + TotalOf(Q)
  BY <1>3
<1> HIDE DEF P, Q
<1>11. TotalOf(P) = z.base + TotalOf(R)
  BY <1>6, <1>9
<1>12. TotalOf(Q) = x.base + TotalOf(R)
  BY <1>6, <1>9
<1>13. x.base \in Nat /\ z.base \in Nat /\ TotalOf(R) \in Nat
  BY <1>2, <1>3, <1>6, <1>8, <1>9
<1> HIDE DEF R, Holds
<1> QED
  BY <1>7, <1>10, <1>11, <1>12, <1>13

\* A match more adds its amount at most: nothing, if it is there already.
LEMMA TotalOfMore ==
  ASSUME NEW T, IsFiniteSet(T), \A x \in T : x.base \in Nat, NEW m, m.base \in Nat
  PROVE  TotalOf(T) \in Nat /\ TotalOf(T \cup {m}) <= TotalOf(T) + m.base
<1>1. TotalOf(T) \in Nat
  BY TotalType
<1>2. CASE m \in T
  <2>1. TotalOf(T \cup {m}) = TotalOf(T)
    <3>1. T \cup {m} = T
      BY <1>2
    <3> QED
      BY <3>1
  <2> QED
    BY <1>1, <2>1
<1>3. CASE m \notin T
  <2> DEFINE U == T \cup {m}
  <2>1. IsFiniteSet(U) /\ m \in U /\ U \ {m} = T /\ \A x \in U : x.base \in Nat
    BY <1>3, FS_AddElement
  <2> HIDE DEF U
  <2>2. TotalOf(U) = m.base + TotalOf(U \ {m})
    BY <2>1, TotalWithout
  <2>3. TotalOf(U) = m.base + TotalOf(T)
    BY <2>1, <2>2
  <2> QED
    BY <1>1, <2>3 DEF U
<1> QED
  BY <1>2, <1>3

-----------------------------------------------------------------------------
(* The lists a search with a current slot finds: when it comes to its      *)
(* first loop every order is in the list it is looked up in.               *)

\* No slot is older than an order, and none comes to the word's end.
Current == \A b \in Books : \A o \in Orders : \A s \in SearchSlots : b[o].slot <= s /\ s < Word

\* Where the orders are: in the list of the highest slot so far, or due to be moved.
Settled(f) ==
  /\ phase[f] # "idle" => slot[f] \in SearchSlots /\ slot[f] = maxSlot
  /\ \A o \in Orders :
       /\ book[o].class = "market" => place[o] = "market"
       /\ book[o].class = "floating" => place[o] = "floatingLimit"
       /\ book[o].class = "limit" => place[o] \in {"restingLimit", "takingLimit", None}
       /\ place[o] = "restingLimit" =>
            \A s \in SearchSlots : s >= maxSlot => IsRestingLimitOrder(o, s)
       /\ place[o] = "takingLimit" =>
            \/ phase[f] = "collecting" \/ o \in due[f]
            \/ \A s \in SearchSlots : s <= maxSlot => ~IsRestingLimitOrder(o, s)
       /\ place[o] = None => o = hand[f]
       /\ o \in due[f] \/ o = hand[f] => IsRestingLimitOrder(o, maxSlot)

SettledInv == \A f \in Finders : Settled(f)

LEMMA InLists ==
  ASSUME MatchingInv, NEW f \in Finders, Settled(f), phase[f] \in Looping, NEW o \in Orders
  PROVE  GetNodeType(o, slot[f]) = place[o]
<1>1. /\ slot[f] \in SearchSlots /\ slot[f] = maxSlot /\ maxSlot \in Nat
      /\ phase[f] # "collecting" /\ due[f] = {} /\ hand[f] = None /\ o # None
  BY MatchingAssumption
     DEF Settled, Looping, MatchingInv, MovesInv, MatchingAssumption, Typed
<1>2. book[o].class \in {"limit", "floating", "market"}
  BY BookTypes DEF MatchingInv, Order
<1>3. maxSlot <= maxSlot /\ maxSlot >= maxSlot
  BY <1>1
<1>4. CASE book[o].class # "limit"
  BY <1>2, <1>4 DEF Settled, GetNodeType
<1>5. CASE book[o].class = "limit"
  BY <1>1, <1>3, <1>5 DEF Settled, GetNodeType
<1> QED
  BY <1>4, <1>5

LEMMA SmallRest == \A n \in Nat : \A w \in Nat \ {0} : n < w => n % w = n
OBVIOUS

\* What rests goes on resting.
LEMMA RestsOn ==
  ASSUME Current, Typed, NEW o \in Orders, NEW s \in SearchSlots, NEW t \in SearchSlots, s <= t,
         IsRestingLimitOrder(o, s)
  PROVE  IsRestingLimitOrder(o, t)
<1>1. /\ s \in Nat /\ t \in Nat /\ Word \in Nat \ {0}
      /\ book[o].slot \in Nat /\ book[o].duration \in Nat
      /\ book[o].slot <= s /\ t < Word
  BY BookTypes, MatchingAssumption DEF MatchingAssumption, Order, Current, Typed
<1>2. s - book[o].slot \in Nat /\ s - book[o].slot < Word
      /\ t - book[o].slot \in Nat /\ t - book[o].slot < Word
  BY <1>1
<1>3. /\ (s - book[o].slot) % Word = s - book[o].slot
      /\ (t - book[o].slot) % Word = t - book[o].slot
  BY <1>1, <1>2, SmallRest
<1>4. s - book[o].slot > book[o].duration => t - book[o].slot > book[o].duration
  BY <1>1
<1> QED
  BY <1>3, <1>4 DEF IsRestingLimitOrder, IsAuctionComplete, Past

LEMMA RestsTheSame ==
  ASSUME book' = book
  PROVE  \A o, s : IsRestingLimitOrder(o, s)' = IsRestingLimitOrder(o, s)
BY DEF IsRestingLimitOrder, IsAuctionComplete, Past

LEMMA SettledSame ==
  ASSUME NEW f \in Finders, Settled(f), UNCHANGED <<book, place, maxSlot, due, hand>>,
         phase'[f] # "idle" => phase[f] # "idle" /\ slot'[f] = slot[f],
         phase[f] = "collecting" => phase'[f] = "collecting"
  PROVE  Settled(f)'
<1>1. \A o, s : IsRestingLimitOrder(o, s)' = IsRestingLimitOrder(o, s)
  BY RestsTheSame
<1>2. \A o \in Orders : IsRestingLimitOrder(o, maxSlot)' = IsRestingLimitOrder(o, maxSlot)
  BY <1>1
<1> QED
  BY <1>1, <1>2 DEF Settled

LEMMA SettledAfterSearch ==
  ASSUME Fresh, Current, MatchingInv, NEW f \in Finders, Settled(f),
         NEW s \in SearchSlots, Search(f, s)
  PROVE  Settled(f)'
<1>1. /\ UNCHANGED <<book, place, due, hand>> /\ s >= maxSlot /\ slot'[f] = s
      /\ phase[f] = "idle" /\ phase'[f] = IF s > maxSlot THEN "collecting" ELSE "crossing"
      /\ maxSlot' = IF s > maxSlot THEN s ELSE maxSlot
  BY DEF Search, MatchingInv, Typed, moveVars
<1>2. s \in Nat /\ maxSlot \in Nat /\ maxSlot' = s /\ due[f] = {} /\ hand[f] = None
  BY <1>1, MatchingAssumption DEF MatchingAssumption, MatchingInv, Typed, MovesInv
<1>3. \A o, t : IsRestingLimitOrder(o, t)' = IsRestingLimitOrder(o, t)
  BY <1>1, RestsTheSame
<1>4. \A t \in SearchSlots : t \in Nat
  BY MatchingAssumption DEF MatchingAssumption
<1>5. \A t \in SearchSlots : t >= s => t >= maxSlot
  BY <1>1, <1>2, <1>4
<1>6. CASE s > maxSlot
  BY <1>1, <1>2, <1>3, <1>5, <1>6, MatchingAssumption DEF Settled, MatchingAssumption
<1>7. CASE ~(s > maxSlot)
  <2>1. maxSlot' = maxSlot
    BY <1>1, <1>7
  <2> QED
    BY <1>1, <1>2, <1>3, <1>5, <2>1, MatchingAssumption DEF Settled, MatchingAssumption
<1> QED
  BY <1>6, <1>7

\* Alone, a search collects everything that has come to rest.
LEMMA SettledAfterCollect ==
  ASSUME Current, MatchingInv, NEW f \in Finders, Settled(f), Unmoved(f), Collect(f)
  PROVE  Settled(f)'
<1> DEFINE met == {o \in Orders : place[o] = "takingLimit" /\ IsRestingLimitOrder(o, slot[f])}
<1>1. /\ UNCHANGED <<book, place, maxSlot, slot, hand>> /\ due'[f] = met
      /\ phase[f] = "collecting" /\ phase'[f] = "moving"
  BY DEF Collect, MatchingInv, Typed, MovesTyped, Unmoved
<1>2. slot[f] \in SearchSlots /\ slot[f] = maxSlot /\ maxSlot \in Nat
  BY <1>1 DEF Settled, MatchingInv, Typed
<1>3. \A o, t : IsRestingLimitOrder(o, t)' = IsRestingLimitOrder(o, t)
  BY <1>1, RestsTheSame
<1>4. ASSUME NEW o \in Orders, place[o] = "takingLimit", o \notin met,
             NEW t \in SearchSlots, t <= maxSlot
      PROVE  ~IsRestingLimitOrder(o, t)
  BY <1>2, <1>4, RestsOn DEF MatchingInv
<1>5. \A o \in met : IsRestingLimitOrder(o, maxSlot)
  BY <1>2
<1>6. \A o : IsRestingLimitOrder(o, maxSlot)' = IsRestingLimitOrder(o, maxSlot)
  BY <1>1, <1>3
<1> HIDE DEF met
<1>7. ASSUME NEW o \in Orders
      PROVE  /\ place'[o] = "takingLimit" =>
                  o \in due'[f] \/ \A t \in SearchSlots : t <= maxSlot' => ~IsRestingLimitOrder(o, t)'
             /\ o \in due'[f] \/ o = hand'[f] => IsRestingLimitOrder(o, maxSlot)'
  BY <1>1, <1>3, <1>4, <1>5, <1>6 DEF Settled
<1> QED
  BY <1>1, <1>2, <1>3, <1>7 DEF Settled

LEMMA SettledAfterRemove ==
  ASSUME MatchingInv, NEW f \in Finders, Settled(f), RemoveDue(f)
  PROVE  Settled(f)'
<1>1. PICK o \in due[f] :
        /\ place' = [place EXCEPT ![o] = IF @ = "takingLimit" THEN None ELSE @]
        /\ due'[f] = due[f] \ {o} /\ hand'[f] = o
  BY DEF RemoveDue, MatchingInv, MovesTyped
<1>2. UNCHANGED <<book, maxSlot, phase, slot>> /\ hand[f] = None
  BY DEF RemoveDue
<1>3. /\ due[f] \subseteq Orders /\ place \in [Orders -> Lists \cup {None}] /\ None \notin Orders
      /\ None \notin Lists
  BY MatchingAssumption DEF MatchingInv, MovesTyped, MatchingAssumption
<1>4. \A x, t : IsRestingLimitOrder(x, t)' = IsRestingLimitOrder(x, t)
  BY <1>2, RestsTheSame
<1>5. \A x : IsRestingLimitOrder(x, maxSlot)' = IsRestingLimitOrder(x, maxSlot)
  BY <1>2, <1>4
<1>6. IsRestingLimitOrder(o, maxSlot) /\ book[o].class = "limit"
  BY <1>1, <1>3 DEF Settled, IsRestingLimitOrder
<1>7. \A x \in Orders : x # o => place'[x] = place[x] /\ (x \in due[f] <=> x \in due'[f])
  BY <1>1, <1>3
<1>8. place'[o] \in {"restingLimit", None} /\ (place'[o] = "restingLimit" => place[o] = "restingLimit")
  BY <1>1, <1>3, <1>6 DEF Settled, Lists
<1>9. ASSUME NEW x \in Orders
      PROVE  /\ book'[x].class = "market" => place'[x] = "market"
             /\ book'[x].class = "floating" => place'[x] = "floatingLimit"
             /\ book'[x].class = "limit" => place'[x] \in {"restingLimit", "takingLimit", None}
             /\ place'[x] = "restingLimit" =>
                  \A s \in SearchSlots : s >= maxSlot' => IsRestingLimitOrder(x, s)'
             /\ place'[x] = "takingLimit" =>
                  \/ phase'[f] = "collecting" \/ x \in due'[f]
                  \/ \A s \in SearchSlots : s <= maxSlot' => ~IsRestingLimitOrder(x, s)'
             /\ place'[x] = None => x = hand'[f]
             /\ x \in due'[f] \/ x = hand'[f] => IsRestingLimitOrder(x, maxSlot)'
  <2>1. CASE x = o
    <3>1. IsRestingLimitOrder(x, maxSlot)' /\ book'[x].class = "limit" /\ hand'[f] = x
      BY <1>1, <1>2, <1>5, <1>6, <2>1
    <3>2. place'[x] \in {"restingLimit", None} /\ place'[x] # "takingLimit"
      BY <1>3, <1>8, <2>1 DEF Lists
    <3>3. place'[x] = "restingLimit" =>
            \A s \in SearchSlots : s >= maxSlot' => IsRestingLimitOrder(x, s)'
      BY <1>2, <1>4, <1>8, <2>1, <1>3 DEF Settled
    <3> QED
      BY <3>1, <3>2, <3>3
  <2>2. CASE x # o
    BY <1>1, <1>2, <1>3, <1>4, <1>5, <1>7, <2>2 DEF Settled
  <2> QED
    BY <2>1, <2>2
<1> QED
  BY <1>2, <1>9 DEF Settled

LEMMA SettledAfterInsert ==
  ASSUME Current, MatchingInv, NEW f \in Finders, Settled(f), InsertDue(f)
  PROVE  Settled(f)'
<1> DEFINE o == hand[f]
<1>1. /\ UNCHANGED <<book, maxSlot, due, phase, slot>> /\ hand'[f] = None /\ o # None
      /\ place' = [place EXCEPT ![o] = IF @ = None THEN "restingLimit" ELSE @]
  BY DEF InsertDue, MatchingInv, MovesTyped
<1>2. /\ o \in Orders /\ place \in [Orders -> Lists \cup {None}] /\ None \notin Orders
      /\ None \notin Lists
  BY <1>1, MatchingAssumption DEF MatchingInv, MovesTyped, MatchingAssumption
<1>3. IsRestingLimitOrder(o, maxSlot) /\ book[o].class = "limit"
  BY <1>2 DEF Settled, IsRestingLimitOrder
<1>4. maxSlot \in SearchSlots
  <2>1. phase[f] # "idle"
    BY <1>1 DEF MatchingInv, MovesInv
  <2> QED
    BY <2>1 DEF Settled
<1> HIDE DEF o
<1>5. \A s \in SearchSlots : s >= maxSlot => IsRestingLimitOrder(o, s)
  <2>1. \A s \in SearchSlots : s >= maxSlot => maxSlot <= s
    BY <1>4, MatchingAssumption DEF MatchingAssumption
  <2> QED
    BY <1>2, <1>3, <1>4, <2>1, RestsOn DEF MatchingInv
<1>6. \A x, t : IsRestingLimitOrder(x, t)' = IsRestingLimitOrder(x, t)
  BY <1>1, RestsTheSame
<1>7. \A x : IsRestingLimitOrder(x, maxSlot)' = IsRestingLimitOrder(x, maxSlot)
  BY <1>1, <1>6
<1>8. \A x \in Orders : x # o => place'[x] = place[x]
  BY <1>1, <1>2
<1>9. /\ place'[o] \in {"restingLimit", "takingLimit"}
      /\ place'[o] = "takingLimit" => place[o] = "takingLimit"
  BY <1>1, <1>2, <1>3 DEF Settled, Lists
<1>10. ASSUME NEW x \in Orders
      PROVE  /\ book'[x].class = "market" => place'[x] = "market"
             /\ book'[x].class = "floating" => place'[x] = "floatingLimit"
             /\ book'[x].class = "limit" => place'[x] \in {"restingLimit", "takingLimit", None}
             /\ place'[x] = "restingLimit" =>
                  \A s \in SearchSlots : s >= maxSlot' => IsRestingLimitOrder(x, s)'
             /\ place'[x] = "takingLimit" =>
                  \/ phase'[f] = "collecting" \/ x \in due'[f]
                  \/ \A s \in SearchSlots : s <= maxSlot' => ~IsRestingLimitOrder(x, s)'
             /\ place'[x] = None => x = hand'[f]
             /\ x \in due'[f] \/ x = hand'[f] => IsRestingLimitOrder(x, maxSlot)'
  <2>1. CASE x = o
    <3>1. /\ IsRestingLimitOrder(x, maxSlot)' /\ book'[x].class = "limit"
          /\ place'[x] \in {"restingLimit", "takingLimit"} /\ place'[x] # None
      BY <1>1, <1>2, <1>3, <1>7, <1>9, <2>1 DEF Lists
    <3>2. \A s \in SearchSlots : s >= maxSlot' => IsRestingLimitOrder(x, s)'
      BY <1>1, <1>5, <1>6, <2>1
    <3>3. place'[x] = "takingLimit" =>
            \/ phase'[f] = "collecting" \/ x \in due'[f]
            \/ \A s \in SearchSlots : s <= maxSlot' => ~IsRestingLimitOrder(x, s)'
      <4> SUFFICES ASSUME place'[x] = "takingLimit", ~(phase[f] = "collecting" \/ x \in due[f])
                   PROVE  \A s \in SearchSlots : s <= maxSlot => ~IsRestingLimitOrder(x, s)
        BY <1>1, <1>6
      <4> QED
        BY <1>9, <2>1 DEF Settled
    <3> QED
      BY <3>1, <3>2, <3>3
  <2>2. CASE x # o
    BY <1>1, <1>2, <1>6, <1>7, <1>8, <2>2 DEF Settled, o
  <2> QED
    BY <2>1, <2>2
<1> QED
  BY <1>1, <1>10 DEF Settled

\* Until a search has come, what is in the resting list rests at any slot, and
\* nothing else does at the slot 0.
LEMMA SettledInitially == Init /\ Current => SettledInv
<1> SUFFICES ASSUME Init, Current, NEW f \in Finders, NEW o \in Orders
             PROVE  /\ book[o].class = "market" => place[o] = "market"
                    /\ book[o].class = "floating" => place[o] = "floatingLimit"
                    /\ book[o].class = "limit" => place[o] \in {"restingLimit", "takingLimit"}
                    /\ place[o] # None
                    /\ place[o] = "restingLimit" => \A s : IsRestingLimitOrder(o, s)
                    /\ place[o] = "takingLimit" =>
                         \A s \in SearchSlots : s <= 0 => ~IsRestingLimitOrder(o, s)
  <2>1. Init => /\ maxSlot = 0
                /\ \A f \in Finders : due[f] = {} /\ hand[f] = None /\ phase[f] = "idle"
    BY DEF Init
  <2>2. None \notin Orders
    BY MatchingAssumption DEF MatchingAssumption
  <2> QED
    BY <2>1, <2>2 DEF SettledInv, Settled
<1>1. /\ book \in [Orders -> Order] /\ book \in Books
      /\ place[o] = GetNodeType(o, book[o].slot)
  BY MatchingAssumption DEF Init, MatchingAssumption
<1>2. /\ book[o].class \in {"limit", "floating", "market"}
      /\ book[o].slot \in Nat /\ book[o].duration \in Nat /\ Word \in Nat \ {0}
  BY <1>1, MatchingAssumption DEF Order, MatchingAssumption
<1>3. (book[o].slot - book[o].slot) % Word = 0
  BY <1>2, SmallRest
<1>4. IsRestingLimitOrder(o, book[o].slot) <=>
        book[o].class = "limit" /\ (book[o].postOnly \/ book[o].duration = 0)
  BY <1>2, <1>3 DEF IsRestingLimitOrder, IsAuctionComplete, Past
<1>5. place[o] = "restingLimit" => IsRestingLimitOrder(o, book[o].slot)
  BY <1>1 DEF GetNodeType
<1>6. place[o] = "takingLimit" => ~IsRestingLimitOrder(o, book[o].slot)
  BY <1>1 DEF GetNodeType
<1>7. place[o] = "restingLimit" => \A s : IsRestingLimitOrder(o, s)
  BY <1>4, <1>5 DEF IsRestingLimitOrder, IsAuctionComplete, Past
<1>8. ASSUME NEW s \in SearchSlots, s <= 0, place[o] = "takingLimit"
      PROVE  ~IsRestingLimitOrder(o, s)
  <2>1. s \in Nat /\ book[o].slot <= s
    BY <1>1, MatchingAssumption DEF MatchingAssumption, Current
  <2>2. s = book[o].slot
    BY <1>2, <1>8, <2>1
  <2> QED
    BY <1>6, <1>8, <2>2
<1>9. /\ book[o].class = "market" => place[o] = "market"
      /\ book[o].class = "floating" => place[o] = "floatingLimit"
      /\ book[o].class = "limit" => place[o] \in {"restingLimit", "takingLimit"}
  BY <1>1 DEF GetNodeType
<1>10. place[o] # None
  BY <1>2, <1>9, MatchingAssumption DEF MatchingAssumption, Lists
<1> QED
  BY <1>7, <1>8, <1>9, <1>10

LEMMA SettledKept ==
  ASSUME Alone, Fresh, Current, MatchingInv, AloneInv, SettledInv, [Next]_vars
  PROVE  SettledInv'
<1> SUFFICES ASSUME NEW f \in Finders PROVE Settled(f)'
  BY DEF SettledInv
<1>1. Settled(f) /\ Unmoved(f) /\ \A g \in Finders : g = f
  BY DEF SettledInv, AloneInv, Alone
<1>2. CASE \E s \in SearchSlots : Search(f, s)
  BY <1>1, <1>2, SettledAfterSearch
<1>3. CASE Work(f)
  <2>1. CASE Collect(f) \/ RemoveDue(f) \/ InsertDue(f)
    BY <1>1, <2>1, SettledAfterCollect, SettledAfterRemove, SettledAfterInsert
  <2>2. CASE Moved(f) \/ Return(f) \/ EndOuter(f) \/ Offer(f)
    <3>1. /\ UNCHANGED <<book, place, maxSlot, due, hand>>
          /\ phase'[f] # "idle" => phase[f] # "idle" /\ slot'[f] = slot[f]
          /\ phase[f] # "collecting"
      BY <2>2 DEF Moved, Return, EndOuter, Offer, moveVars, Looping, MatchingInv, Typed
    <3> QED
      BY <1>1, <3>1, SettledSame
  <2>3. CASE \/ ProduceOuter(f) \/ ProduceInner(f) \/ Take(f) \/ Look(f) \/ Write(f) \/ EndInner(f)
    <3>1. UNCHANGED <<book, place, maxSlot, due, hand, phase, slot>>
      BY <2>3 DEF ProduceOuter, ProduceInner, Take, Look, Write, EndInner, moveVars
    <3> QED
      BY <1>1, <3>1, SettledSame
  <2> QED
    BY <1>3, <2>1, <2>2, <2>3 DEF Work
<1>4. CASE UNCHANGED vars \/ \E o \in Orders : \E amount \in 0..book[o].size - 1 : Update(o, amount)
  <2>1. UNCHANGED <<book, place, maxSlot, due, hand, phase, slot>>
    BY <1>4 DEF Update, vars, moveVars
  <2> QED
    BY <1>1, <2>1, SettledSame
<1> QED
  BY <1>1, <1>2, <1>3, <1>4 DEF Next, Race

-----------------------------------------------------------------------------
(* What a single search simulates.                                         *)

\* What is filled of an order as the chain has it and the matches of f take it on.
Simulated(f, o) == confirmed[o] + TotalOf(MatchesOf(f, o))

\* The matches are in what is filled, or in what is still to be written.
Covered(f) ==
  /\ IsFiniteSet(found[f])
  /\ phase[f] = "idle" => found[f] = {}
  /\ \A o \in Orders :
       (\A i \in 1..Len(writes[f]) : writes[f][i].o # o) => Simulated(f, o) <= filled[o]
  /\ \A i \in 1..Len(writes[f]) : Simulated(f, writes[f][i].o) <= writes[f][i].amount

CoveredInv == \A f \in Finders : Covered(f)

LEMMA SimulatedSame ==
  ASSUME NEW f \in Finders, confirmed' = confirmed, found'[f] = found[f]
  PROVE  \A o : Simulated(f, o)' = Simulated(f, o)
BY DEF Simulated, MatchesOf

LEMMA SimulatedType ==
  ASSUME Typed, NEW f \in Finders, IsFiniteSet(found[f]), NEW o \in Orders
  PROVE  /\ IsFiniteSet(MatchesOf(f, o)) /\ \A m \in MatchesOf(f, o) : m.base \in Nat
         /\ confirmed[o] \in Nat /\ TotalOf(MatchesOf(f, o)) \in Nat
<1>1. MatchesOf(f, o) \subseteq found[f] /\ found[f] \subseteq Matches
  BY DEF MatchesOf, Typed
<1>2. IsFiniteSet(MatchesOf(f, o))
  BY <1>1, FS_Subset
<1>3. \A m \in MatchesOf(f, o) : m.base \in Nat
  BY <1>1 DEF Matches
<1> QED
  BY <1>2, <1>3, TotalType DEF Typed

\* What neither finds nor writes.
LEMMA CoveredSame ==
  ASSUME NEW f \in Finders, Covered(f), UNCHANGED <<confirmed, filled>>,
         found'[f] = found[f], writes'[f] = writes[f], phase'[f] = "idle" => found[f] = {}
  PROVE  Covered(f)'
<1>1. \A o : Simulated(f, o)' = Simulated(f, o)
  BY SimulatedSame
<1> QED
  BY <1>1 DEF Covered

LEMMA LoopsOnly ==
  ASSUME MatchingInv, NEW f \in Finders, current[f] # None \/ writes[f] # <<>>
  PROVE  phase[f] \in Looping
BY DEF MatchingInv, Tidy

\* The match that is found is one, of the two orders that are written for it.
LEMMA OnePair ==
  ASSUME NEW p, NEW taker, NEW maker, Pairs(p, taker, maker) # {}
  PROVE  \E pair : /\ Pairs(p, taker, maker) = {pair}
                   /\ {pair.node, pair.maker} = {taker, maker}
BY DEF Pairs, DetermineMakerAndTaker

LEMMA CoveredAfterLook ==
  ASSUME MatchingInv, AloneInv, NEW f \in Finders, Covered(f), Look(f)
  PROVE  Covered(f)'
<1> DEFINE taker == current[f]
           maker == Head(inner[f].ready)
           has == Carried(f, taker)
           base == Min({Remaining(taker, has), Remaining(maker, filled[maker])})
           pairs == Pairs(phase[f], taker, maker)
           new == <<[o |-> maker, amount |-> NewAmount(filled[maker], base)],
                    [o |-> taker, amount |-> NewAmount(has, base)]>>
<1>1. /\ UNCHANGED <<book, confirmed, filled, maxSlot, phase, slot>>
      /\ taker # None /\ writes[f] = <<>> /\ inner[f].ready # <<>>
  BY DEF Look
<1>2. phase[f] # "idle"
  BY <1>1, LoopsOnly DEF Looping
<1>3. CASE Stops(phase[f], taker, maker) \/ pairs = {}
  <2>1. writes'[f] = writes[f] /\ found'[f] = found[f]
    <3>1. CASE Stops(phase[f], taker, maker)
      BY <3>1 DEF Look
    <3>2. CASE ~Stops(phase[f], taker, maker)
      <4>1. pairs = {}
        BY <1>3, <3>2
      <4>2. /\ found' = [found EXCEPT ![f] = @ \cup
                   {[node |-> p.node, maker |-> p.maker, base |-> base] : p \in pairs}]
            /\ writes' = IF pairs = {} THEN writes ELSE [writes EXCEPT ![f] = new]
        BY <3>2 DEF Look
      <4> HIDE DEF pairs, base, new
      <4> QED
        BY <4>1, <4>2 DEF MatchingInv, Typed
    <3> QED
      BY <3>1, <3>2
  <2> QED
    BY <1>1, <1>2, <2>1, CoveredSame DEF Covered
<1>4. CASE ~Stops(phase[f], taker, maker) /\ pairs # {}
  <2>1. PICK pair : pairs = {pair} /\ {pair.node, pair.maker} = {taker, maker}
    BY <1>4, OnePair
  <2> DEFINE m == [node |-> pair.node, maker |-> pair.maker, base |-> base]
  <2>2. found'[f] = found[f] \cup {m} /\ writes'[f] = new
    <3>1. /\ found'[f] = found[f] \cup
               {[node |-> p.node, maker |-> p.maker, base |-> base] : p \in pairs}
          /\ writes'[f] = new
      BY <1>4 DEF Look, MatchingInv, Typed
    <3> HIDE DEF pairs, base
    <3> QED
      BY <2>1, <3>1
  <2>3. /\ taker \in Orders /\ maker \in Orders /\ base \in Nat
        /\ has = filled[taker]
    <3>1. taker \in Orders /\ maker \in Orders /\ base \in Nat
      BY <1>1, LookType DEF MatchingInv
    <3> HIDE DEF taker, maker, base
    <3> QED
      BY <3>1, StillThere DEF AloneInv
  <2>4. m.base = base /\ {m.node, m.maker} = {taker, maker}
    BY <2>1
  <2>5. Len(new) = 2 /\ new[1].o = maker /\ new[2].o = taker
        /\ new[1].amount = filled[maker] + base /\ new[2].amount = filled[taker] + base
    BY <2>3 DEF NewAmount
  <2> HIDE DEF taker, maker, has, base, pairs, new, m
  <2>6. ASSUME NEW o \in {taker, maker} PROVE Simulated(f, o)' <= filled[o] + base
    <3>1. MatchesOf(f, o)' = MatchesOf(f, o) \cup {m}
      BY <2>2, <2>4, <2>6 DEF MatchesOf
    <3>2. /\ IsFiniteSet(MatchesOf(f, o)) /\ \A x \in MatchesOf(f, o) : x.base \in Nat
          /\ confirmed[o] \in Nat /\ TotalOf(MatchesOf(f, o)) \in Nat
      BY <2>3, <2>6, SimulatedType DEF MatchingInv, Covered
    <3>3. /\ TotalOf(MatchesOf(f, o) \cup {m}) <= TotalOf(MatchesOf(f, o)) + base
          /\ TotalOf(MatchesOf(f, o) \cup {m}) \in Nat
      <4>1. m.base \in Nat
        BY <2>3, <2>4
      <4>2. TotalOf(MatchesOf(f, o) \cup {m}) <= TotalOf(MatchesOf(f, o)) + base
        BY <2>4, <3>2, <4>1, TotalOfMore
      <4>3. IsFiniteSet(MatchesOf(f, o) \cup {m})
        BY <3>2, FS_AddElement
      <4>4. \A x \in MatchesOf(f, o) \cup {m} : x.base \in Nat
        BY <3>2, <4>1
      <4> QED
        BY <4>2, <4>3, <4>4, TotalType
    <3>4. Simulated(f, o) <= filled[o]
      <4>1. \A i \in 1..Len(writes[f]) : writes[f][i].o # o
        BY <1>1
      <4> QED
        BY <2>3, <2>6, <4>1 DEF Covered
    <3>5. Simulated(f, o)' = confirmed[o] + TotalOf(MatchesOf(f, o) \cup {m})
      BY <1>1, <3>1 DEF Simulated
    <3>6. filled[o] \in Nat
      BY <2>3, <2>6 DEF MatchingInv, Typed
    <3>7. confirmed[o] + TotalOf(MatchesOf(f, o)) <= filled[o]
      BY <3>4 DEF Simulated
    <3> QED
      BY <2>3, <3>2, <3>3, <3>5, <3>6, <3>7
  <2>7. ASSUME NEW o \in Orders, o \notin {taker, maker} PROVE Simulated(f, o)' <= filled[o]
    <3>1. MatchesOf(f, o)' = MatchesOf(f, o)
      BY <2>2, <2>4, <2>7 DEF MatchesOf
    <3>2. Simulated(f, o)' = Simulated(f, o)
      BY <1>1, <3>1 DEF Simulated
    <3> QED
      BY <1>1, <2>7, <3>2 DEF Covered
  <2>8. IsFiniteSet(found[f])'
    BY <2>2, FS_AddElement DEF Covered
  <2>9. ASSUME NEW i \in 1..Len(writes'[f])
        PROVE  \E o \in {taker, maker} : writes'[f][i].o = o /\ writes'[f][i].amount = filled[o] + base
    <3>1. i = 1 \/ i = 2
      BY <2>2, <2>5
    <3> QED
      BY <2>2, <2>5, <3>1
  <2>10. ASSUME NEW i \in 1..Len(writes'[f])
         PROVE  Simulated(f, writes[f][i].o)' <= writes'[f][i].amount
    <3>1. PICK o \in {taker, maker} : writes'[f][i].o = o /\ writes'[f][i].amount = filled[o] + base
      BY <2>9
    <3>2. Simulated(f, o)' <= writes'[f][i].amount
      BY <2>6, <3>1
    <3> QED
      BY <3>1, <3>2 DEF Simulated, MatchesOf
  <2>11. ASSUME NEW o \in Orders, \A i \in 1..Len(writes'[f]) : writes'[f][i].o # o
         PROVE  Simulated(f, o)' <= filled'[o]
    <3>1. o \notin {taker, maker}
      <4>1. 1 \in 1..Len(writes'[f]) /\ 2 \in 1..Len(writes'[f])
        BY <2>2, <2>5
      <4> QED
        BY <2>2, <2>5, <2>11, <4>1
    <3> QED
      BY <1>1, <2>7, <3>1
  <2> QED
    BY <1>1, <1>2, <2>8, <2>10, <2>11 DEF Covered
<1> QED
  BY <1>3, <1>4

LEMMA FirstOfSeq == \A S : \A s \in Seq(S) : s # <<>> => Head(s) \in S
OBVIOUS

\* The list looked up at the search's slot is the one the order is in.
LEMMA CoveredAfterWrite ==
  ASSUME MatchingInv, AloneInv, NEW f \in Finders, Settled(f), Covered(f), Write(f)
  PROVE  Covered(f)'
<1> DEFINE w == Head(writes[f])
<1>1. /\ writes[f] # <<>> /\ writes'[f] = Tail(writes[f])
      /\ UNCHANGED <<book, confirmed, maxSlot, phase, slot, found>>
  BY DEF Write, MatchingInv, Typed
<1>2. /\ writes[f] \in Seq(Amounts) /\ Len(writes[f]) \in {1, 2} /\ w = writes[f][1]
      /\ phase[f] # "idle" /\ phase[f] \in Looping
  BY <1>1, WritesType DEF Looping
<1>4. w.o \in Orders
  BY <1>1, <1>2, FirstOfSeq DEF Amounts
<1>5. filled' = [filled EXCEPT ![w.o] = w.amount]
  <2>1. GetNodeType(w.o, slot[f]) = place[w.o]
    BY <1>2, <1>4, InLists
  <2> QED
    BY <2>1 DEF Write
<1>6. /\ Len(writes'[f]) = Len(writes[f]) - 1
      /\ \A i \in 1..Len(writes'[f]) : writes'[f][i] = writes[f][i + 1]
      /\ \A i \in 1..Len(writes'[f]) : i + 1 \in 1..Len(writes[f])
  BY <1>1, <1>2
<1>7. 1 \in 1..Len(writes[f]) /\ \A i \in 1..Len(writes[f]) : i = 1 \/ i - 1 \in 1..Len(writes'[f])
  BY <1>2, <1>6
<1>8. \A o : Simulated(f, o)' = Simulated(f, o)
  BY <1>1, SimulatedSame
<1>9. Simulated(f, w.o) <= w.amount
  BY <1>2, <1>7 DEF Covered
<1> HIDE DEF w
<1>10. ASSUME NEW o \in Orders, \A i \in 1..Len(writes'[f]) : writes'[f][i].o # o
       PROVE  Simulated(f, o) <= filled'[o]
  <2>1. CASE o = w.o
    BY <1>4, <1>5, <1>9, <2>1 DEF MatchingInv, Typed
  <2>2. CASE o # w.o
    <3>1. ASSUME NEW i \in 1..Len(writes[f]) PROVE writes[f][i].o # o
      <4>1. CASE i = 1
        BY <1>2, <2>2, <4>1
      <4>2. CASE i # 1
        <5>1. i - 1 \in 1..Len(writes'[f]) /\ (i - 1) + 1 = i
          BY <1>7, <4>2
        <5> QED
          BY <1>6, <1>10, <5>1
      <4> QED
        BY <4>1, <4>2
    <3>2. filled'[o] = filled[o]
      BY <1>5, <2>2 DEF MatchingInv, Typed
    <3> QED
      BY <1>10, <3>1, <3>2 DEF Covered
  <2> QED
    BY <2>1, <2>2
<1>11. ASSUME NEW i \in 1..Len(writes'[f])
       PROVE  Simulated(f, writes'[f][i].o) <= writes'[f][i].amount
  BY <1>6 DEF Covered
<1>12. ASSUME NEW i \in 1..Len(writes'[f])
       PROVE  Simulated(f, writes[f][i].o)' <= writes'[f][i].amount
  BY <1>8, <1>11 DEF Simulated, MatchesOf
<1> QED
  BY <1>1, <1>2, <1>8, <1>10, <1>12 DEF Covered

LEMMA CoveredAfterUpdate ==
  ASSUME MatchingInv, NEW f \in Finders, Covered(f), NEW o \in Orders,
         NEW amount \in 0..book[o].size - 1, Update(o, amount)
  PROVE  Covered(f)'
<1>1. /\ UNCHANGED <<phase, writes, found>> /\ phase[f] = "idle"
      /\ confirmed' = [confirmed EXCEPT ![o] = amount]
      /\ filled' = [filled EXCEPT ![o] = amount]
  BY DEF Update
<1>2. found[f] = {} /\ writes[f] = <<>>
  BY <1>1, IdleHands DEF Covered, Looping
<1>3. ASSUME NEW x \in Orders PROVE Simulated(f, x)' = confirmed'[x] /\ confirmed'[x] <= filled'[x]
  <2>1. MatchesOf(f, x)' = {}
    BY <1>1, <1>2 DEF MatchesOf
  <2>2. Simulated(f, x)' = confirmed'[x] + TotalOf({})
    BY <2>1 DEF Simulated
  <2>3. TotalOf({}) = 0
    BY TotalStep
  <2>4. confirmed'[x] \in Nat /\ confirmed'[x] <= filled'[x]
    BY <1>1, UpdateStep DEF Bounded, Within, Typed
  <2> QED
    BY <2>2, <2>3, <2>4
<1> QED
  BY <1>1, <1>2, <1>3, FS_EmptySet DEF Covered

LEMMA CoveredAfterReturn ==
  ASSUME MatchingInv, NEW f \in Finders, Covered(f), Return(f)
  PROVE  Covered(f)'
<1>1. /\ UNCHANGED <<confirmed, filled, writes>>
      /\ phase'[f] = "idle" /\ found'[f] = {} /\ phase[f] = "return"
  BY DEF Return, MatchingInv, Typed
<1>2. writes[f] = <<>>
  BY <1>1, IdleHands DEF Looping
<1>3. ASSUME NEW x \in Orders PROVE Simulated(f, x)' <= filled'[x]
  <2>1. MatchesOf(f, x)' = {}
    BY <1>1 DEF MatchesOf
  <2>2. Simulated(f, x)' = confirmed[x] + TotalOf({})
    BY <1>1, <2>1 DEF Simulated
  <2>3. TotalOf({}) = 0
    BY TotalStep
  <2>4. confirmed[x] \in Nat /\ confirmed[x] <= filled[x]
    BY DEF MatchingInv, Bounded, Within, Typed
  <2> QED
    BY <1>1, <2>2, <2>3, <2>4
<1> QED
  BY <1>1, <1>2, <1>3, FS_EmptySet DEF Covered

LEMMA CoveredAfterRest ==
  ASSUME MatchingInv, NEW f \in Finders, Covered(f),
         \/ \E s \in SearchSlots : Search(f, s)
         \/ Collect(f) \/ RemoveDue(f) \/ InsertDue(f) \/ Moved(f)
         \/ ProduceOuter(f) \/ ProduceInner(f) \/ Take(f)
         \/ EndInner(f) \/ EndOuter(f) \/ Offer(f)
  PROVE  Covered(f)'
<1>1. UNCHANGED <<confirmed, filled, found, writes>>
  BY DEF Search, Collect, RemoveDue, InsertDue, Moved, ProduceOuter, ProduceInner, Take, EndInner,
     EndOuter, Offer
<1>2. phase'[f] # "idle"
  <2>1. CASE ProduceOuter(f) \/ Take(f)
    BY <2>1 DEF ProduceOuter, Take, Looping
  <2>2. CASE ProduceInner(f) \/ EndInner(f)
    BY <2>2, LoopsOnly DEF ProduceInner, EndInner, Looping
  <2>3. CASE EndOuter(f) \/ Offer(f)
    <3>1. /\ phase[f] \in Types \ {"idle", "return", "collecting", "moving"}
          /\ phase'[f] = After(phase[f])
      BY <2>3 DEF EndOuter, Offer, Looping, MatchingInv, Typed, Types
    <3> QED
      BY <3>1, AfterType
  <2>4. CASE Collect(f) \/ RemoveDue(f) \/ InsertDue(f) \/ Moved(f)
    BY <2>4 DEF Collect, RemoveDue, InsertDue, Moved, MatchingInv, Typed, MovesInv
  <2>5. CASE \E s \in SearchSlots : Search(f, s)
    BY <2>5 DEF Search, MatchingInv, Typed
  <2> QED
    BY <2>1, <2>2, <2>3, <2>4, <2>5
<1> QED
  BY <1>1, <1>2, CoveredSame DEF Covered

LEMMA CoveredInitially == Init => CoveredInv
<1> SUFFICES ASSUME Init, NEW f \in Finders PROVE Covered(f)
  BY DEF CoveredInv
<1>1. ASSUME NEW x \in Orders PROVE Simulated(f, x) <= filled[x]
  <2>1. MatchesOf(f, x) = {} /\ confirmed[x] = 0 /\ filled[x] = 0
    BY DEF Init, MatchesOf
  <2>2. TotalOf({}) = 0
    BY TotalStep
  <2> QED
    BY <2>1, <2>2 DEF Simulated
<1> QED
  BY <1>1, FS_EmptySet DEF Init, Covered

LEMMA CoveredKept ==
  ASSUME Alone, MatchingInv, AloneInv, SettledInv, CoveredInv, [Next]_vars
  PROVE  CoveredInv'
<1> SUFFICES ASSUME NEW f \in Finders PROVE Covered(f)'
  BY DEF CoveredInv
<1>1. Covered(f) /\ Settled(f) /\ \A g \in Finders : g = f
  BY DEF CoveredInv, SettledInv, Alone
<1>2. CASE \E s \in SearchSlots : Search(f, s)
  BY <1>1, <1>2, CoveredAfterRest
<1>3. CASE Work(f)
  BY <1>1, <1>3, CoveredAfterRest, CoveredAfterLook, CoveredAfterWrite, CoveredAfterReturn DEF Work
<1>4. CASE \E o \in Orders : \E amount \in 0..book[o].size - 1 : Update(o, amount)
  BY <1>1, <1>4, CoveredAfterUpdate
<1>5. CASE UNCHANGED vars
  BY <1>1, <1>5, CoveredSame DEF vars, Covered
<1> QED
  BY <1>1, <1>2, <1>3, <1>4, <1>5 DEF Next, Race

\* With one search at a time and slots that do not go back, none older than an
\* order, the matches it reports fill no more of an order than the chain has
\* left, summed over all of them: the result can be executed as it stands.
THEOREM MatchesFit ==
  ASSUME Alone, Fresh, Current
  PROVE  Spec => []WithinSize
<1>1. MatchingInv /\ CoveredInv => WithinSize
  <2> SUFFICES ASSUME MatchingInv, CoveredInv, NEW f \in Finders, NEW o \in Orders
               PROVE  Simulated(f, o) <= book[o].size
    BY DEF WithinSize, Simulated, TotalOf
  <2>1. Covered(f) /\ IsFiniteSet(found[f])
    BY DEF CoveredInv, Covered
  <2>2. Simulated(f, o) \in Nat
    BY <2>1, SimulatedType DEF MatchingInv, Simulated
  <2>3. book[o].size \in Nat /\ filled[o] \in Nat /\ filled[o] <= book[o].size
    BY BookTypes DEF MatchingInv, Typed, Bounded, Within
  <2>4. CASE \A i \in 1..Len(writes[f]) : writes[f][i].o # o
    BY <2>1, <2>2, <2>3, <2>4 DEF Covered
  <2>5. CASE \E i \in 1..Len(writes[f]) : writes[f][i].o = o
    <3>1. PICK i \in 1..Len(writes[f]) : writes[f][i].o = o
      BY <2>5
    <3>2. Simulated(f, o) <= writes[f][i].amount /\ writes[f][i].amount <= book[o].size
      BY <2>1, <3>1 DEF Covered, MatchingInv, Bounded, Within
    <3>3. writes[f][i].amount \in Nat
      <4>1. writes[f] \in Seq(Amounts)
        BY DEF MatchingInv, Typed
      <4>2. writes[f][i] \in Amounts
        BY <4>1
      <4> QED
        BY <4>2 DEF Amounts
    <3> QED
      BY <2>2, <2>3, <3>2, <3>3
  <2> QED
    BY <2>4, <2>5
<1>2. MatchingInv /\ AloneInv /\ [Next]_vars => AloneInv'
  BY AloneInvKept
<1>3. MatchingInv /\ AloneInv /\ SettledInv /\ [Next]_vars => SettledInv'
  BY SettledKept
<1>4. MatchingInv /\ AloneInv /\ SettledInv /\ CoveredInv /\ [Next]_vars => CoveredInv'
  BY CoveredKept
<1>5. Init => SettledInv
  BY SettledInitially
<1> QED
  BY <1>1, <1>2, <1>3, <1>4, <1>5, AloneInvInitially, CoveredInitially, MatchingInvAlways, PTL
  DEF Spec

-----------------------------------------------------------------------------
(* What a loop overlooks.  The loop stops at the first maker that does not *)
(* cross.  That is right if every maker behind it is no dearer: the ones   *)
(* that are put by, and the ones the producer has not come to.             *)

\* The order of a list of resting bids: the dearest first, then the oldest.
LEMMA BidsDescend ==
  ASSUME Typed, NEW list \in {"restingLimit", "floatingLimit"},
         NEW a \in InnerMembers, NEW b \in InnerMembers, NEW c \in InnerMembers
  PROVE  /\ ~Precedes(list, a, a)
         /\ Precedes(list, a, b) /\ Precedes(list, b, c) => Precedes(list, a, c)
         /\ ~Precedes(list, a, b) => book[b].key >= book[a].key
<1>1. \A x \in {a, b, c} : /\ x \in Orders /\ book[x].side = "bid"
                           /\ book[x].key \in Nat /\ book[x].slot \in Nat
  BY BookTypes DEF InnerMembers, Resting, Listed, Order
<1>2. \A x, y \in {a, b, c} :
        Precedes(list, x, y) <=>
          \/ book[x].key > book[y].key
          \/ book[x].key = book[y].key /\ book[x].slot < book[y].slot
  BY <1>1 DEF Precedes, SortValue, CreatedAs, Descending
<1> QED
  BY <1>1, <1>2

LEMMA InnerLists ==
  \A x \in InnerMembers : x \in Orders /\ place[x] \in {"restingLimit", "floatingLimit"}
BY DEF InnerMembers, Resting, Listed

\* The list an order waits in has a head: one that the fewest precede.
LEMMA HeadExists ==
  ASSUME Typed, NEW passed, NEW x \in InnerMembers \ passed
  PROVE  \E h \in Heads(InnerMembers, passed) : place[h] = place[x]
<1> DEFINE list == place[x]
           S == {y \in InnerMembers \ passed : place[y] = list}
           Above(y) == {z \in S : Precedes(list, z, y)}
           D == {Above(y) : y \in S}
<1>1. list \in {"restingLimit", "floatingLimit"} /\ x \in S
  BY InnerLists
<1>2. IsFiniteSet(S)
  BY MembersAreOrders, FS_Subset, MatchingAssumption DEF MatchingAssumption
<1> HIDE DEF list
<1>3. \A a, b, c \in S :
        /\ ~Precedes(list, a, a)
        /\ Precedes(list, a, b) /\ Precedes(list, b, c) => Precedes(list, a, c)
  BY <1>1, BidsDescend
<1>4. D \in SUBSET SUBSET S /\ D # {}
  BY <1>1
<1> HIDE DEF S, D
<1>5. PICK s \in D : \A t \in D : t \subseteq s => t = s
  BY <1>2, <1>4, LeastSubset
<1> USE DEF S
<1>6. PICK h \in S : s = Above(h)
  BY <1>5 DEF D
<1>7. ASSUME NEW z \in S PROVE ~Precedes(list, z, h)
  <2> SUFFICES ASSUME Precedes(list, z, h) PROVE FALSE
    OBVIOUS
  <2>1. Above(z) \subseteq Above(h)
    BY <1>3
  <2>2. Above(z) = Above(h)
    BY <1>5, <1>6, <2>1 DEF D
  <2>3. z \in Above(h) /\ z \notin Above(z)
    BY <1>3
  <2> QED
    BY <2>2, <2>3
<1>8. h \in Heads(InnerMembers, passed)
  BY <1>7 DEF Heads
<1> QED
  BY <1>1, <1>8 DEF list

\* The prices of resting orders, and how they come into their lists.
LEMMA RestingPrices ==
  ASSUME SortedByPrice, Typed, NEW f \in Finders, Settled(f)
  PROVE  /\ \A side : \A o \in Resting(side) : book[o].price \in Nat
         /\ \A a, b \in InnerMembers : place[a] = place[b] /\ book[a].key >= book[b].key
              => book[a].price >= book[b].price
<1>1. \A o \in Orders : /\ book[o].class \in {"limit", "floating", "market"}
                        /\ place[o] = "floatingLimit" => book[o].class = "floating"
                        /\ place[o] = "restingLimit" => book[o].class = "limit"
                        /\ place[o] \in {"restingLimit", "floatingLimit"} => book[o].class # "market"
  <2>1. None \notin {"restingLimit", "floatingLimit"}
    BY MatchingAssumption DEF MatchingAssumption, Lists
  <2> QED
    BY <2>1, BookTypes DEF Order, Settled
<1>2. book \in Books
  BY DEF Typed
<1>3. \A o \in Orders : /\ book[o].class # "market" => book[o].price \in Nat
                        /\ book[o].class = "limit" => book[o].price = book[o].key
                        /\ book[o].class = "floating" /\ book[o].side = "bid" =>
                             \A x \in Orders : book[x].class = "floating" /\ book[x].side = "bid"
                                               => book[x].price = book[o].price
  BY <1>2 DEF SortedByPrice
<1>4. \A side : \A o \in Resting(side) : book[o].price \in Nat
  BY <1>1, <1>3 DEF Resting, Listed
<1>5. \A a \in InnerMembers : a \in Orders /\ book[a].side = "bid"
                              /\ place[a] \in {"restingLimit", "floatingLimit"}
  BY DEF InnerMembers, Resting, Listed
<1>6. ASSUME NEW a \in InnerMembers, NEW b \in InnerMembers,
             place[a] = place[b], book[a].key >= book[b].key
      PROVE  book[a].price >= book[b].price
  <2>1. CASE place[a] = "restingLimit"
    BY <1>1, <1>3, <1>5, <1>6, <2>1
  <2>2. CASE place[a] = "floatingLimit"
    <3>1. book[a].price = book[b].price
      BY <1>1, <1>3, <1>5, <1>6, <2>2
    <3>2. book[a].price \in Nat
      BY <1>4 DEF InnerMembers
    <3> QED
      BY <3>1, <3>2
  <2> QED
    BY <1>5, <2>1, <2>2
<1> QED
  BY <1>4, <1>6

\* What the producer takes of the bids is no cheaper than what waits: it is at
\* the head of its own list, and no dearer order is at the head of the other.
LEMMA BestIsDearest ==
  ASSUME SortedByPrice, Typed, NEW f \in Finders, Settled(f),
         NEW passed, NEW o \in Best(Heads(InnerMembers, passed)), NEW x \in InnerMembers \ passed
  PROVE  book[o].price >= book[x].price
<1>1. \A y \in InnerMembers : /\ y \in Orders /\ book[y].side = "bid" /\ book[y].price \in Nat
                              /\ book[y].key \in Nat
                              /\ place[y] \in {"restingLimit", "floatingLimit"}
  BY RestingPrices, BookTypes DEF InnerMembers, Resting, Listed, Order
<1>2. ASSUME NEW h \in Heads(InnerMembers, passed), place[h] = place[x]
      PROVE  h \in InnerMembers /\ book[h].price >= book[x].price
  <2>1. h \in InnerMembers /\ ~Precedes(place[h], x, h)
    BY <1>2 DEF Heads
  <2>2. book[h].key >= book[x].key
    BY <1>1, <2>1, BidsDescend
  <2> QED
    BY <1>2, <2>1, <2>2, RestingPrices
<1>3. o \in Heads(InnerMembers, passed) /\ o \in InnerMembers
  BY DEF Best, Heads
<1>4. CASE place[o] = place[x]
  BY <1>2, <1>3, <1>4
<1>5. CASE place[o] # place[x]
  <2>1. PICK h \in Heads(InnerMembers, passed) :
          /\ place[h] # place[o]
          /\ IF place[o] \in {"market", "restingLimit"} THEN Better(o, h) ELSE ~Better(h, o)
    <3>1. \E y \in Heads(InnerMembers, passed) : place[y] # place[o]
      BY <1>5, HeadExists
    <3> QED
      BY <3>1 DEF Best
  <2>2. h \in InnerMembers /\ place[h] = place[x]
    <3>1. h \in InnerMembers
      BY DEF Heads
    <3> QED
      BY <1>1, <1>3, <1>5, <2>1, <3>1
  <2>3. \A y \in InnerMembers : y \notin Taking("bid")
    BY <1>1 DEF Taking, Listed
  <2>4. /\ Better(o, h) <=> book[o].price > book[h].price
        /\ Better(h, o) <=> book[h].price > book[o].price
    BY <1>1, <1>3, <2>2, <2>3 DEF Better
  <2>5. book[o].price >= book[h].price
    BY <1>1, <1>3, <2>1, <2>2, <2>4
  <2>6. book[h].price >= book[x].price
    BY <1>2, <2>2
  <2> QED
    BY <1>1, <1>3, <2>2, <2>5, <2>6
<1> QED
  BY <1>4, <1>5

\* The makers put by are in the order of their prices, and none that waits is dearer.
DearestFirst(g) ==
  /\ \A i, j \in 1..Len(g.ready) : i < j => book[g.ready[i]].price >= book[g.ready[j]].price
  /\ \A i \in 1..Len(g.ready) : \A x \in InnerMembers \ g.passed :
       book[g.ready[i]].price >= book[x].price

\* The writes fill more, never less, and one of them fills its order.
Grows(f) == \A i \in 1..Len(writes[f]) : filled[writes[f][i].o] <= writes[f][i].amount
Closes(f, o) ==
  \E i \in 1..Len(writes[f]) : writes[f][i].o = o /\ writes[f][i].amount = book[o].size

Comparing == {"crossing", "takingAsks"}

\* What the outer loop is done with: nothing is left to match it with.
Compared(f) ==
  \A t \in outer[f].passed : t # current[f] /\ ~IsReady(outer[f], t) =>
    \A m \in InnerMembers : ~LeftOver(phase[f], t, m)

\* What the inner loop is done with: nothing is left once the writes are done.
Seen(f) ==
  current[f] # None =>
    \A m \in inner[f].passed : ~IsReady(inner[f], m) =>
      ~LeftOver(phase[f], current[f], m) \/ Closes(f, m) \/ Closes(f, current[f])

Overlooks(f) ==
  /\ DearestFirst(inner[f]) /\ Grows(f)
  /\ phase[f] \in Comparing => Compared(f) /\ Seen(f)

OverlookedInv == \A f \in Finders : Overlooks(f)

\* A filled order is left over for nobody, and an order that is filled stays so.
LEMMA LeftOverLess ==
  ASSUME NEW p, NEW t, NEW m, book' = book, \A o \in Orders : IsBaseFilled(o) => IsBaseFilled(o)'
  PROVE  /\ LeftOver(p, t, m) => ~IsBaseFilled(t) /\ ~IsBaseFilled(m)
         /\ LeftOver(p, t, m)' => LeftOver(p, t, m)
<1>1. /\ SameUser(t, m)' = SameUser(t, m) /\ Crosses(p, t, m)' = Crosses(p, t, m)
      /\ Pairs(p, t, m)' = Pairs(p, t, m)
  BY DEF SameUser, Crosses, Pairs, DetermineMakerAndTaker
<1>2. Unfilled' \subseteq Unfilled
  BY DEF Unfilled
<1> QED
  BY <1>1, <1>2 DEF LeftOver, Unfilled

LEMMA LeftOverSame ==
  ASSUME NEW p, NEW t, NEW m, book' = book, filled' = filled
  PROVE  LeftOver(p, t, m)' = LeftOver(p, t, m)
BY DEF LeftOver, Unfilled, IsBaseFilled, SameUser, Crosses, Pairs, DetermineMakerAndTaker

\* A maker no dearer than one that does not cross does not cross.
LEMMA CheaperCrossesNot ==
  ASSUME NEW p \in Comparing, NEW t, NEW m, NEW x,
         book[t].price \in Nat \cup {None}, p = "crossing" => book[t].price \in Nat,
         book[m].price \in Nat, book[x].price \in Nat,
         book[m].price >= book[x].price, ~Crosses(p, t, m)
  PROVE  ~Crosses(p, t, x)
<1>1. FallbackBid \in Nat \cup {None} /\ None \notin Nat
  BY MatchingAssumption DEF MatchingAssumption
<1>2. CASE p = "crossing"
  BY <1>2 DEF Crosses
<1>3. CASE p = "takingAsks"
  BY <1>1, <1>3 DEF Crosses
<1> QED
  BY <1>2, <1>3 DEF Comparing

LEMMA DearestAfterYield ==
  ASSUME SortedByPrice, Typed, NEW f \in Finders, Settled(f), NEW g \in Generators,
         NEW o \in Produces(g, InnerMembers, FALSE), DearestFirst(g)
  PROVE  DearestFirst(Yield(g, o, filled[o]))
<1>1. /\ o \in InnerMembers \ g.passed /\ o \in Best(Heads(InnerMembers, g.passed))
      /\ g.ready \in Seq(Orders)
  BY DEF Produces, Best, Heads, Generators
<1>2. CASE IsBaseFilled(o)
  <2>1. Yield(g, o, filled[o]) = [passed |-> g.passed \cup {o}, ready |-> g.ready]
    BY <1>2 DEF Yield, IsBaseFilled
  <2> QED
    BY <2>1 DEF DearestFirst
<1>3. CASE ~IsBaseFilled(o)
  <2> DEFINE more == Append(g.ready, o)
             n == Len(g.ready)
  <2>1. Yield(g, o, filled[o]) = [passed |-> g.passed \cup {o}, ready |-> more]
    BY <1>3 DEF Yield, IsBaseFilled
  <2>2. /\ n \in Nat /\ Len(more) = n + 1 /\ more[n + 1] = o
        /\ \A i \in 1..n : more[i] = g.ready[i]
    BY <1>1
  <2>3. /\ \A i, j \in 1..n : i < j => book[g.ready[i]].price >= book[g.ready[j]].price
        /\ \A i \in 1..n : \A x \in InnerMembers \ g.passed :
             book[g.ready[i]].price >= book[x].price
    BY DEF DearestFirst
  <2> HIDE DEF more, n
  <2>4. \A x \in InnerMembers \ g.passed : book[o].price >= book[x].price
    BY <1>1, BestIsDearest
  <2>5. \A i \in 1..(n + 1) : i \in 1..n \/ i = n + 1
    BY <2>2
  <2>6. ASSUME NEW i \in 1..(n + 1), NEW j \in 1..(n + 1), i < j
        PROVE  book[more[i]].price >= book[more[j]].price
    <3>1. i \in 1..n
      BY <2>2, <2>6
    <3> QED
      BY <1>1, <2>2, <2>3, <2>5, <2>6, <3>1
  <2>7. ASSUME NEW i \in 1..(n + 1), NEW x \in InnerMembers \ (g.passed \cup {o})
        PROVE  book[more[i]].price >= book[x].price
    BY <2>2, <2>3, <2>4, <2>5
  <2> QED
    BY <2>1, <2>2, <2>6, <2>7 DEF DearestFirst
<1> QED
  BY <1>2, <1>3

LEMMA DearestAfterPop ==
  ASSUME NEW g \in Generators, g.ready # <<>>, DearestFirst(g), NEW h,
         h = [g EXCEPT !.ready = Tail(@)]
  PROVE  DearestFirst(h)
<1> DEFINE n == Len(g.ready)
<1>1. /\ h.passed = g.passed /\ Len(h.ready) = n - 1
      /\ \A i \in 1..Len(h.ready) : h.ready[i] = g.ready[i + 1]
      /\ g.ready \in Seq(Orders)
  BY PopType
<1>2. n \in Nat /\ n >= 1
  BY <1>1
<1>3. \A i \in 1..(n - 1) : i + 1 \in 1..n
  BY <1>2
<1>4. \A i, j \in 1..(n - 1) : i < j => i + 1 < j + 1
  BY <1>2
<1> HIDE DEF n
<1> QED
  BY <1>1, <1>3, <1>4 DEF DearestFirst, n

\* What moves nothing of the order of the makers.
LEMMA DearestSame ==
  ASSUME book' = book, place' = place
  PROVE  \A h : DearestFirst(h)' <=> DearestFirst(h)
BY ListsSame DEF DearestFirst

\* A search with nothing in hand: between two loops, and at the beginning.
LEMMA NothingSeen ==
  ASSUME NEW f \in Finders, outer[f] = NewGenerator, inner[f] = NewGenerator,
         current[f] = None, writes[f] = <<>>
  PROVE  Overlooks(f)
BY DEF Overlooks, DearestFirst, Grows, Compared, Seen, NewGenerator

LEMMA OverlooksAfterPhases ==
  ASSUME MatchingInv, NEW f \in Finders,
         \/ \E s \in SearchSlots : Search(f, s)
         \/ Collect(f) \/ RemoveDue(f) \/ InsertDue(f) \/ Moved(f)
         \/ EndOuter(f) \/ Offer(f) \/ Return(f)
         \/ \E o \in Orders : \E amount \in 0..book[o].size - 1 : Update(o, amount)
  PROVE  Overlooks(f)'
<1>1. /\ UNCHANGED <<inner, current, writes>>
      /\ \/ outer' = outer /\ phase[f] \notin Looping
         \/ outer'[f] = NewGenerator /\ current[f] = None /\ writes[f] = <<>>
  <2>1. CASE \E s \in SearchSlots : Search(f, s)
    BY <2>1 DEF Search, Looping
  <2>2. CASE EndOuter(f)
    BY <2>2 DEF EndOuter, MatchingInv, Typed
  <2>3. CASE Offer(f)
    BY <2>3 DEF Offer
  <2>4. CASE Return(f)
    BY <2>4 DEF Return, Looping
  <2>5. CASE \E o \in Orders : \E amount \in 0..book[o].size - 1 : Update(o, amount)
    BY <2>5 DEF Update, Looping
  <2>6. CASE Collect(f) \/ RemoveDue(f) \/ InsertDue(f) \/ Moved(f)
    BY <2>6 DEF Collect, RemoveDue, InsertDue, Moved, Looping, MatchingInv, MovesInv
  <2> QED
    BY <2>1, <2>2, <2>3, <2>4, <2>5, <2>6
<1>2. /\ outer'[f] = NewGenerator /\ inner'[f] = NewGenerator
      /\ current'[f] = None /\ writes'[f] = <<>>
  BY <1>1, IdleHands DEF MatchingInv, Tidy
<1> QED
  BY <1>2 DEF Overlooks, DearestFirst, Grows, Compared, Seen, NewGenerator

\* What a producer passes it puts by, unless it is filled.
LEMMA YieldPasses ==
  ASSUME NEW g \in Generators, NEW members \in SUBSET Orders, NEW o \in Produces(g, members, FALSE)
  PROVE  /\ Yield(g, o, filled[o]).passed = g.passed \cup {o}
         /\ \A t : IsReady(g, t) => IsReady(Yield(g, o, filled[o]), t)
         /\ IsBaseFilled(o) \/ IsReady(Yield(g, o, filled[o]), o)
<1> DEFINE more == Append(g.ready, o)
           n == Len(g.ready)
<1>1. g.ready \in Seq(Orders) /\ o \in Orders
  BY DEF Generators, Produces, Best, Heads
<1>2. /\ n \in Nat /\ Len(more) = n + 1 /\ more[n + 1] = o
      /\ \A i \in 1..n : more[i] = g.ready[i]
  BY <1>1
<1> HIDE DEF more
<1>3. CASE IsBaseFilled(o)
  BY <1>3 DEF Yield, IsReady, IsBaseFilled
<1>4. CASE ~IsBaseFilled(o)
  <2>1. Yield(g, o, filled[o]) = [passed |-> g.passed \cup {o}, ready |-> more]
    BY <1>4 DEF Yield, more, IsBaseFilled
  <2>2. n + 1 \in 1..Len(more) /\ \A i \in 1..n : i \in 1..Len(more)
    BY <1>2
  <2> QED
    BY <1>2, <2>1, <2>2 DEF IsReady
<1> QED
  BY <1>3, <1>4

LEMMA OverlooksAfterProduceOuter ==
  ASSUME MatchingInv, AloneInv, NEW f \in Finders, Overlooks(f), ProduceOuter(f)
  PROVE  Overlooks(f)'
<1>1. UNCHANGED <<book, filled, place, phase, current, inner, writes>>
  BY DEF ProduceOuter, moveVars
<1>2. PICK o \in Produces(outer[f], OuterMembers(f), FALSE) : outer'[f] = Yield(outer[f], o, filled[o])
  BY OuterProduced
<1>3. outer[f] \in Generators /\ OuterMembers(f) \in SUBSET Orders
  BY MembersAreOrders DEF MatchingInv, Typed
<1>4. /\ outer'[f].passed = outer[f].passed \cup {o}
      /\ \A t : IsReady(outer[f], t) => IsReady(outer'[f], t)
      /\ IsBaseFilled(o) \/ IsReady(outer'[f], o)
  BY <1>2, <1>3, YieldPasses
<1>5. InnerMembers' = InnerMembers /\ \A p, t, m : LeftOver(p, t, m)' = LeftOver(p, t, m)
  BY <1>1, ListsSame, LeftOverSame
<1>6. \A p, m : ~LeftOver(p, o, m) \/ ~IsBaseFilled(o)
  BY DEF LeftOver, Unfilled
<1>7. phase[f] \in Comparing => Compared(f)'
  BY <1>1, <1>4, <1>5, <1>6 DEF Overlooks, Compared
<1>8. DearestFirst(inner[f])'
  BY <1>1, DearestSame DEF Overlooks, DearestFirst
<1>9. Grows(f)' /\ (phase[f] \in Comparing => Seen(f)')
  BY <1>1, <1>5 DEF Overlooks, Grows, Seen, Closes
<1> QED
  BY <1>1, <1>7, <1>8, <1>9 DEF Overlooks

LEMMA OverlooksAfterProduceInner ==
  ASSUME SortedByPrice, MatchingInv, AloneInv, NEW f \in Finders, Settled(f), Overlooks(f),
         ProduceInner(f)
  PROVE  Overlooks(f)'
<1>1. UNCHANGED <<book, filled, place, phase, current, outer, writes>>
  BY DEF ProduceInner, moveVars
<1>2. PICK o \in Produces(inner[f], InnerMembers, FALSE) : inner'[f] = Yield(inner[f], o, filled[o])
  BY InnerProduced
<1>3. inner[f] \in Generators /\ InnerMembers \in SUBSET Orders
  BY MembersAreOrders DEF MatchingInv, Typed
<1>4. /\ inner'[f].passed = inner[f].passed \cup {o}
      /\ \A t : IsReady(inner[f], t) => IsReady(inner'[f], t)
      /\ IsBaseFilled(o) \/ IsReady(inner'[f], o)
  BY <1>2, <1>3, YieldPasses
<1>5. InnerMembers' = InnerMembers /\ \A p, t, m : LeftOver(p, t, m)' = LeftOver(p, t, m)
  BY <1>1, ListsSame, LeftOverSame
<1>6. \A p, t : ~LeftOver(p, t, o) \/ ~IsBaseFilled(o)
  BY DEF LeftOver, Unfilled
<1>7. DearestFirst(inner'[f])
  BY <1>2, <1>3, DearestAfterYield DEF Overlooks, MatchingInv
<1>8. DearestFirst(inner[f])'
  BY <1>1, <1>7, DearestSame DEF DearestFirst
<1>9. Grows(f)' /\ (phase[f] \in Comparing => Compared(f)')
  BY <1>1, <1>5 DEF Overlooks, Grows, Compared
<1>10. phase[f] \in Comparing => Seen(f)'
  BY <1>1, <1>4, <1>5, <1>6 DEF Overlooks, Seen, Closes
<1> QED
  BY <1>1, <1>8, <1>9, <1>10 DEF Overlooks

LEMMA OverlooksAfterTake ==
  ASSUME MatchingInv, AloneInv, NEW f \in Finders, Overlooks(f), Take(f)
  PROVE  Overlooks(f)'
<1>1. /\ UNCHANGED <<book, filled, place, phase, writes>>
      /\ current[f] = None /\ outer[f].ready # <<>>
      /\ current'[f] = Head(outer[f].ready)
      /\ outer'[f] = [outer[f] EXCEPT !.ready = Tail(@)]
      /\ inner'[f] = NewGenerator
  BY DEF Take, MatchingInv, Typed, moveVars
<1>2. outer[f] \in Generators /\ outer[f].ready \in Seq(Orders)
  BY DEF MatchingInv, Typed, Generators
<1>3. /\ outer'[f].passed = outer[f].passed
      /\ \A t : IsReady(outer[f], t) => t = current'[f] \/ IsReady(outer'[f], t)
  <2>1. /\ outer'[f].passed = outer[f].passed
        /\ Len(outer'[f].ready) = Len(outer[f].ready) - 1
        /\ \A i \in 1..Len(outer'[f].ready) : outer'[f].ready[i] = outer[f].ready[i + 1]
        /\ current'[f] = outer[f].ready[1]
    BY <1>1, <1>2, PopType
  <2>2. \A i \in 1..Len(outer[f].ready) :
          i = 1 \/ (i - 1 \in 1..Len(outer'[f].ready) /\ outer[f].ready[i] = outer'[f].ready[i - 1])
    BY <1>2, <2>1
  <2> QED
    BY <2>1, <2>2 DEF IsReady
<1>4. InnerMembers' = InnerMembers /\ \A p, t, m : LeftOver(p, t, m)' = LeftOver(p, t, m)
  BY <1>1, ListsSame, LeftOverSame
<1>5. \A t \in outer[f].passed : t # None
  BY <1>2, MatchingAssumption DEF Generators, MatchingAssumption
<1>6. phase[f] \in Comparing => Compared(f)'
  BY <1>1, <1>3, <1>4, <1>5 DEF Overlooks, Compared
<1>7. Seen(f)' /\ DearestFirst(inner[f])'
  BY <1>1 DEF Seen, DearestFirst, NewGenerator
<1>8. Grows(f)'
  BY <1>1 DEF Overlooks, Grows
<1> QED
  BY <1>1, <1>6, <1>7, <1>8 DEF Overlooks

\* When the inner loop is left, there is nothing left for its order.
LEMMA OverlooksAfterLeaving ==
  ASSUME MatchingInv, NEW f \in Finders, Overlooks(f), LeaveInner(f),
         UNCHANGED <<book, place, phase, outer>>,
         \A o \in Orders : IsBaseFilled(o) => IsBaseFilled(o)', Grows(f)',
         phase[f] \in Comparing =>
           \A t : t = current[f] => \A m \in InnerMembers : ~LeftOver(phase[f], t, m)'
  PROVE  Overlooks(f)'
<1>1. current'[f] = None /\ inner'[f] = NewGenerator
  BY DEF LeaveInner, MatchingInv, Typed
<1>2. InnerMembers' = InnerMembers
  BY ListsSame
<1>3. \A p, t, m : LeftOver(p, t, m)' => LeftOver(p, t, m)
  BY LeftOverLess
<1>4. phase[f] \in Comparing => Compared(f)'
  BY <1>1, <1>2, <1>3 DEF Overlooks, Compared
<1>5. Seen(f)' /\ DearestFirst(inner[f])'
  BY <1>1 DEF Seen, DearestFirst, NewGenerator
<1> QED
  BY <1>4, <1>5 DEF Overlooks

\* The inner loop comes to its end: it has seen every maker.
LEMMA OverlooksAfterEndInner ==
  ASSUME MatchingInv, AloneInv, NEW f \in Finders, Overlooks(f), EndInner(f)
  PROVE  Overlooks(f)'
<1>1. /\ UNCHANGED <<book, filled, place, phase, outer, writes>> /\ LeaveInner(f)
      /\ current[f] # None /\ writes[f] = <<>>
      /\ InnerMembers \subseteq inner[f].passed /\ inner[f].ready = <<>>
  BY DEF EndInner, Exhausted, moveVars, AloneInv, Unmoved
<1>2. \A m : ~IsReady(inner[f], m) /\ ~Closes(f, m)
  BY <1>1 DEF IsReady, Closes
<1>3. phase[f] \in Comparing => \A m \in InnerMembers : ~LeftOver(phase[f], current[f], m)
  BY <1>1, <1>2 DEF Overlooks, Seen
<1>4. \A p, t, m : LeftOver(p, t, m)' = LeftOver(p, t, m)
  BY <1>1, LeftOverSame
<1>5. Grows(f)' /\ \A o \in Orders : IsBaseFilled(o) => IsBaseFilled(o)'
  BY <1>1 DEF Overlooks, Grows, IsBaseFilled
<1> QED
  BY <1>1, <1>3, <1>4, <1>5, OverlooksAfterLeaving

\* The inner loop stops at a maker that does not cross: nor does any behind it.
LEMMA StopsRightly ==
  ASSUME SortedByPrice, MatchingInv, AloneInv, NEW f \in Finders, Settled(f), Overlooks(f),
         phase[f] \in Comparing, current[f] # None, writes[f] = <<>>, inner[f].ready # <<>>,
         ~Crosses(phase[f], current[f], Head(inner[f].ready)), NEW m \in InnerMembers
  PROVE  ~LeftOver(phase[f], current[f], m)
<1> DEFINE maker == Head(inner[f].ready)
           n == Len(inner[f].ready)
<1>1. /\ inner[f].ready \in Seq(Orders) /\ n \in Nat /\ n >= 1 /\ maker = inner[f].ready[1]
  BY DEF MatchingInv, Typed, Generators
<1>2. \A i \in 1..n : inner[f].ready[i] \in InnerMembers
  BY DEF AloneInv, HandsOpen, AllOpen, MatchingInv, Tidy
<1>3. /\ \A side : \A o \in Resting(side) : book[o].price \in Nat
      /\ \A o \in InnerMembers : book[o].price \in Nat
  BY RestingPrices DEF MatchingInv, InnerMembers
<1>4. /\ book[current[f]].price \in Nat \cup {None}
      /\ phase[f] = "crossing" => book[current[f]].price \in Nat
  <2>1. current[f] \in OuterMembers(f)
    BY DEF MatchingInv, Tidy, Comparing, Looping
  <2>2. current[f] \in Orders
    BY <2>1, MembersAreOrders
  <2> QED
    BY <1>3, <2>1, <2>2, BookTypes DEF MatchingInv, Order, OuterMembers
<1> HIDE DEF maker, n
<1>5. CASE m \in inner[f].passed /\ ~IsReady(inner[f], m)
  <2>1. ~Closes(f, m) /\ ~Closes(f, current[f])
    BY DEF Closes
  <2> QED
    BY <1>5, <2>1 DEF Overlooks, Seen
<1>6. CASE m \notin inner[f].passed \/ IsReady(inner[f], m)
  <2>1. book[maker].price >= book[m].price
    <3>1. CASE m \notin inner[f].passed
      BY <1>1, <3>1 DEF Overlooks, DearestFirst, n
    <3>2. CASE IsReady(inner[f], m)
      <4>1. PICK i \in 1..n : inner[f].ready[i] = m
        BY <3>2 DEF IsReady, n
      <4>2. CASE i = 1
        BY <1>1, <1>3, <4>1, <4>2
      <4>3. CASE i # 1
        <5>1. 1 \in 1..n /\ 1 < i
          BY <1>1, <4>3
        <5> QED
          BY <1>1, <4>1, <5>1 DEF Overlooks, DearestFirst, n
      <4> QED
        BY <4>2, <4>3
    <3> QED
      BY <1>6, <3>1, <3>2
  <2>2. maker \in InnerMembers
    BY <1>1, <1>2
  <2>3. ~Crosses(phase[f], current[f], m)
    BY <1>3, <1>4, <2>1, <2>2, CheaperCrossesNot DEF maker
  <2> QED
    BY <2>3 DEF LeftOver
<1> QED
  BY <1>5, <1>6

LEMMA OverlooksAfterLook ==
  ASSUME SortedByPrice, MatchingInv, AloneInv, NEW f \in Finders, Settled(f), Overlooks(f), Look(f)
  PROVE  Overlooks(f)'
<1> DEFINE taker == current[f]
           maker == Head(inner[f].ready)
           has == Carried(f, taker)
           base == Min({Remaining(taker, has), Remaining(maker, filled[maker])})
           pairs == Pairs(phase[f], taker, maker)
           new == <<[o |-> maker, amount |-> NewAmount(filled[maker], base)],
                    [o |-> taker, amount |-> NewAmount(has, base)]>>
<1>1. /\ UNCHANGED <<book, filled, place, phase, outer>>
      /\ taker # None /\ writes[f] = <<>> /\ inner[f].ready # <<>>
  BY DEF Look, moveVars
<1>2. \A p, t, m : LeftOver(p, t, m)' = LeftOver(p, t, m)
  BY <1>1, LeftOverSame
<1>3. CASE Stops(phase[f], taker, maker)
  <2>1. LeaveInner(f) /\ writes' = writes
    BY <1>3 DEF Look
  <2>2. ~Crosses(phase[f], taker, maker)
    BY <1>3 DEF Stops
  <2>3. phase[f] \in Comparing => \A m \in InnerMembers : ~LeftOver(phase[f], taker, m)
    BY <1>1, <2>2, StopsRightly
  <2>4. Grows(f)' /\ \A o \in Orders : IsBaseFilled(o) => IsBaseFilled(o)'
    BY <1>1, <2>1 DEF Overlooks, Grows, IsBaseFilled
  <2> QED
    BY <1>1, <1>2, <2>1, <2>3, <2>4, OverlooksAfterLeaving
<1>4. CASE ~Stops(phase[f], taker, maker)
  <2>1. /\ inner'[f] = [inner[f] EXCEPT !.ready = Tail(@)] /\ current' = current
        /\ writes' = IF pairs = {} THEN writes ELSE [writes EXCEPT ![f] = new]
    BY <1>4 DEF Look, MatchingInv, Typed
  <2>2. inner[f] \in Generators /\ AllOpen(inner[f])
    BY DEF MatchingInv, Typed, AloneInv, HandsOpen
  <2>3. DearestFirst(inner'[f]) /\ inner'[f].passed = inner[f].passed
    BY <1>1, <2>1, <2>2, DearestAfterPop, PopOpen DEF Overlooks
  <2>4. \A m : IsReady(inner[f], m) => m = maker \/ IsReady(inner'[f], m)
    <3>1. /\ Len(inner'[f].ready) = Len(inner[f].ready) - 1 /\ inner[f].ready \in Seq(Orders)
          /\ \A i \in 1..Len(inner'[f].ready) : inner'[f].ready[i] = inner[f].ready[i + 1]
          /\ maker = inner[f].ready[1]
      BY <1>1, <2>1, <2>2, PopType
    <3>2. \A i \in 1..Len(inner[f].ready) :
            i = 1 \/ (i - 1 \in 1..Len(inner'[f].ready) /\ inner[f].ready[i] = inner'[f].ready[i - 1])
      BY <3>1
    <3> QED
      BY <3>1, <3>2 DEF IsReady
  <2>5. InnerMembers' = InnerMembers /\ DearestFirst(inner[f])'
    BY <1>1, <2>3, DearestSame, ListsSame DEF DearestFirst
  <2>6. phase[f] \in Comparing => Compared(f)'
    BY <1>1, <1>2, <2>1, <2>5 DEF Overlooks, Compared
  <2>7. \A m \in inner[f].passed : m # maker /\ ~IsReady(inner'[f], m) /\ phase[f] \in Comparing
          => ~LeftOver(phase[f], taker, m)
    <3>1. \A m : ~Closes(f, m)
      BY <1>1 DEF Closes
    <3> QED
      BY <1>1, <2>4, <3>1 DEF Overlooks, Seen
  <2>8. CASE pairs = {}
    <3>1. writes' = writes /\ ~LeftOver(phase[f], taker, maker)
      BY <2>1, <2>8 DEF LeftOver
    <3>2. Grows(f)' /\ (phase[f] \in Comparing => Seen(f)')
      BY <1>1, <1>2, <2>1, <2>3, <2>7, <3>1 DEF Overlooks, Grows, Seen
    <3> QED
      BY <1>1, <2>5, <2>6, <3>2 DEF Overlooks
  <2>9. CASE pairs # {}
    <3>1. writes'[f] = new
      BY <2>1, <2>9 DEF MatchingInv, Typed
    <3>2. /\ taker \in Orders /\ maker \in Orders /\ base \in Nat
          /\ \A o \in {taker, maker} : filled[o] \in Nat /\ book[o].size \in Nat
                                       /\ filled[o] <= book[o].size
      BY <1>1, LookType, BookTypes DEF MatchingInv, Typed, Bounded, Within
    <3> HIDE DEF taker, maker
    <3>3. has = filled[taker]
      BY <3>2, StillThere DEF AloneInv
    <3>4. base \in {book[taker].size - filled[taker], book[maker].size - filled[maker]}
      <4> DEFINE a == book[taker].size - filled[taker]
                 b == book[maker].size - filled[maker]
      <4>1. a \in Nat /\ b \in Nat /\ base = Min({a, b})
        BY <3>2, <3>3 DEF Remaining
      <4> HIDE DEF a, b, base
      <4>2. \E x \in {a, b} : \A y \in {a, b} : x <= y
        BY <4>1
      <4>3. base \in {a, b}
        BY <4>1, <4>2 DEF Min
      <4> QED
        BY <4>3 DEF a, b
    <3> HIDE DEF base, has
    <3>5. /\ filled[taker] + base = book[taker].size \/ filled[maker] + base = book[maker].size
          /\ \A o \in {taker, maker} : filled[o] <= filled[o] + base
      BY <3>2, <3>4
    <3>6. /\ Len(new) = 2
          /\ new[1].o = maker /\ new[1].amount = filled[maker] + base
          /\ new[2].o = taker /\ new[2].amount = filled[taker] + base
      BY <3>3 DEF NewAmount
    <3> HIDE DEF new
    <3>7. Grows(f)'
      <4>1. \A i \in 1..2 : filled[new[i].o] <= new[i].amount
        BY <3>5, <3>6
      <4> QED
        BY <1>1, <3>1, <3>6, <4>1 DEF Grows
    <3>8. \A o : (o = maker \/ o = taker) /\ filled[o] + base = book[o].size => Closes(f, o)'
      <4>1. \A i \in 1..2 : i \in 1..Len(new)
        BY <3>6
      <4> QED
        BY <1>1, <3>1, <3>6, <4>1 DEF Closes
    <3>9. \/ \A m : m = maker => Closes(f, m)'
          \/ \A t : t = taker => Closes(f, t)'
      BY <3>5, <3>8
    <3>10. \A m \in inner[f].passed : ~IsReady(inner'[f], m) /\ phase[f] \in Comparing =>
             \A t : t = taker => ~LeftOver(phase[f], t, m) \/ Closes(f, m)' \/ Closes(f, t)'
      BY <2>7, <3>9
    <3>11. phase[f] \in Comparing => Seen(f)'
      <4>1. taker = current'[f] /\ phase'[f] = phase[f] /\ inner'[f].passed = inner[f].passed
        BY <1>1, <2>1, <2>3 DEF taker
      <4> QED
        BY <1>2, <3>10, <4>1 DEF Seen
    <3> QED
      BY <1>1, <2>5, <2>6, <3>7, <3>11 DEF Overlooks
  <2> QED
    BY <2>8, <2>9
<1> QED
  BY <1>3, <1>4

\* A write fills its order, or leaves it to the write that closes the match.
LEMMA OverlooksAfterWrite ==
  ASSUME MatchingInv, AloneInv, NEW f \in Finders, Settled(f), Overlooks(f), Write(f)
  PROVE  Overlooks(f)'
<1> DEFINE w == Head(writes[f])
           n == Len(writes[f])
<1>1. /\ writes[f] # <<>> /\ writes'[f] = Tail(writes[f])
      /\ UNCHANGED <<book, place, phase, outer>>
      /\ IF w.o = current[f] /\ w.amount = book[w.o].size
         THEN LeaveInner(f) ELSE UNCHANGED <<current, inner>>
  BY DEF Write, MatchingInv, Typed, moveVars
<1>2. writes[f] \in Seq(Amounts) /\ n \in {1, 2} /\ w = writes[f][1] /\ phase[f] \in Looping
  BY <1>1, WritesType
<1>3. w.o \in Orders /\ w.amount \in Nat
  BY <1>1, <1>2, FirstOfSeq DEF Amounts
<1>4. filled' = [filled EXCEPT ![w.o] = w.amount]
  <2>1. GetNodeType(w.o, slot[f]) = place[w.o]
    BY <1>2, <1>3, InLists
  <2> QED
    BY <2>1 DEF Write
<1>5. /\ Len(writes'[f]) = n - 1
      /\ \A i \in 1..Len(writes'[f]) : writes'[f][i] = writes[f][i + 1]
  BY <1>1, <1>2
<1>6. n = 2 => writes[f][2].o = current[f] /\ w.o # current[f]
  <2> SUFFICES ASSUME n = 2 PROVE writes[f][2].o = current[f] /\ w.o # current[f]
    OBVIOUS
  <2>1. w.o # current[f]
    BY <1>1, WrittenIsApart
  <2>2. 2 \in 1..Len(writes[f])
    OBVIOUS
  <2> QED
    BY <2>1, <2>2 DEF AloneInv, HandsOpen, WritesOf
<1>7. filled[w.o] <= w.amount /\ w.amount <= book[w.o].size
  BY <1>2 DEF Overlooks, Grows, MatchingInv, Bounded, Within
<1> HIDE DEF w, n
<1>8. filled'[w.o] = w.amount /\ \A o \in Orders : o # w.o => filled'[o] = filled[o]
  BY <1>3, <1>4 DEF MatchingInv, Typed
<1>9. \A o \in Orders : IsBaseFilled(o) => IsBaseFilled(o)'
  <2>1. IsBaseFilled(w.o) => w.amount = book[w.o].size
    BY <1>3, <1>7, BookTypes DEF IsBaseFilled, MatchingInv
  <2> QED
    BY <1>1, <1>8, <2>1 DEF IsBaseFilled
<1>10. Grows(f)'
  <2> SUFFICES ASSUME NEW i \in 1..Len(writes'[f])
               PROVE  filled'[writes'[f][i].o] <= writes'[f][i].amount
    BY DEF Grows
  <2>1. n = 2 /\ i = 1
    BY <1>2, <1>5
  <2>2. writes'[f][i] = writes[f][2] /\ 2 \in 1..Len(writes[f])
    BY <1>5, <2>1 DEF n
  <2>3. writes[f][2].o # w.o
    BY <1>6, <2>1
  <2>4. writes[f][2] \in Amounts
    BY <1>2, <2>2
  <2> QED
    BY <1>8, <2>2, <2>3, <2>4 DEF Amounts, Overlooks, Grows
<1>11. \A p, t, m : LeftOver(p, t, m)' => LeftOver(p, t, m) /\ ~IsBaseFilled(t)' /\ ~IsBaseFilled(m)'
  <2>1. \A p, t, m : LeftOver(p, t, m)' => ~IsBaseFilled(t)' /\ ~IsBaseFilled(m)'
    BY DEF LeftOver, Unfilled
  <2> QED
    BY <1>1, <1>9, <2>1, LeftOverLess
<1>12. w.amount = book[w.o].size => \A o : o = w.o => IsBaseFilled(o)'
  BY <1>1, <1>8 DEF IsBaseFilled
<1>13. CASE w.o = current[f] /\ w.amount = book[w.o].size
  <2>1. \A t : t = current[f] => \A p, m : ~LeftOver(p, t, m)'
    BY <1>11, <1>12, <1>13
  <2> QED
    BY <1>1, <1>9, <1>10, <1>13, <2>1, OverlooksAfterLeaving
<1>14. CASE ~(w.o = current[f] /\ w.amount = book[w.o].size)
  <2>1. UNCHANGED <<current, inner>>
    BY <1>1, <1>14
  <2>2. InnerMembers' = InnerMembers /\ DearestFirst(inner[f])'
    BY <1>1, <2>1, DearestSame, ListsSame DEF Overlooks, DearestFirst
  <2>3. phase[f] \in Comparing => Compared(f)'
    BY <1>1, <1>11, <2>1, <2>2 DEF Overlooks, Compared
  <2>4. \A o : Closes(f, o) => IsBaseFilled(o)' \/ Closes(f, o)'
    <3> SUFFICES ASSUME NEW o, Closes(f, o), ~IsBaseFilled(o)' PROVE Closes(f, o)'
      OBVIOUS
    <3>1. PICK i \in 1..n : writes[f][i].o = o /\ writes[f][i].amount = book[o].size
      BY DEF Closes, n
    <3>2. i # 1
      <4> SUFFICES ASSUME i = 1 PROVE FALSE
        OBVIOUS
      <4>1. o = w.o /\ w.amount = book[w.o].size
        BY <1>2, <3>1
      <4> QED
        BY <1>12, <4>1
    <3>3. i - 1 \in 1..Len(writes'[f]) /\ writes'[f][i - 1] = writes[f][i]
      <4>1. n = 2 /\ i = 2
        BY <1>2, <3>2
      <4>2. i - 1 = 1 /\ (i - 1) + 1 = i /\ Len(writes'[f]) = 1
        BY <1>5, <4>1
      <4>3. i - 1 \in 1..Len(writes'[f])
        BY <4>2
      <4> QED
        BY <1>5, <4>2, <4>3
    <3> QED
      BY <1>1, <3>1, <3>3 DEF Closes
  <2>5. phase[f] \in Comparing => Seen(f)'
    <3> SUFFICES ASSUME phase[f] \in Comparing, current[f] # None, NEW m \in inner[f].passed,
                        ~IsReady(inner[f], m)
                 PROVE  \A t, p : t = current[f] /\ p = phase[f] =>
                          ~LeftOver(p, t, m)' \/ Closes(f, m)' \/ Closes(f, t)'
      BY <1>1, <2>1 DEF Seen
    <3>1. ~LeftOver(phase[f], current[f], m) \/ Closes(f, m) \/ Closes(f, current[f])
      BY DEF Overlooks, Seen
    <3> QED
      BY <1>11, <2>4, <3>1
  <2> QED
    BY <1>1, <1>10, <2>2, <2>3, <2>5 DEF Overlooks
<1> QED
  BY <1>13, <1>14

LEMMA OverlookedInitially == Init => OverlookedInv
<1> SUFFICES ASSUME Init, NEW f \in Finders PROVE Overlooks(f)
  BY DEF OverlookedInv
<1>1. /\ outer[f] = NewGenerator /\ inner[f] = NewGenerator
      /\ current[f] = None /\ writes[f] = <<>>
  BY DEF Init
<1> QED
  BY <1>1, NothingSeen

LEMMA OverlookedKept ==
  ASSUME Alone, SortedByPrice, MatchingInv, AloneInv, SettledInv, OverlookedInv, [Next]_vars
  PROVE  OverlookedInv'
<1> SUFFICES ASSUME NEW f \in Finders PROVE Overlooks(f)'
  BY DEF OverlookedInv
<1>1. Overlooks(f) /\ Settled(f) /\ \A g \in Finders : g = f
  BY DEF OverlookedInv, SettledInv, Alone
<1>2. CASE \E s \in SearchSlots : Search(f, s)
  BY <1>2, OverlooksAfterPhases
<1>3. CASE Work(f)
  BY <1>1, <1>3, OverlooksAfterPhases, OverlooksAfterProduceOuter, OverlooksAfterProduceInner,
     OverlooksAfterTake, OverlooksAfterLook, OverlooksAfterWrite, OverlooksAfterEndInner DEF Work
<1>4. CASE \E o \in Orders : \E amount \in 0..book[o].size - 1 : Update(o, amount)
  BY <1>4, OverlooksAfterPhases
<1>5. CASE UNCHANGED vars
  <2>1. UNCHANGED <<book, filled, place, phase, outer, current, inner, writes>>
    BY <1>5 DEF vars, moveVars
  <2>2. InnerMembers' = InnerMembers /\ DearestFirst(inner[f])'
    BY <1>1, <2>1, DearestSame, ListsSame DEF Overlooks, DearestFirst
  <2>3. \A p, t, m : LeftOver(p, t, m)' = LeftOver(p, t, m)
    BY <2>1, LeftOverSame
  <2> QED
    BY <1>1, <2>1, <2>2, <2>3 DEF Overlooks, Grows, Compared, Seen, Closes
<1> QED
  BY <1>1, <1>2, <1>3, <1>4, <1>5 DEF Next, Race

\* With one search at a time, slots that do not go back, none older than an
\* order, and bids that are sorted by their prices, a loop over asks ends with no
\* ask and bid both open that it could have matched: stopping at the first bid
\* that does not cross loses none, and that the producers look at the fills
\* earlier than the consumer does no harm.
THEOREM NoMatchOverlooked ==
  ASSUME Alone, Fresh, Current, SortedByPrice
  PROVE  Spec => NothingOverlooked
<1>1. MatchingInv /\ AloneInv /\ OverlookedInv /\ [Next]_vars =>
        [\A f \in Finders :
           phase[f] \in {"crossing", "takingAsks"} /\ phase'[f] # phase[f] =>
             \A taker \in OuterMembers(f), maker \in InnerMembers :
               ~LeftOver(phase[f], taker, maker)]_vars
  <2> SUFFICES ASSUME MatchingInv, AloneInv, OverlookedInv, Next, NEW f \in Finders,
                      phase[f] \in Comparing, phase'[f] # phase[f],
                      NEW taker \in OuterMembers(f), NEW maker \in InnerMembers
               PROVE  ~LeftOver(phase[f], taker, maker)
    BY DEF Comparing
  <2>1. phase \in [Finders -> Types] /\ phase[f] \in Looping
        /\ phase[f] \notin {"idle", "collecting", "moving"}
    BY DEF MatchingInv, Typed, Comparing, Looping
  <2>2. \E g \in Finders : Work(g) /\ phase'[f] # phase[f]
    BY <2>1 DEF Next, Search, Update, Race
  <2>3. PICK g \in Finders : Work(g)
    BY <2>2
  <2>4. g = f /\ EndOuter(f)
    BY <2>1, <2>3 DEF Work, Collect, RemoveDue, InsertDue, Moved, ProduceOuter, ProduceInner, Take,
       Look, Write, EndInner, EndOuter, Offer, Return, Looping
  <2>5. /\ current[f] = None /\ outer[f].ready = <<>> /\ OuterMembers(f) \subseteq outer[f].passed
    BY <2>4 DEF EndOuter, Exhausted, AloneInv, Unmoved
  <2>6. taker # current[f] /\ ~IsReady(outer[f], taker)
    BY <2>5, MembersAreOrders, MatchingAssumption DEF IsReady, MatchingAssumption
  <2> QED
    BY <2>5, <2>6 DEF OverlookedInv, Overlooks, Compared
<1>2. MatchingInv /\ AloneInv /\ [Next]_vars => AloneInv'
  BY AloneInvKept
<1>3. MatchingInv /\ AloneInv /\ SettledInv /\ [Next]_vars => SettledInv'
  BY SettledKept
<1>4. MatchingInv /\ AloneInv /\ SettledInv /\ OverlookedInv /\ [Next]_vars => OverlookedInv'
  BY OverlookedKept
<1>5. Init => SettledInv
  BY SettledInitially
<1> QED
  BY <1>1, <1>2, <1>3, <1>4, <1>5, AloneInvInitially, OverlookedInitially, MatchingInvAlways, PTL
  DEF Spec, NothingOverlooked
=============================================================================
