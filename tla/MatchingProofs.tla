---------------------------- MODULE MatchingProofs ----------------------------
(***************************************************************************)
(* Proofs about Matching, for any book, any number of searches at the same *)
(* time, any slots they pass and any moves they make under each other: the *)
(* state is well-typed, and what is filled of an order stays between what  *)
(* the chain has confirmed and the order's size.                           *)
(*                                                                         *)
(* A search decides what to write when it looks at a pair and writes it    *)
(* later, one order at a time, while other searches do the same.  So the   *)
(* bounds are those of every amount that is still to be written, too, and  *)
(* of every amount a walk may still find in a node that was removed; the   *)
(* chain, which moves the bounds, waits until nobody searches.             *)
(***************************************************************************)
EXTENDS Matching, TLAPS

Types == {"crossing", "restingAsksFallback", "restingBidsFallback", "takingAsks",
          "takingAsksFallback", "takingBids", "takingBidsFallback", "return", "idle",
          "collecting", "moving"}
Generators == [passed : SUBSET Orders, ready : Seq(Orders)]
Amounts == [o : Orders, amount : Nat]
Matches == [node : Orders, maker : Orders, base : Nat]

Typed ==
  /\ book \in Books
  /\ confirmed \in [Orders -> Nat] /\ filled \in [Orders -> Nat] /\ maxSlot \in Nat
  /\ phase \in [Finders -> Types] /\ slot \in [Finders -> SearchSlots \cup {0}]
  /\ outer \in [Finders -> Generators] /\ inner \in [Finders -> Generators]
  /\ current \in [Finders -> Orders \cup {None}]
  /\ writes \in [Finders -> Seq(Amounts)]
  /\ found \in [Finders -> SUBSET Matches] /\ offered \in [Finders -> SUBSET Orders]

MovesTyped ==
  /\ place \in [Orders -> Lists \cup {None}] /\ due \in [Finders -> SUBSET Orders]
  /\ hand \in [Finders -> Orders \cup {None}]
  /\ gone \in [Finders -> [Orders -> Nat \cup {None}]]
  /\ loose \in [Finders -> BOOLEAN] /\ ended \in BOOLEAN

\* What the loops of f have in hand is of their lists, and is gone between two loops.
Tidy(f) ==
  /\ phase[f] \in Looping => current[f] \in OuterMembers(f) \cup {None}
  /\ phase[f] \notin Looping =>
       current[f] = None /\ writes[f] = <<>> /\ outer[f] = NewGenerator
  /\ current[f] = None => inner[f] = NewGenerator
  /\ \A i \in 1..Len(outer[f].ready) : outer[f].ready[i] \in OuterMembers(f)
  /\ inner[f].passed \subseteq InnerMembers
  /\ Len(outer[f].ready) <= Ahead /\ Len(inner[f].ready) <= Ahead

\* Between what is confirmed and the size.
Within(o, amount) == confirmed[o] <= amount /\ amount <= book[o].size

Bounded ==
  /\ \A o \in Orders : Within(o, filled[o])
  /\ \A f \in Finders : \A i \in 1..Len(writes[f]) : Within(writes[f][i].o, writes[f][i].amount)
  /\ \A f \in Finders, o \in Orders : gone[f][o] # None => Within(o, gone[f][o])

\* The phases in which a search walks the taking orders.
Walking == {"collecting", "takingAsks", "takingBids"}

\* Who does not move orders has none to move, and who does not walk the taking
\* orders meets none that are gone; no order that cannot take was ever there.
MovesInv ==
  /\ \A f \in Finders :
       /\ phase[f] # "moving" => due[f] = {} /\ hand[f] = None
       /\ phase[f] \notin Walking => \A o \in Orders : gone[f][o] = None
  /\ \A o \in Orders :
       /\ place[o] = "market" => book[o].class = "market"
       /\ place[o] = "takingLimit" => ~book[o].postOnly
       /\ \A f \in Finders : gone[f][o] # None => ~book[o].postOnly

MatchingInv == Typed /\ MovesTyped /\ (\A f \in Finders : Tidy(f)) /\ Bounded
               /\ MovesInv

-----------------------------------------------------------------------------
(* Operators.                                                              *)

LEMMA BookTypes == Typed => \A o \in Orders : book[o] \in Order /\ book[o].size \in Nat
BY MatchingAssumption DEF Typed, MatchingAssumption, Order

LEMMA MinOfTwo ==
  ASSUME NEW a \in Nat, NEW b \in Nat
  PROVE  Min({a, b}) \in Nat /\ Min({a, b}) <= a /\ Min({a, b}) <= b
<1>1. \E x \in {a, b} : \A y \in {a, b} : x <= y
  OBVIOUS
<1> QED
  BY <1>1 DEF Min

LEMMA AfterType ==
  \A p \in Types \ {"idle", "collecting", "moving"} :
    After(p) \in Types /\ After(p) \notin {"collecting", "moving"} /\ (p # "return" => After(p) # "idle")
<1>1. Phases \in Seq(Types) /\ Len(Phases) = 8 /\ Phases[8] = "return"
  BY DEF Phases, Types
<1> SUFFICES ASSUME NEW p \in Types \ {"idle", "collecting", "moving"}
             PROVE  /\ After(p) \in Types /\ After(p) \notin {"collecting", "moving"}
                    /\ p # "return" => After(p) # "idle"
  OBVIOUS
<1>2. \E j \in DOMAIN Phases : Phases[j] = p
  BY DEF Phases, Types
<1>3. PICK i \in 1..8 : i = CHOOSE j \in DOMAIN Phases : Phases[j] = p
  BY <1>1, <1>2
<1>4. After(p) = IF i = 8 THEN "idle" ELSE Phases[i + 1]
  BY <1>1, <1>3 DEF After
<1>5. \A j \in 1..8 : Phases[j] \in Types \ {"idle", "collecting", "moving"}
  <2>1. \A x \in {Phases[1], Phases[2], Phases[3], Phases[4], Phases[5], Phases[6], Phases[7],
                  Phases[8]} : x \in Types \ {"idle", "collecting", "moving"}
    BY DEF Phases, Types
  <2> QED
    BY <2>1
<1>6. i # 8 => i + 1 \in 1..8
  OBVIOUS
<1>7. Phases[i] = p
  BY <1>2, <1>3
<1> QED
  BY <1>1, <1>4, <1>5, <1>6, <1>7 DEF Types

\* The lists hang on the places; the outer loop's on the phase and what is gone as well.
LEMMA ListsSame ==
  ASSUME book' = book, place' = place
  PROVE  /\ InnerMembers' = InnerMembers
         /\ \A f \in Finders : phase'[f] = phase[f] /\ gone'[f] = gone[f]
                                => OuterMembers(f)' = OuterMembers(f)
BY DEF InnerMembers, OuterMembers, Resting, Taking, TakingOf, Listed

\* A step that leaves o where it is, except that it takes it out of the taking
\* orders; then g meets it still if it walks them.
Found(g, o) ==
  /\ place[o] \in {"restingLimit", "floatingLimit", "market"} => place'[o] = place[o]
  /\ place[o] = "takingLimit" /\ phase[g] \in {"takingAsks", "takingBids"}
       => place'[o] = place[o] \/ gone'[g][o] # None
  /\ gone[g][o] # None => gone'[g][o] # None

LEMMA ListsGrow ==
  ASSUME book' = book, NEW g \in Finders, phase'[g] = phase[g], \A o \in Orders : Found(g, o)
  PROVE  /\ InnerMembers \subseteq InnerMembers'
         /\ phase[g] \in Looping => OuterMembers(g) \subseteq OuterMembers(g)'
<1>1. \A side : Resting(side) \subseteq Resting(side)'
  BY DEF Resting, Listed, Found
<1>2. phase[g] \in {"takingAsks", "takingBids"} =>
        \A side : TakingOf(g, side) \subseteq TakingOf(g, side)'
  BY DEF TakingOf, Taking, Listed, Found
<1> QED
  BY <1>1, <1>2 DEF InnerMembers, OuterMembers, Looping

LEMMA MembersAreOrders ==
  /\ InnerMembers \subseteq Orders
  /\ \A f \in Finders : OuterMembers(f) \subseteq Orders
BY DEF InnerMembers, OuterMembers, Resting, Taking, TakingOf, Listed

LEMMA NodeTypeIsList ==
  ASSUME Typed, NEW o \in Orders, NEW s
  PROVE  GetNodeType(o, s) \in Lists
BY DEF GetNodeType, Lists

LEMMA NoneIsNoAmount == None \notin Nat /\ None \notin Orders /\ None \notin Lists
BY MatchingAssumption DEF MatchingAssumption

LEMMA ProducesType ==
  ASSUME NEW g \in Generators, NEW members \in SUBSET Orders, NEW anywhere,
         NEW o \in Produces(g, members, anywhere)
  PROVE  o \in members /\ Len(g.ready) < Ahead
BY DEF Produces, Best, Heads

\* A producer puts by an order of its list, and is never too far ahead.
LEMMA YieldType ==
  ASSUME NEW g \in Generators, NEW members \in SUBSET Orders, NEW o \in members, NEW amount,
         Len(g.ready) < Ahead
  PROVE  /\ Yield(g, o, amount) \in Generators
         /\ Yield(g, o, amount).passed = g.passed \cup {o}
         /\ Len(Yield(g, o, amount).ready) <= Ahead
         /\ (\A i \in 1..Len(g.ready) : g.ready[i] \in members) =>
              \A i \in 1..Len(Yield(g, o, amount).ready) : Yield(g, o, amount).ready[i] \in members
<1>1. g.ready \in Seq(Orders) /\ g.passed \in SUBSET Orders /\ Ahead \in Nat
  BY MatchingAssumption DEF Generators, MatchingAssumption
<1>2. CASE amount = book[o].size
  BY <1>1, <1>2 DEF Yield, Generators
<1>3. CASE amount # book[o].size
  <2>1. Yield(g, o, amount) = [passed |-> g.passed \cup {o}, ready |-> Append(g.ready, o)]
    BY <1>3 DEF Yield
  <2>2. Append(g.ready, o) \in Seq(Orders) /\ Len(Append(g.ready, o)) = Len(g.ready) + 1
    BY <1>1
  <2> QED
    BY <1>1, <2>1, <2>2 DEF Generators
<1> QED
  BY <1>2, <1>3

LEMMA NewGeneratorType ==
  NewGenerator \in Generators /\ NewGenerator.passed = {} /\ Len(NewGenerator.ready) = 0
BY DEF NewGenerator, Generators

\* What the consumer leaves of a generator.
LEMMA PopType ==
  ASSUME NEW g \in Generators, g.ready # <<>>
  PROVE  LET h == [g EXCEPT !.ready = Tail(@)]
         IN /\ h \in Generators /\ h.passed = g.passed
            /\ Len(h.ready) = Len(g.ready) - 1
            /\ \A i \in 1..Len(h.ready) : h.ready[i] = g.ready[i + 1]
            /\ Head(g.ready) = g.ready[1] /\ g.ready \in Seq(Orders)
<1> DEFINE h == [g EXCEPT !.ready = Tail(@)]
<1>1. h = [passed |-> g.passed, ready |-> Tail(g.ready)]
  BY SMTT(30) DEF Generators
<1>2. g.passed \in SUBSET Orders /\ g.ready \in Seq(Orders)
  BY DEF Generators
<1>3. /\ Tail(g.ready) \in Seq(Orders) /\ Len(Tail(g.ready)) = Len(g.ready) - 1
      /\ \A i \in 1..Len(Tail(g.ready)) : Tail(g.ready)[i] = g.ready[i + 1]
      /\ Head(g.ready) = g.ready[1]
  BY <1>2
<1>4. h \in Generators
  BY <1>1, <1>2, <1>3 DEF Generators
<1> QED
  BY <1>1, <1>2, <1>3, <1>4

-----------------------------------------------------------------------------
(* Types.                                                                  *)

\* What Look is about to write.
LEMMA LookType ==
  ASSUME Typed, MovesTyped, Bounded, NEW f \in Finders, Tidy(f), current[f] # None,
         inner[f].ready # <<>>, NEW has, NEW base, NEW pairs,
         has = Carried(f, current[f]),
         base = Min({Remaining(current[f], has),
                     Remaining(Head(inner[f].ready), filled[Head(inner[f].ready)])}),
         pairs = Pairs(phase[f], current[f], Head(inner[f].ready))
  PROVE  /\ current[f] \in Orders /\ Head(inner[f].ready) \in Orders
         /\ base \in Nat
         /\ NewAmount(has, base) \in Nat /\ Within(current[f], NewAmount(has, base))
         /\ NewAmount(filled[Head(inner[f].ready)], base) \in Nat
         /\ Within(Head(inner[f].ready), NewAmount(filled[Head(inner[f].ready)], base))
         /\ \A p \in pairs : p.node \in Orders /\ p.maker \in Orders
<1> DEFINE taker == current[f]
           maker == Head(inner[f].ready)
<1>1. taker \in Orders /\ maker \in Orders
  BY DEF Typed, Generators
<1>2. \A o \in {taker, maker} : book[o].size \in Nat /\ confirmed[o] \in Nat
  BY <1>1, BookTypes DEF Typed
<1>3. /\ has \in Nat /\ Within(taker, has)
      /\ filled[maker] \in Nat /\ Within(maker, filled[maker])
  BY <1>1, NoneIsNoAmount DEF Typed, MovesTyped, Bounded, Carried
<1> HIDE DEF taker, maker
<1>4. Remaining(taker, has) \in Nat /\ Remaining(maker, filled[maker]) \in Nat
  BY <1>2, <1>3 DEF Remaining, Within
<1>5. base \in Nat /\ base <= Remaining(taker, has) /\ base <= Remaining(maker, filled[maker])
  BY <1>4, MinOfTwo DEF taker, maker
<1>6. /\ NewAmount(has, base) \in Nat /\ Within(taker, NewAmount(has, base))
      /\ NewAmount(filled[maker], base) \in Nat /\ Within(maker, NewAmount(filled[maker], base))
  <2>1. NewAmount(has, base) \in Nat /\ Within(taker, NewAmount(has, base))
    BY <1>2, <1>3, <1>5 DEF NewAmount, Within, Remaining
  <2>2. NewAmount(filled[maker], base) \in Nat /\ Within(maker, NewAmount(filled[maker], base))
    BY <1>2, <1>3, <1>5 DEF NewAmount, Within, Remaining
  <2> QED
    BY <2>1, <2>2
<1>7. \A p \in pairs : p.node \in Orders /\ p.maker \in Orders
  <2>1. \A p \in Pairs(phase[f], taker, maker) : p.node \in {taker, maker} /\ p.maker \in {taker, maker}
    BY DEF Pairs, DetermineMakerAndTaker
  <2> QED
    BY <1>1, <2>1 DEF taker, maker
<1> QED
  BY <1>1, <1>5, <1>6, <1>7 DEF taker, maker

LEMMA LookStep ==
  ASSUME MatchingInv, NEW f \in Finders, Look(f)
  PROVE  /\ Typed' /\ Bounded'
         /\ \/ current'[f] = None /\ inner'[f] = NewGenerator
            \/ current'[f] = current[f] /\ inner'[f].passed = inner[f].passed
               /\ Len(inner'[f].ready) <= Ahead
         /\ \A g \in Finders : g # f => current'[g] = current[g] /\ inner'[g] = inner[g]
                                        /\ writes'[g] = writes[g]
<1> USE DEF MatchingInv
<1> DEFINE taker == current[f]
           maker == Head(inner[f].ready)
           has == Carried(f, taker)
           base == Min({Remaining(taker, has), Remaining(maker, filled[maker])})
           pairs == Pairs(phase[f], taker, maker)
           new == <<[o |-> maker, amount |-> NewAmount(filled[maker], base)],
                    [o |-> taker, amount |-> NewAmount(has, base)]>>
<1>1. /\ current[f] # None /\ inner[f].ready # <<>> /\ writes[f] = <<>>
      /\ UNCHANGED <<book, confirmed, filled, maxSlot, place, due, hand, gone, loose, ended,
                     phase, slot, outer, offered>>
  BY DEF Look, moveVars
<1>2. /\ taker \in Orders /\ maker \in Orders /\ base \in Nat
      /\ NewAmount(has, base) \in Nat /\ Within(taker, NewAmount(has, base))
      /\ NewAmount(filled[maker], base) \in Nat /\ Within(maker, NewAmount(filled[maker], base))
      /\ \A p \in pairs : p.node \in Orders /\ p.maker \in Orders
  BY <1>1, LookType
<1>3. CASE Stops(phase[f], taker, maker)
  <2>1. LeaveInner(f) /\ UNCHANGED <<writes, found>>
    BY <1>3 DEF Look
  <2>2. Typed'
    BY <1>1, <2>1, NewGeneratorType DEF Typed, LeaveInner
  <2>3. Bounded'
    BY <1>1, <2>1 DEF Bounded, Within
  <2> QED
    BY <2>1, <2>2, <2>3 DEF LeaveInner, Typed
<1>4. CASE ~Stops(phase[f], taker, maker)
  <2>1. /\ inner' = [inner EXCEPT ![f].ready = Tail(@)] /\ current' = current
        /\ found' = [found EXCEPT ![f] = @ \cup
                {[node |-> p.node, maker |-> p.maker, base |-> base] : p \in pairs}]
        /\ writes' = IF pairs = {} THEN writes ELSE [writes EXCEPT ![f] = new]
    BY <1>4 DEF Look
  <2> HIDE DEF taker, maker, has, base, pairs
  <2>2. Tail(inner[f].ready) \in Seq(Orders)
        /\ Len(Tail(inner[f].ready)) = Len(inner[f].ready) - 1
    BY <1>1 DEF Typed, Generators
  <2>3. /\ inner' \in [Finders -> Generators]
        /\ inner'[f].passed = inner[f].passed /\ Len(inner'[f].ready) <= Ahead
    <3>1. inner'[f] = [inner[f] EXCEPT !.ready = Tail(@)]
          /\ \A g \in Finders : g # f => inner'[g] = inner[g]
      BY <2>1 DEF Typed
    <3>2. inner'[f] = [passed |-> inner[f].passed, ready |-> Tail(inner[f].ready)]
      BY <3>1 DEF Typed, Generators
    <3>3. inner'[f] \in Generators
      BY <2>2, <3>2 DEF Typed, Generators
    <3>4. Len(inner'[f].ready) <= Ahead
      BY <2>2, <3>2, MatchingAssumption DEF Tidy, Typed, Generators, MatchingAssumption
    <3> QED
      BY <2>1, <3>1, <3>2, <3>3, <3>4 DEF Typed
  <2>4. found' \in [Finders -> SUBSET Matches]
    BY <1>2, <2>1 DEF Typed, Matches
  <2>5. new \in Seq(Amounts) /\ Len(new) = 2
    BY <1>2 DEF Amounts
  <2>6. \A i \in 1..2 : Within(new[i].o, new[i].amount)
    BY <1>2
  <2> HIDE DEF new
  <2>7. /\ writes' \in [Finders -> Seq(Amounts)]
        /\ \A g \in Finders : writes'[g] = writes[g] \/ writes'[g] = new
        /\ \A g \in Finders : g # f => writes'[g] = writes[g]
    BY <2>1, <2>5 DEF Typed
  <2>8. Typed'
    BY <1>1, <2>1, <2>3, <2>4, <2>7 DEF Typed
  <2>9. \A g \in Finders : \A i \in 1..Len(writes'[g]) :
          Within(writes'[g][i].o, writes'[g][i].amount)
    BY <2>5, <2>6, <2>7 DEF Bounded
  <2>10. Bounded'
    BY <1>1, <2>9 DEF Bounded, Within
  <2> QED
    BY <2>1, <2>3, <2>7, <2>8, <2>10
<1> QED
  BY <1>3, <1>4

\* A write that is due, at the list of its slot or not.
LEMMA WriteStep ==
  ASSUME MatchingInv, NEW f \in Finders, Write(f)
  PROVE  Typed' /\ Bounded'
<1> USE DEF MatchingInv
<1> DEFINE w == Head(writes[f])
<1>1. writes[f] \in Seq(Amounts) /\ writes[f] # <<>>
  BY DEF Write, Typed
<1>2. w \in Amounts /\ w = writes[f][1] /\ 1 \in 1..Len(writes[f])
  BY <1>1
<1>3. w.o \in Orders /\ w.amount \in Nat /\ Within(w.o, w.amount)
  BY <1>2 DEF Bounded, Amounts
<1>4. filled' \in {filled, [filled EXCEPT ![w.o] = w.amount]}
  BY DEF Write
<1>5. /\ writes' = [writes EXCEPT ![f] = Tail(@)]
      /\ UNCHANGED <<book, confirmed, maxSlot, place, due, hand, gone, loose, ended,
                     phase, slot, outer, found, offered>>
      /\ LeaveInner(f) \/ UNCHANGED <<current, inner>>
  BY DEF Write, moveVars
<1> HIDE DEF w
<1>6. Typed'
  <2>1. filled' \in [Orders -> Nat]
    BY <1>3, <1>4 DEF Typed
  <2>2. writes' \in [Finders -> Seq(Amounts)]
    BY <1>1, <1>5 DEF Typed
  <2>3. current' \in [Finders -> Orders \cup {None}] /\ inner' \in [Finders -> Generators]
    BY <1>5, NewGeneratorType DEF Typed, LeaveInner
  <2> QED
    BY <1>5, <2>1, <2>2, <2>3 DEF Typed
<1>7. \A o \in Orders : Within(o, filled'[o])
  BY <1>3, <1>4 DEF Bounded, Typed
<1>8. ASSUME NEW g \in Finders, NEW i \in 1..Len(writes'[g])
      PROVE  Within(writes'[g][i].o, writes'[g][i].amount)
  <2>1. CASE g # f
    <3>1. writes'[g] = writes[g]
      BY <2>1, <1>5 DEF Typed
    <3> QED
      BY <1>8, <3>1 DEF Bounded
  <2>2. CASE g = f
    <3>1. writes'[g] = Tail(writes[f])
      BY <2>2, <1>5 DEF Typed
    <3>2. i + 1 \in 1..Len(writes[f]) /\ writes'[g][i] = writes[f][i + 1]
      BY <3>1, <1>1
    <3> QED
      BY <3>2 DEF Bounded
  <2> QED
    BY <2>1, <2>2
<1>9. Bounded'
  BY <1>5, <1>7, <1>8 DEF Bounded, Within
<1> QED
  BY <1>6, <1>9

\* The chain writes only while nobody has anything left to write.
LEMMA UpdateStep ==
  ASSUME MatchingInv, NEW o \in Orders, NEW amount \in 0..book[o].size - 1, Update(o, amount)
  PROVE  Typed' /\ Bounded'
<1> USE DEF MatchingInv
<1>1. /\ amount \in Nat /\ amount <= book[o].size
      /\ confirmed' = [confirmed EXCEPT ![o] = amount]
      /\ filled' = [filled EXCEPT ![o] = amount]
      /\ UNCHANGED <<book, maxSlot, place, due, hand, gone, loose, ended, phase, slot, outer,
                     current, inner, writes, found, offered>>
  BY BookTypes DEF Update, moveVars
<1>2. \A f \in Finders : writes[f] = <<>> /\ \A x \in Orders : gone[f][x] = None
  BY DEF Update, Tidy, Looping, MovesInv, Walking
<1>3. Typed'
  BY <1>1 DEF Typed
<1>4. \A x \in Orders : Within(x, filled[x])' 
  BY <1>1 DEF Bounded, Within, Typed
<1>5. Bounded'
  BY <1>1, <1>2, <1>4 DEF Bounded
<1> QED
  BY <1>3, <1>5

\* The rest moves neither an amount nor a write.
LEMMA OtherSteps ==
  ASSUME MatchingInv, NEW f \in Finders,
         \/ \E s \in SearchSlots : Search(f, s)
         \/ ProduceOuter(f) \/ ProduceInner(f) \/ Take(f) \/ EndInner(f) \/ EndOuter(f)
         \/ Offer(f) \/ Return(f)
  PROVE  Typed' /\ Bounded'
<1> USE DEF MatchingInv
<1>1. /\ UNCHANGED <<book, confirmed, filled, writes, place, due, hand, ended>>
      /\ UNCHANGED <<gone, loose>> \/ Forget(f)
  BY DEF Search, ProduceOuter, ProduceInner, Take, EndInner, EndOuter, Offer, Return, moveVars
<1>2. \A g \in Finders, o \in Orders : gone'[g][o] # None => gone'[g][o] = gone[g][o]
  <2>1. CASE gone' = gone
    BY <2>1
  <2>2. CASE Forget(f)
    BY <2>2 DEF Forget, MovesTyped
  <2> QED
    BY <1>1, <2>1, <2>2
<1>11. Bounded'
  BY <1>1, <1>2 DEF Bounded, Within
<1> SUFFICES Typed'
  BY <1>11
<1>3. ASSUME NEW s \in SearchSlots, Search(f, s) PROVE Typed'
  <2>1. s \in Nat /\ {"crossing", "collecting"} \subseteq Types
    BY MatchingAssumption DEF MatchingAssumption, Types
  <2> QED
    BY <1>1, <1>3, <2>1 DEF Search, Typed
<1>4. CASE ProduceOuter(f)
  <2>1. PICK o \in Produces(outer[f], OuterMembers(f), loose[f]) :
          outer' = [outer EXCEPT ![f] = Yield(@, o, Carried(f, o))]
    BY <1>4 DEF ProduceOuter
  <2>2. Yield(outer[f], o, Carried(f, o)) \in Generators
    <3>1. outer[f] \in Generators /\ OuterMembers(f) \in SUBSET Orders
      BY MembersAreOrders DEF Typed
    <3>2. o \in Orders /\ Len(outer[f].ready) < Ahead
      BY <2>1, <3>1, ProducesType
    <3> QED
      BY <3>1, <3>2, YieldType
  <2> QED
    BY <1>1, <1>4, <2>1, <2>2 DEF ProduceOuter, Typed
<1>5. CASE ProduceInner(f)
  <2>1. PICK o \in Produces(inner[f], InnerMembers, loose[f]) :
          inner' = [inner EXCEPT ![f] = Yield(@, o, filled[o])]
    BY <1>5 DEF ProduceInner
  <2>2. Yield(inner[f], o, filled[o]) \in Generators
    <3>1. inner[f] \in Generators /\ InnerMembers \in SUBSET Orders
      BY MembersAreOrders DEF Typed
    <3>2. o \in Orders /\ Len(inner[f].ready) < Ahead
      BY <2>1, <3>1, ProducesType
    <3> QED
      BY <3>1, <3>2, YieldType
  <2> QED
    BY <1>1, <1>5, <2>1, <2>2 DEF ProduceInner, Typed
<1>6. CASE Take(f)
  <2>1. Head(outer[f].ready) \in Orders /\ Tail(outer[f].ready) \in Seq(Orders)
    BY <1>6 DEF Take, Typed, Generators
  <2>2. [outer[f] EXCEPT !.ready = Tail(@)] \in Generators
    BY <1>6, PopType DEF Take, Typed
  <2>3. outer' \in [Finders -> Generators]
    BY <1>6, <2>2 DEF Take, Typed
  <2> QED
    BY <1>1, <1>6, <2>1, <2>3, NewGeneratorType DEF Take, Typed
<1>7. CASE EndInner(f)
  BY <1>1, <1>7, NewGeneratorType DEF EndInner, LeaveInner, Typed
<1>8. CASE EndOuter(f)
  <2>1. After(phase[f]) \in Types
    BY <1>8, AfterType DEF EndOuter, Typed, Looping
  <2> QED
    BY <1>1, <1>8, <2>1, NewGeneratorType DEF EndOuter, Typed
<1>9. CASE Offer(f)
  <2>1. After(phase[f]) \in Types
    BY <1>9, AfterType DEF Offer, Typed, Looping
  <2>2. FallbackOrders(f) \subseteq Orders
    BY <1>9 DEF Offer, Typed, Types, Looping, FallbackOrders, Resting, Taking, Listed
  <2> QED
    BY <1>1, <1>9, <2>1, <2>2 DEF Offer, Typed
<1>10. CASE Return(f)
  <2>1. "idle" \in Types
    BY DEF Types
  <2> QED
    BY <1>1, <1>10, <2>1 DEF Return, Typed
<1> QED
  BY <1>3, <1>4, <1>5, <1>6, <1>7, <1>8, <1>9, <1>10

\* Who moves orders writes no amount; what a walk may still find in a node that
\* is gone was the order's when it was removed.
LEMMA MoverSteps ==
  ASSUME MatchingInv, NEW f \in Finders,
         Collect(f) \/ RemoveDue(f) \/ InsertDue(f) \/ Moved(f)
  PROVE  Typed' /\ Bounded'
<1> USE DEF MatchingInv
<1>1. UNCHANGED <<book, confirmed, filled, maxSlot, slot, outer, current, inner, writes, found,
                  offered>>
  BY DEF Collect, RemoveDue, InsertDue, Moved, moveVars
<1>2. phase' \in [Finders -> Types]
  BY DEF Collect, RemoveDue, InsertDue, Moved, Typed, Types
<1>3. \A g \in Finders, o \in Orders : gone'[g][o] # None => gone'[g][o] \in {gone[g][o], filled[o]}
  <2>1. CASE Collect(f)
    BY <2>1 DEF Collect, Forget, MovesTyped
  <2>2. CASE RemoveDue(f)
    BY <2>2 DEF RemoveDue, MovesTyped
  <2>3. CASE InsertDue(f) \/ Moved(f)
    BY <2>3 DEF InsertDue, Moved, moveVars
  <2> QED
    BY <2>1, <2>2, <2>3
<1>4. Typed'
  BY <1>1, <1>2 DEF Typed
<1>5. Bounded'
  BY <1>1, <1>3 DEF Bounded, Within
<1> QED
  BY <1>4, <1>5

-----------------------------------------------------------------------------
(* Tidiness.                                                               *)

\* A search is as tidy as before if nothing of it has moved.
LEMMA OthersTidy ==
  ASSUME NEW g \in Finders, Tidy(g), book' = book, place' = place, gone'[g] = gone[g],
         phase'[g] = phase[g], current'[g] = current[g], inner'[g] = inner[g],
         outer'[g] = outer[g], writes'[g] = writes[g]
  PROVE  Tidy(g)'
<1>1. InnerMembers' = InnerMembers /\ OuterMembers(g)' = OuterMembers(g)
  BY ListsSame
<1> QED
  BY <1>1 DEF Tidy, NewGenerator

\* A search is tidy once nothing is in hand.
LEMMA LeftTidy ==
  ASSUME NEW f \in Finders, Tidy(f), book' = book, place' = place, gone'[f] = gone[f],
         phase'[f] = phase[f], outer'[f] = outer[f], phase[f] \in Looping,
         current'[f] = None, inner'[f] = NewGenerator
  PROVE  Tidy(f)'
<1>1. InnerMembers' = InnerMembers /\ OuterMembers(f)' = OuterMembers(f)
  BY ListsSame
<1> QED
  BY <1>1, NewGeneratorType, MatchingAssumption DEF Tidy, NewGenerator, MatchingAssumption

\* ... also when the phase ends.
LEMMA EndedTidy ==
  ASSUME NEW f \in Finders, current'[f] = None, inner'[f] = NewGenerator, writes'[f] = <<>>,
         outer'[f] = NewGenerator
  PROVE  Tidy(f)'
BY NewGeneratorType, MatchingAssumption DEF Tidy, NewGenerator, MatchingAssumption

LEMMA TidyAfterProduce ==
  ASSUME MatchingInv, NEW f \in Finders, ProduceOuter(f) \/ ProduceInner(f)
  PROVE  \A g \in Finders : Tidy(g)'
<1> USE DEF MatchingInv
<1>1. UNCHANGED <<book, place, gone, phase, current, writes>>
  BY DEF ProduceOuter, ProduceInner, moveVars
<1>2. InnerMembers' = InnerMembers /\ \A g \in Finders : OuterMembers(g)' = OuterMembers(g)
  BY <1>1, ListsSame
<1>3. CASE ProduceOuter(f)
  <2>1. PICK o \in Produces(outer[f], OuterMembers(f), loose[f]) :
          outer' = [outer EXCEPT ![f] = Yield(@, o, Carried(f, o))]
    BY <1>3 DEF ProduceOuter
  <2>2. /\ Len(Yield(outer[f], o, Carried(f, o)).ready) <= Ahead
        /\ \A i \in 1..Len(Yield(outer[f], o, Carried(f, o)).ready) :
             Yield(outer[f], o, Carried(f, o)).ready[i] \in OuterMembers(f)
    <3>1. /\ outer[f] \in Generators /\ OuterMembers(f) \in SUBSET Orders
          /\ Len(outer[f].ready) <= Ahead
          /\ \A i \in 1..Len(outer[f].ready) : outer[f].ready[i] \in OuterMembers(f)
      BY MembersAreOrders DEF Typed, Tidy
    <3>2. o \in OuterMembers(f) /\ Len(outer[f].ready) < Ahead
      BY <2>1, <3>1, ProducesType
    <3> QED
      BY <3>1, <3>2, YieldType
  <2>3. outer'[f] = Yield(outer[f], o, Carried(f, o)) /\ \A g \in Finders : g # f => outer'[g] = outer[g]
    BY <2>1 DEF Typed
  <2>4. inner' = inner /\ phase[f] \in Looping
    BY <1>3 DEF ProduceOuter
  <2>5. Tidy(f)'
    BY <1>1, <1>2, <2>2, <2>3, <2>4 DEF Tidy, NewGenerator
  <2> QED
    BY <1>1, <2>3, <2>4, <2>5, OthersTidy
<1>4. CASE ProduceInner(f)
  <2>1. PICK o \in Produces(inner[f], InnerMembers, loose[f]) :
          inner' = [inner EXCEPT ![f] = Yield(@, o, filled[o])]
    BY <1>4 DEF ProduceInner
  <2>2. /\ Len(Yield(inner[f], o, filled[o]).ready) <= Ahead
        /\ Yield(inner[f], o, filled[o]).passed \subseteq InnerMembers
    <3>1. /\ inner[f] \in Generators /\ InnerMembers \in SUBSET Orders
          /\ Len(inner[f].ready) <= Ahead /\ inner[f].passed \subseteq InnerMembers
      BY MembersAreOrders DEF Typed, Tidy
    <3>2. /\ Len(Yield(inner[f], o, filled[o]).ready) <= Ahead /\ o \in InnerMembers
          /\ Yield(inner[f], o, filled[o]).passed = inner[f].passed \cup {o}
      <4>1. o \in InnerMembers /\ Len(inner[f].ready) < Ahead
        BY <2>1, <3>1, ProducesType
      <4> QED
        BY <3>1, <4>1, YieldType
    <3> QED
      BY <3>1, <3>2
  <2>3. inner'[f] = Yield(inner[f], o, filled[o]) /\ \A g \in Finders : g # f => inner'[g] = inner[g]
    BY <2>1 DEF Typed
  <2>4. outer' = outer /\ current[f] # None
    BY <1>4 DEF ProduceInner
  <2>5. Tidy(f)'
    BY <1>1, <1>2, <2>2, <2>3, <2>4 DEF Tidy, NewGenerator
  <2> QED
    BY <1>1, <2>3, <2>4, <2>5, OthersTidy
<1> QED
  BY <1>3, <1>4

LEMMA TidyAfterTake ==
  ASSUME MatchingInv, NEW f \in Finders, Take(f)
  PROVE  \A g \in Finders : Tidy(g)'
<1> USE DEF MatchingInv
<1>1. /\ UNCHANGED <<book, place, gone, phase, writes>> /\ phase[f] \in Looping
      /\ outer[f].ready # <<>> /\ outer[f] \in Generators
  BY DEF Take, Typed, moveVars
<1>2. InnerMembers' = InnerMembers /\ \A g \in Finders : OuterMembers(g)' = OuterMembers(g)
  BY <1>1, ListsSame
<1>3. /\ current'[f] = Head(outer[f].ready) /\ inner'[f] = NewGenerator
      /\ outer'[f] = [outer[f] EXCEPT !.ready = Tail(@)]
      /\ \A g \in Finders : g # f => /\ current'[g] = current[g] /\ inner'[g] = inner[g]
                                     /\ outer'[g] = outer[g]
  BY DEF Take, Typed
<1>4. /\ Len(outer'[f].ready) = Len(outer[f].ready) - 1
      /\ \A i \in 1..Len(outer'[f].ready) : outer'[f].ready[i] = outer[f].ready[i + 1]
      /\ Head(outer[f].ready) = outer[f].ready[1] /\ outer[f].ready \in Seq(Orders)
  <2> DEFINE h == [outer[f] EXCEPT !.ready = Tail(@)]
  <2>1. /\ Len(h.ready) = Len(outer[f].ready) - 1
        /\ \A i \in 1..Len(h.ready) : h.ready[i] = outer[f].ready[i + 1]
        /\ Head(outer[f].ready) = outer[f].ready[1] /\ outer[f].ready \in Seq(Orders)
    BY <1>1, PopType
  <2>2. outer'[f] = h
    BY <1>3
  <2> HIDE DEF h
  <2> QED
    BY <2>1, <2>2
<1>5. Head(outer[f].ready) \in OuterMembers(f)
  BY <1>1, <1>4 DEF Tidy
<1>6. \A i \in 1..Len(outer'[f].ready) : outer'[f].ready[i] \in OuterMembers(f)
  BY <1>4 DEF Tidy
<1>7. Len(outer'[f].ready) <= Ahead
  BY <1>4, MatchingAssumption DEF Tidy, MatchingAssumption
<1>8. Tidy(f)'
  <2>1. /\ inner'[f].passed = {} /\ inner'[f].ready = <<>> /\ Len(<<>>) <= Ahead
        /\ writes'[f] = writes[f] /\ phase'[f] = phase[f] /\ current'[f] \in OuterMembers(f)
    BY <1>1, <1>3, <1>5, MatchingAssumption DEF NewGenerator, MatchingAssumption
  <2>2. OuterMembers(f)' = OuterMembers(f)
    BY <1>2
  <2> QED
    BY <1>1, <1>2, <1>3, <1>6, <1>7, <2>1, <2>2 DEF Tidy
<1> QED
  BY <1>1, <1>3, <1>8, OthersTidy

LEMMA TidyAfterLook ==
  ASSUME MatchingInv, NEW f \in Finders, Look(f)
  PROVE  \A g \in Finders : Tidy(g)'
<1> USE DEF MatchingInv
<1>1. /\ UNCHANGED <<book, place, gone, phase, outer>> /\ current[f] # None
  BY DEF Look, moveVars
<1>2. phase[f] \in Looping
  BY <1>1 DEF Tidy
<1>3. InnerMembers' = InnerMembers /\ \A g \in Finders : OuterMembers(g)' = OuterMembers(g)
  BY <1>1, ListsSame
<1>4. \/ current'[f] = None /\ inner'[f] = NewGenerator
      \/ /\ current'[f] = current[f] /\ inner'[f].passed = inner[f].passed
         /\ Len(inner'[f].ready) <= Ahead
  BY LookStep
<1>5. Tidy(f)'
  <2>1. CASE current'[f] = None /\ inner'[f] = NewGenerator
    BY <2>1, <1>1, <1>2, LeftTidy
  <2>2. CASE /\ current'[f] = current[f] /\ inner'[f].passed = inner[f].passed
             /\ Len(inner'[f].ready) <= Ahead
    BY <2>2, <1>1, <1>2, <1>3 DEF Tidy
  <2> QED
    BY <1>4, <2>1, <2>2
<1> QED
  BY <1>1, <1>5, LookStep, OthersTidy

LEMMA TidyAfterWrite ==
  ASSUME MatchingInv, NEW f \in Finders, Write(f)
  PROVE  \A g \in Finders : Tidy(g)'
<1> USE DEF MatchingInv
<1>1. /\ UNCHANGED <<book, place, gone, phase, outer>> /\ writes[f] # <<>>
      /\ \A g \in Finders : g # f => writes'[g] = writes[g]
      /\ LeaveInner(f) \/ UNCHANGED <<current, inner>>
  BY DEF Write, Typed, moveVars
<1>2. phase[f] \in Looping
  BY <1>1 DEF Tidy
<1>3. CASE LeaveInner(f)
  <2>1. /\ current'[f] = None /\ inner'[f] = NewGenerator
        /\ \A g \in Finders : g # f => current'[g] = current[g] /\ inner'[g] = inner[g]
    BY <1>3 DEF LeaveInner, Typed
  <2> QED
    BY <1>1, <1>2, <2>1, LeftTidy, OthersTidy
<1>4. CASE UNCHANGED <<current, inner>>
  <2>1. InnerMembers' = InnerMembers /\ OuterMembers(f)' = OuterMembers(f)
    BY <1>1, ListsSame
  <2>2. Tidy(f)'
    BY <1>1, <1>2, <1>4, <2>1 DEF Tidy, NewGenerator
  <2> QED
    BY <1>1, <1>4, <2>2, OthersTidy
<1> QED
  BY <1>1, <1>3, <1>4

LEMMA TidyAfterEnds ==
  ASSUME MatchingInv, NEW f \in Finders, EndInner(f) \/ EndOuter(f) \/ Offer(f) \/ Return(f)
  PROVE  \A g \in Finders : Tidy(g)'
<1> USE DEF MatchingInv
<1>1. /\ UNCHANGED <<book, writes, place>>
      /\ \A g \in Finders : g # f => gone'[g] = gone[g]
  BY DEF EndInner, EndOuter, Offer, Return, Forget, MovesTyped, moveVars
<1>2. CASE EndInner(f)
  <2>1. /\ UNCHANGED <<phase, outer, gone>> /\ current[f] # None
        /\ current'[f] = None /\ inner'[f] = NewGenerator
        /\ \A g \in Finders : g # f => current'[g] = current[g] /\ inner'[g] = inner[g]
    BY <1>2 DEF EndInner, LeaveInner, Typed, moveVars
  <2>2. phase[f] \in Looping
    BY <2>1 DEF Tidy
  <2> QED
    BY <1>1, <2>1, <2>2, LeftTidy, OthersTidy
<1>3. CASE EndOuter(f) \/ Offer(f) \/ Return(f)
  <2>1. /\ UNCHANGED <<current, inner>>
        /\ \A g \in Finders : g # f => phase'[g] = phase[g] /\ outer'[g] = outer[g]
    BY <1>3 DEF EndOuter, Offer, Return, Typed
  <2>2. current[f] = None /\ writes[f] = <<>>
    BY <1>3 DEF EndOuter, Offer, Return, Tidy, Looping
  <2>3. outer'[f] = NewGenerator
    BY <1>3 DEF EndOuter, Offer, Return, Tidy, Looping, Typed
  <2>4. inner[f] = NewGenerator
    BY <2>2 DEF Tidy
  <2>5. Tidy(f)'
    BY <1>1, <2>1, <2>2, <2>3, <2>4, EndedTidy
  <2> QED
    BY <1>1, <2>1, <2>5, OthersTidy
<1> QED
  BY <1>2, <1>3

\* Between two searches, and while it moves orders, a search has no loop.
LEMMA OutsideTidy ==
  ASSUME NEW f \in Finders, Tidy(f), phase[f] \notin Looping,
         UNCHANGED <<outer, current, inner, writes>>
  PROVE  Tidy(f)'
<1>1. current[f] = None /\ writes[f] = <<>> /\ outer[f] = NewGenerator
  BY DEF Tidy
<1>2. inner[f] = NewGenerator
  BY <1>1 DEF Tidy
<1> QED
  BY <1>1, <1>2, EndedTidy

LEMMA TidyAfterSearch ==
  ASSUME MatchingInv, NEW f \in Finders, NEW s \in SearchSlots, Search(f, s)
  PROVE  \A g \in Finders : Tidy(g)'
<1> USE DEF MatchingInv
<1>1. /\ UNCHANGED <<book, outer, current, inner, writes, place, gone>> /\ phase[f] = "idle"
      /\ \A g \in Finders : g # f => phase'[g] = phase[g]
  BY DEF Search, Typed, moveVars
<1>2. Tidy(f)'
  BY <1>1, OutsideTidy DEF Looping
<1> QED
  BY <1>1, <1>2, OthersTidy

\* Orders are moved under the walks of the others, which lose none of them.
LEMMA TidyAfterMoves ==
  ASSUME MatchingInv, NEW f \in Finders,
         Collect(f) \/ RemoveDue(f) \/ InsertDue(f) \/ Moved(f)
  PROVE  \A g \in Finders : Tidy(g)'
<1> USE DEF MatchingInv
<1>1. /\ UNCHANGED <<book, outer, current, inner, writes>>
      /\ \A g \in Finders : g # f => phase'[g] = phase[g]
  BY DEF Collect, RemoveDue, InsertDue, Moved, Typed, MovesTyped
<1>2. /\ phase[f] \in {"collecting", "moving"} \/ hand[f] # None \/ due[f] # {}
  BY DEF Collect, RemoveDue, InsertDue, Moved
<1>3. phase[f] \notin Looping
  BY <1>2 DEF MovesInv, Looping
<1>4. Tidy(f)'
  BY <1>1, <1>3, OutsideTidy
<1>5. ASSUME NEW g \in Finders, g # f, phase[g] \in Looping PROVE Tidy(g)'
  <2>1. \A o \in Orders : Found(g, o)
    <3>1. CASE Collect(f) \/ Moved(f)
      BY <1>5, <3>1 DEF Found, Collect, Moved, Forget, moveVars, Typed, MovesTyped
    <3>2. CASE InsertDue(f)
      <4>1. /\ hand[f] \in Orders /\ gone' = gone
            /\ place' = [place EXCEPT ![hand[f]] = IF @ = None THEN "restingLimit" ELSE @]
        BY <3>2 DEF InsertDue, Typed, MovesTyped
      <4>2. \A o \in Orders : place[o] # None => place'[o] = place[o]
        BY <4>1 DEF Typed, MovesTyped
      <4> QED
        BY <4>1, <4>2, NoneIsNoAmount DEF Found, Lists
    <3>3. CASE RemoveDue(f)
      <4> DEFINE Walks(o) == {h \in Finders \ {f} :
                    phase[h] \in {"collecting", "takingAsks", "takingBids"} /\ place[o] = "takingLimit"}
      <4>1. PICK o \in due[f] :
              /\ place' = [place EXCEPT ![o] = IF @ = "takingLimit" THEN None ELSE @]
              /\ gone' = [h \in Finders |-> IF h \in Walks(o) THEN [gone[h] EXCEPT ![o] = filled[o]]
                                                              ELSE gone[h]]
        BY <3>3 DEF RemoveDue
      <4>2. o \in Orders /\ filled[o] # None
        BY NoneIsNoAmount DEF Typed, MovesTyped
      <4>3. \A x \in Orders : /\ x # o => place'[x] = place[x]
                              /\ place[x] # "takingLimit" => place'[x] = place[x]
        BY <4>1 DEF Typed, MovesTyped
      <4>4. \A x \in Orders : gone'[g][x] = IF g \in Walks(o) /\ x = o THEN filled[o] ELSE gone[g][x]
        BY <4>1 DEF Typed, MovesTyped
      <4>5. place[o] = "takingLimit" /\ phase[g] \in {"takingAsks", "takingBids"} => g \in Walks(o)
        BY <1>5
      <4> HIDE DEF Walks
      <4> QED
        BY <4>2, <4>3, <4>4, <4>5 DEF Found
    <3> QED
      BY <3>1, <3>2, <3>3
  <2>2. book' = book /\ phase'[g] = phase[g]
    BY <1>1, <1>5
  <2>3. InnerMembers \subseteq InnerMembers' /\ OuterMembers(g) \subseteq OuterMembers(g)'
    BY <1>5, <2>1, <2>2, ListsGrow
  <2> QED
    BY <1>1, <1>5, <2>3 DEF Tidy
<1> QED
  BY <1>1, <1>4, <1>5, OutsideTidy

-----------------------------------------------------------------------------
(* What moves leave.                                                       *)

LEMMA MovesTypedKept ==
  ASSUME MatchingInv, [Next]_vars
  PROVE  MovesTyped'
<1> USE DEF MatchingInv
<1>1. ASSUME NEW f \in Finders, Collect(f) PROVE MovesTyped'
  <2>1. PICK os \in SUBSET Orders : due' = [due EXCEPT ![f] = os]
    BY <1>1 DEF Collect
  <2> QED
    BY <1>1, <2>1 DEF Collect, Forget, MovesTyped
<1>2. ASSUME NEW f \in Finders, RemoveDue(f) PROVE MovesTyped'
  <2>1. PICK o \in due[f], walking \in SUBSET Finders :
          /\ place' = [place EXCEPT ![o] = IF @ = "takingLimit" THEN None ELSE @]
          /\ due' = [due EXCEPT ![f] = @ \ {o}]
          /\ hand' = [hand EXCEPT ![f] = o]
          /\ gone' = [g \in Finders |-> IF g \in walking THEN [gone[g] EXCEPT ![o] = filled[o]]
                                                          ELSE gone[g]]
          /\ loose' = [g \in Finders |-> loose[g] \/ g \in walking]
          /\ ended' = ended
    BY <1>2 DEF RemoveDue
  <2>2. o \in Orders /\ filled[o] \in Nat
    BY DEF Typed, MovesTyped
  <2> QED
    BY <2>1, <2>2 DEF MovesTyped
<1>3. ASSUME NEW f \in Finders, InsertDue(f) PROVE MovesTyped'
  <2>1. /\ hand[f] \in Orders /\ UNCHANGED <<due, gone, ended>>
        /\ place' = [place EXCEPT ![hand[f]] = IF @ = None THEN "restingLimit" ELSE @]
        /\ hand' = [hand EXCEPT ![f] = None]
        /\ loose' \in [Finders -> BOOLEAN]
    BY <1>3 DEF InsertDue, MovesTyped
  <2> QED
    BY <2>1 DEF MovesTyped, Lists
<1>4. ASSUME NEW f \in Finders, EndOuter(f) PROVE MovesTyped'
  BY <1>4 DEF EndOuter, Forget, MovesTyped
<1>5. ASSUME NEW f, NEW g, Race(f, g) PROVE MovesTyped'
  BY <1>5 DEF Race, MovesTyped
<1>6. ASSUME UNCHANGED moveVars PROVE MovesTyped'
  BY <1>6 DEF MovesTyped, moveVars
<1>7. ASSUME NEW f \in Finders,
             \/ \E s \in SearchSlots : Search(f, s)
             \/ Moved(f) \/ ProduceOuter(f) \/ ProduceInner(f) \/ Take(f) \/ Look(f) \/ Write(f)
             \/ EndInner(f) \/ Offer(f) \/ Return(f)
      PROVE  UNCHANGED moveVars
  BY <1>7 DEF Search, Moved, ProduceOuter, ProduceInner, Take, Look, Write, EndInner, Offer, Return
<1>8. CASE \/ \E o \in Orders : \E amount \in 0..book[o].size - 1 : Update(o, amount)
           \/ UNCHANGED vars
  BY <1>6, <1>8 DEF Update, vars
<1> QED
  BY <1>1, <1>2, <1>3, <1>4, <1>5, <1>6, <1>7, <1>8 DEF Next, Work

LEMMA MovesInvSame ==
  ASSUME MovesInv, UNCHANGED <<book, place, due, hand, gone, phase>>
  PROVE  MovesInv'
BY DEF MovesInv

\* A search that forgets, or begins, or goes on to its next phase.
LEMMA MovesInvOn ==
  ASSUME MatchingInv, NEW f \in Finders,
         \/ \E s \in SearchSlots : Search(f, s)
         \/ EndOuter(f) \/ Offer(f) \/ Return(f) \/ Moved(f)
  PROVE  MovesInv'
<1> USE DEF MatchingInv
<1>1. /\ UNCHANGED <<book, place, due, hand>>
      /\ \A g \in Finders : g # f => phase'[g] = phase[g] /\ gone'[g] = gone[g]
  BY DEF Search, EndOuter, Offer, Return, Moved, Forget, moveVars, Typed, MovesTyped
<1>2. due[f] = {} /\ hand[f] = None
  BY DEF MovesInv, Search, EndOuter, Offer, Return, Moved, Looping
<1>3. \A o \in Orders : gone'[f][o] = None
  <2>1. CASE EndOuter(f)
    BY <2>1 DEF EndOuter, Forget, Typed, MovesTyped
  <2>2. CASE ~EndOuter(f)
    <3>1. gone' = gone /\ phase[f] \notin Walking
      BY <2>2 DEF Search, Offer, Return, Moved, moveVars, Walking, Looping
    <3> QED
      BY <3>1 DEF MovesInv
  <2> QED
    BY <2>1, <2>2
<1> QED
  BY <1>1, <1>2, <1>3 DEF MovesInv

LEMMA MovesInvKept ==
  ASSUME MatchingInv, [Next]_vars
  PROVE  MovesInv'
<1> USE DEF MatchingInv
<1>1. ASSUME NEW f \in Finders,
             ProduceOuter(f) \/ ProduceInner(f) \/ Take(f) \/ Look(f) \/ Write(f) \/ EndInner(f)
      PROVE  MovesInv'
  BY <1>1, MovesInvSame DEF ProduceOuter, ProduceInner, Take, Look, Write, EndInner, moveVars
<1>2. ASSUME NEW f \in Finders, Collect(f) PROVE MovesInv'
  <2>1. /\ UNCHANGED <<book, place, hand>> /\ phase' = [phase EXCEPT ![f] = "moving"]
        /\ \A g \in Finders : g # f => gone'[g] = gone[g] /\ due'[g] = due[g]
        /\ \A o \in Orders : gone'[f][o] = None
    BY <1>2 DEF Collect, Forget, Typed, MovesTyped
  <2>2. \A g \in Finders : /\ g # f => phase'[g] = phase[g] /\ hand'[g] = hand[g]
                           /\ phase'[f] = "moving"
    BY <2>1 DEF Typed
  <2>3. \A g \in Finders : /\ phase'[g] # "moving" => due'[g] = {} /\ hand'[g] = None
                           /\ phase'[g] \notin Walking => \A o \in Orders : gone'[g][o] = None
    BY <2>1, <2>2 DEF MovesInv
  <2>4. \A g \in Finders, o \in Orders : gone'[g][o] # None => gone[g][o] # None
    BY <2>1
  <2> QED
    BY <2>1, <2>3, <2>4 DEF MovesInv
<1>3. ASSUME NEW f \in Finders, RemoveDue(f) PROVE MovesInv'
  <2> DEFINE Walks(o) == {h \in Finders \ {f} :
                phase[h] \in {"collecting", "takingAsks", "takingBids"} /\ place[o] = "takingLimit"}
  <2>1. PICK o \in due[f] :
          /\ place' = [place EXCEPT ![o] = IF @ = "takingLimit" THEN None ELSE @]
          /\ due' = [due EXCEPT ![f] = @ \ {o}]
          /\ hand' = [hand EXCEPT ![f] = o]
          /\ gone' = [h \in Finders |-> IF h \in Walks(o) THEN [gone[h] EXCEPT ![o] = filled[o]]
                                                          ELSE gone[h]]
          /\ UNCHANGED <<book, phase>>
    BY <1>3 DEF RemoveDue
  <2>2. o \in Orders /\ phase[f] = "moving"
    BY DEF Typed, MovesTyped, MovesInv
  <2>3. \A x \in Orders : place'[x] \in {place[x], None}
    BY <2>1 DEF Typed, MovesTyped
  <2>4. \A g \in Finders, x \in Orders :
          gone'[g][x] = IF g \in Walks(o) /\ x = o THEN filled[o] ELSE gone[g][x]
    BY <2>1 DEF Typed, MovesTyped
  <2>5. \A g \in Finders, x \in Orders : gone'[g][x] # None =>
          \/ gone[g][x] # None
          \/ phase[g] \in Walking /\ place[x] = "takingLimit"
    BY <2>4 DEF Walking
  <2>6. \A g \in Finders : g # f => due'[g] = due[g] /\ hand'[g] = hand[g]
    BY <2>1 DEF Typed, MovesTyped
  <2> HIDE DEF Walks
  <2>7. \A g \in Finders : /\ phase'[g] # "moving" => due'[g] = {} /\ hand'[g] = None
                           /\ phase'[g] \notin Walking => \A x \in Orders : gone'[g][x] = None
    BY <2>1, <2>2, <2>5, <2>6 DEF MovesInv
  <2> QED
    BY <2>1, <2>3, <2>5, <2>7, NoneIsNoAmount DEF MovesInv, Lists
<1>4. ASSUME NEW f \in Finders, InsertDue(f) PROVE MovesInv'
  <2>1. /\ hand[f] \in Orders /\ UNCHANGED <<book, phase, due, gone>>
        /\ place' = [place EXCEPT ![hand[f]] = IF @ = None THEN "restingLimit" ELSE @]
        /\ hand' = [hand EXCEPT ![f] = None]
    BY <1>4 DEF InsertDue, Typed, MovesTyped
  <2>2. \A x \in Orders : place'[x] \in {place[x], "restingLimit"}
    BY <2>1 DEF Typed, MovesTyped
  <2>3. \A g \in Finders : hand'[g] \in {hand[g], None}
    BY <2>1 DEF Typed, MovesTyped
  <2> QED
    BY <2>1, <2>2, <2>3 DEF MovesInv
<1>5. ASSUME NEW f \in Finders,
             \/ \E s \in SearchSlots : Search(f, s)
             \/ EndOuter(f) \/ Offer(f) \/ Return(f) \/ Moved(f)
      PROVE  MovesInv'
  BY <1>5, MovesInvOn
<1>6. CASE \/ \E f, g \in Finders : Race(f, g)
           \/ \E o \in Orders : \E amount \in 0..book[o].size - 1 : Update(o, amount)
           \/ UNCHANGED vars
  BY <1>6, MovesInvSame DEF Race, Update, vars, moveVars
<1> QED
  BY <1>1, <1>2, <1>3, <1>4, <1>5, <1>6 DEF Next, Work

-----------------------------------------------------------------------------

LEMMA MatchingInvInitially == Init => MatchingInv
<1> SUFFICES ASSUME Init PROVE MatchingInv
  OBVIOUS
<1>1. /\ \A o \in Orders : GetNodeType(o, book[o].slot) \in Lists
      /\ book \in Books /\ place = [o \in Orders |-> GetNodeType(o, book[o].slot)]
  BY DEF Init, GetNodeType, Lists
<1>2. Typed
  BY <1>1, NewGeneratorType DEF Init, Typed, Types
<1>6. MovesTyped
  BY <1>1 DEF Init, MovesTyped
<1>3. \A f \in Finders : Tidy(f)
  BY NewGeneratorType, MatchingAssumption
  DEF Init, Tidy, Looping, NewGenerator, MatchingAssumption
<1>4. Bounded
  BY <1>2, BookTypes DEF Init, Bounded, Within
<1>5. MovesInv
  <2>1. \A f \in Finders : due[f] = {} /\ hand[f] = None /\ \A o \in Orders : gone[f][o] = None
    BY DEF Init
  <2>2. ASSUME NEW o \in Orders
        PROVE  /\ place[o] = "market" => book[o].class = "market"
               /\ place[o] = "takingLimit" => ~book[o].postOnly
    <3>1. book[o].class \in {"limit", "floating", "market"} /\ book[o].postOnly \in BOOLEAN
      BY <1>2, BookTypes DEF Order
    <3>2. place[o] = GetNodeType(o, book[o].slot)
      BY <1>1
    <3> QED
      BY <3>1, <3>2 DEF GetNodeType, IsRestingLimitOrder
  <2> QED
    BY <2>1, <2>2 DEF MovesInv
<1> QED
  BY <1>2, <1>3, <1>4, <1>5, <1>6 DEF MatchingInv

LEMMA MatchingInvKept ==
  ASSUME MatchingInv, [Next]_vars
  PROVE  MatchingInv'
<1>1. MovesInv' /\ MovesTyped'
  BY MovesInvKept, MovesTypedKept
<1> SUFFICES Typed' /\ Bounded' /\ \A g \in Finders : Tidy(g)'
  BY <1>1 DEF MatchingInv
<1>2. ASSUME NEW f \in Finders, Look(f)
      PROVE  Typed' /\ Bounded' /\ \A g \in Finders : Tidy(g)'
  BY <1>2, LookStep, TidyAfterLook
<1>3. ASSUME NEW f \in Finders, Write(f)
      PROVE  Typed' /\ Bounded' /\ \A g \in Finders : Tidy(g)'
  BY <1>3, WriteStep, TidyAfterWrite
<1>4. ASSUME NEW f \in Finders,
             ProduceOuter(f) \/ ProduceInner(f) \/ Take(f) \/ EndInner(f) \/ EndOuter(f)
               \/ Offer(f) \/ Return(f)
      PROVE  Typed' /\ Bounded' /\ \A g \in Finders : Tidy(g)'
  BY <1>4, OtherSteps, TidyAfterProduce, TidyAfterTake, TidyAfterEnds
<1>5. ASSUME NEW f \in Finders, NEW s \in SearchSlots, Search(f, s)
      PROVE  Typed' /\ Bounded' /\ \A g \in Finders : Tidy(g)'
  BY <1>5, OtherSteps, TidyAfterSearch
<1>6. ASSUME NEW f \in Finders, Collect(f) \/ RemoveDue(f) \/ InsertDue(f) \/ Moved(f)
      PROVE  Typed' /\ Bounded' /\ \A g \in Finders : Tidy(g)'
  BY <1>6, MoverSteps, TidyAfterMoves
<1>7. ASSUME NEW o \in Orders, NEW amount \in 0..book[o].size - 1, Update(o, amount)
      PROVE  Typed' /\ Bounded' /\ \A g \in Finders : Tidy(g)'
  <2>1. UNCHANGED <<book, place, gone, phase, outer, current, inner, writes>>
    BY <1>7 DEF Update, moveVars
  <2>2. \A f \in Finders : Tidy(f)'
    BY <2>1, OthersTidy DEF MatchingInv
  <2> QED
    BY <1>7, <2>2, UpdateStep
<1>8. CASE (\E f, g \in Finders : Race(f, g)) \/ UNCHANGED vars
  <2>1. /\ UNCHANGED <<book, confirmed, filled, maxSlot, place, due, hand, gone, loose, phase,
                       slot, outer, current, inner, writes, found, offered>>
        /\ ended' = TRUE \/ ended' = ended
    BY <1>8 DEF Race, vars, moveVars
  <2>2. \A f \in Finders : Tidy(f)'
    BY <2>1, OthersTidy DEF MatchingInv
  <2> QED
    BY <2>1, <2>2 DEF MatchingInv, Typed, Bounded, Within
<1> QED
  BY <1>2, <1>3, <1>4, <1>5, <1>6, <1>7, <1>8 DEF Next, Work

LEMMA MatchingInvAlways == Spec => []MatchingInv
BY MatchingInvInitially, MatchingInvKept, PTL DEF Spec

\* The state is well-typed: however far its producers ran ahead of it, and
\* whatever orders other searches move under it, what a loop is at is of its
\* lists or was, and a search holds nothing of a loop that has ended.
THEOREM MatchingIsWellTyped == Spec => []TypeOK
<1>1. MatchingInv => TypeOK
  <2> SUFFICES ASSUME MatchingInv PROVE TypeOK
    OBVIOUS
  <2>1. {Phases[i] : i \in DOMAIN Phases} \cup {"idle", "collecting", "moving"} = Types
    BY DEF Phases, Types
  <2>2. \A f \in Finders :
          /\ phase[f] \in Types /\ slot[f] \in SearchSlots \cup {0}
          /\ outer[f].passed \subseteq Orders /\ offered[f] \subseteq Orders
          /\ \A m \in found[f] : m.node \in Orders /\ m.maker \in Orders /\ m.base \in Nat
    BY DEF MatchingInv, Typed, Generators, Matches
  <2> QED
    BY <2>1, <2>2 DEF MatchingInv, Typed, MovesTyped, Tidy, MovesInv, TypeOK
<1> QED
  BY <1>1, MatchingInvAlways, PTL

\* However many searches simulate fills of one order at the same time, with
\* whatever slots, and move it from list to list meanwhile, what is filled of it
\* never exceeds its size.
THEOREM FillsStayWithinSize == Spec => []NeverOverfilled
<1>1. MatchingInv => NeverOverfilled
  BY DEF MatchingInv, Bounded, Within, NeverOverfilled
<1> QED
  BY <1>1, MatchingInvAlways, PTL

\* ... and a simulated fill never replaces one that the chain has confirmed.
THEOREM ConfirmedFillsStay == Spec => []KeepsConfirmed
<1>1. MatchingInv => KeepsConfirmed
  BY DEF MatchingInv, Bounded, Within, KeepsConfirmed
<1> QED
  BY <1>1, MatchingInvAlways, PTL
-----------------------------------------------------------------------------
(* Who may make.                                                           *)

\* No market order is post-only: the program on the chain takes none.
MarketOrdersTake == \A o \in Orders : book[o].class = "market" => ~book[o].postOnly

\* What MakerMayMake says of one match, reported in phase p.
MayMake(p, m) ==
  /\ ~book[m.node].postOnly
  /\ p = "crossing" /\ ~book[m.maker].postOnly
     => book[m.maker].slot + book[m.maker].duration <= book[m.node].slot + book[m.node].duration

\* Whoever takes in a list of taking orders, or did, is not post-only.
LEMMA TakersMayTake ==
  ASSUME MatchingInv, MarketOrdersTake, NEW f \in Finders, NEW side, NEW o \in TakingOf(f, side)
  PROVE  ~book[o].postOnly
<1>1. o \in Orders /\ (place[o] \in {"market", "takingLimit"} \/ gone[f][o] # None)
  BY DEF TakingOf, Taking, Listed
<1> QED
  BY <1>1 DEF MatchingInv, MovesInv, MarketOrdersTake

\* The pair Look reports.
LEMMA PairsMayMake ==
  ASSUME MatchingInv, MarketOrdersTake, NEW f \in Finders, NEW maker \in Orders, NEW base,
         phase[f] \in Looping, current[f] \in OuterMembers(f),
         NEW p \in Pairs(phase[f], current[f], maker)
  PROVE  MayMake(phase[f], [node |-> p.node, maker |-> p.maker, base |-> base])
<1> DEFINE taker == current[f]
<1>1. taker \in Orders
  BY MembersAreOrders
<1>2. CASE phase[f] = "crossing"
  <2>1. p \in DetermineMakerAndTaker(taker, maker)
    BY <1>2 DEF Pairs
  <2>2. \A o \in {taker, maker} : /\ book[o].postOnly \in BOOLEAN
                                  /\ book[o].slot + book[o].duration \in Nat
    BY <1>1, BookTypes DEF Order, MatchingInv
  <2> HIDE DEF taker
  <2> QED
    BY <2>1, <2>2 DEF DetermineMakerAndTaker, MayMake
<1>3. CASE phase[f] # "crossing"
  <2>1. p = [node |-> taker, maker |-> maker]
    BY <1>3 DEF Pairs
  <2>2. taker \in TakingOf(f, "ask") \/ taker \in TakingOf(f, "bid")
    BY <1>3 DEF OuterMembers, Looping
  <2>3. ~book[taker].postOnly
    BY <2>2, TakersMayTake
  <2> QED
    BY <1>3, <2>1, <2>3 DEF MayMake
<1> QED
  BY <1>2, <1>3

\* The matches a step adds.
LEMMA NewMatchesMayMake ==
  ASSUME MatchingInv, MarketOrdersTake, [Next]_vars
  PROVE  \A f \in Finders : \A m \in found'[f] \ found[f] : MayMake(phase[f], m)
<1> USE DEF MatchingInv
<1>1. ASSUME NEW f \in Finders, Look(f)
      PROVE  \A g \in Finders : \A m \in found'[g] \ found[g] : MayMake(phase[g], m)
  <2> DEFINE maker == Head(inner[f].ready)
             base == Min({Remaining(current[f], Carried(f, current[f])),
                          Remaining(maker, filled[maker])})
             pairs == Pairs(phase[f], current[f], maker)
  <2>1. /\ current[f] # None /\ inner[f].ready # <<>>
        /\ found' \in {found, [found EXCEPT ![f] = @ \cup
              {[node |-> p.node, maker |-> p.maker, base |-> base] : p \in pairs}]}
    BY <1>1 DEF Look
  <2>2. phase[f] \in Looping /\ current[f] \in OuterMembers(f)
    BY <2>1 DEF Tidy
  <2>3. maker \in Orders
    BY <2>1 DEF Typed, Generators
  <2>4. \A p \in pairs : MayMake(phase[f], [node |-> p.node, maker |-> p.maker, base |-> base])
    BY <2>2, <2>3, PairsMayMake
  <2> HIDE DEF maker, base, pairs
  <2> SUFFICES ASSUME NEW g \in Finders, NEW m \in found'[g] \ found[g]
               PROVE  MayMake(phase[g], m)
    OBVIOUS
  <2>5. g = f /\ m \in {[node |-> p.node, maker |-> p.maker, base |-> base] : p \in pairs}
    BY <2>1 DEF Typed
  <2> QED
    BY <2>4, <2>5
<1>2. ASSUME NEW f \in Finders,
             \/ \E s \in SearchSlots : Search(f, s)
             \/ Collect(f) \/ RemoveDue(f) \/ InsertDue(f) \/ Moved(f)
             \/ ProduceOuter(f) \/ ProduceInner(f) \/ Take(f) \/ Write(f) \/ EndInner(f)
             \/ EndOuter(f) \/ Offer(f) \/ Return(f)
      PROVE  \A g \in Finders : found'[g] \subseteq found[g]
  <2>1. found' = found \/ found' = [found EXCEPT ![f] = {}]
    BY <1>2 DEF Search, Collect, RemoveDue, InsertDue, Moved, ProduceOuter, ProduceInner, Take,
       Write, EndInner, EndOuter, Offer, Return
  <2> QED
    BY <2>1 DEF Typed
<1>3. (\/ \E f, g \in Finders : Race(f, g)
       \/ \E o \in Orders : \E amount \in 0..book[o].size - 1 : Update(o, amount)
       \/ UNCHANGED vars) => found' = found
  BY DEF Race, Update, vars
<1>4. CASE \E f \in Finders : Look(f)
  BY <1>1, <1>4
<1>5. CASE ~ \E f \in Finders : Look(f)
  <2>1. found' = found \/ \A g \in Finders : found'[g] \subseteq found[g]
    <3>1. \/ \E f \in Finders : Work(f) \/ \E s \in SearchSlots : Search(f, s)
          \/ found' = found
      BY <1>3 DEF Next
    <3> QED
      BY <1>2, <1>5, <3>1 DEF Work
  <2> QED
    BY <2>1
<1> QED
  BY <1>4, <1>5

LEMMA MarketOrdersTakeKept ==
  ASSUME MarketOrdersTake, [Next]_vars
  PROVE  MarketOrdersTake'
<1>1. book' = book
  <2>1. \A f \in Finders : Work(f) => book' = book
    BY DEF Work, Collect, RemoveDue, InsertDue, Moved, ProduceOuter, ProduceInner, Take, Look,
       Write, EndInner, EndOuter, Offer, Return
  <2>2. (\E f \in Finders : \E s \in SearchSlots : Search(f, s)) => book' = book
    BY DEF Search
  <2>3. (\E f, g \in Finders : Race(f, g)) => book' = book
    BY DEF Race
  <2>4. (\E o \in Orders : \E amount \in 0..book[o].size - 1 : Update(o, amount)) => book' = book
    BY DEF Update
  <2>5. UNCHANGED vars => book' = book
    BY DEF vars
  <2> QED
    BY <2>1, <2>2, <2>3, <2>4, <2>5 DEF Next
<1> QED
  BY <1>1 DEF MarketOrdersTake

\* For books whose market orders are not post-only: no search reports a
\* post-only order as a taker, nor makes of two resting orders the younger,
\* whatever the other searches move.
THEOREM MakersMayMake ==
  ASSUME \A b \in Books : \A o \in Orders : b[o].class = "market" => ~b[o].postOnly
  PROVE  Spec => MakerMayMake
<1>1. Init => MarketOrdersTake
  BY DEF Init, MarketOrdersTake
<1>2. MarketOrdersTake /\ [Next]_vars => MarketOrdersTake'
  BY MarketOrdersTakeKept
<1>3. MatchingInv /\ MarketOrdersTake /\ [Next]_vars =>
        [\A f \in Finders : \A m \in found'[f] \ found[f] :
           /\ ~book[m.node].postOnly
           /\ phase[f] = "crossing" /\ ~book[m.maker].postOnly
              => book[m.maker].slot + book[m.maker].duration
                   <= book[m.node].slot + book[m.node].duration]_vars
  BY NewMatchesMayMake DEF MayMake
<1> QED
  BY <1>1, <1>2, <1>3, MatchingInvAlways, PTL DEF Spec, MakerMayMake
=============================================================================
