--------------------------- MODULE PriceTimeQueue ---------------------------
(***************************************************************************)
(* What one side of the book promises: the orders it holds, once each, in  *)
(* price-time priority.  NodeList implements it with a linked list and a   *)
(* signature map.                                                          *)
(***************************************************************************)
EXTENDS Integers, Sequences

CONSTANTS
  Signatures,   \* the orders that may enter this side: <<user, orderId>>
  Price,        \* Price[s]: the value side is sorted by
  Slot,         \* Slot[s]: the slot the order was placed in
  Ascending,    \* TRUE: cheapest first (asks); FALSE: dearest first (bids)
  MaxFilled,    \* bound on the filled base amount
  MaxTries      \* bound on the fill attempts counted per order

VARIABLE queue

Entry == [sig: Signatures, filled: 0..MaxFilled, tries: 0..MaxTries]

\* a goes in front of b when both are new to the queue or b is already there
Precedes(a, b) ==
  IF Price[a] = Price[b] THEN Slot[a] < Slot[b]
  ELSE IF Ascending THEN Price[a] < Price[b] ELSE Price[a] > Price[b]

Holds(s) == \E i \in DOMAIN queue : queue[i].sig = s

Init == queue = <<>>

\* A new order goes behind every order it does not precede.
Insert(s, filled) ==
  /\ ~Holds(s)
  /\ \E i \in 0..Len(queue) :
       /\ \A j \in 1..i : ~Precedes(s, queue[j].sig)
       /\ \A j \in i+1..Len(queue) : Precedes(s, queue[j].sig)
       /\ queue' = SubSeq(queue, 1, i)
                     \o <<[sig |-> s, filled |-> filled, tries |-> 0]>>
                     \o SubSeq(queue, i+1, Len(queue))

\* A new filled amount forgets the attempts made on the old one.
Update(s, filled) ==
  /\ Holds(s)
  /\ queue' = [i \in DOMAIN queue |->
                 IF queue[i].sig # s THEN queue[i]
                 ELSE [sig |-> s, filled |-> filled,
                       tries |-> IF queue[i].filled = filled
                                 THEN queue[i].tries ELSE 0]]

SetTries(s, n) ==
  queue' = [i \in DOMAIN queue |->
              IF queue[i].sig = s THEN [queue[i] EXCEPT !.tries = n]
              ELSE queue[i]]

Remove(s) ==
  \E i \in DOMAIN queue :
    /\ queue[i].sig = s
    /\ queue' = SubSeq(queue, 1, i-1) \o SubSeq(queue, i+1, Len(queue))

Clear == queue' = <<>>

Next ==
  \/ \E s \in Signatures, filled \in 0..MaxFilled :
        Insert(s, filled) \/ Update(s, filled)
  \/ \E s \in Signatures, n \in 0..MaxTries : SetTries(s, n)
  \/ \E s \in Signatures : Remove(s)
  \/ Clear

Spec == Init /\ [][Next]_queue
=============================================================================
