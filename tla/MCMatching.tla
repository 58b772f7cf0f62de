----------------------------- MODULE MCMatching -----------------------------
(* Small markets for TLC. *)
EXTENDS Matching

CONSTANTS Prices, Sizes

At(user, side, class, price, placed, duration, postOnly, size) ==
  [user |-> user, side |-> side, class |-> class,
   key |-> IF price = None \/ class = "floating" THEN 0 ELSE price, price |-> price,
   slot |-> placed, duration |-> duration, postOnly |-> postOnly, size |-> size]

\* Two resting asks, a resting bid and one that may float, and a market ask;
\* the first ask and the first bid are one user's.
Makers ==
  {[o \in Orders |->
     CASE o = 1 -> At(1, "ask", "limit", price[1], 1, 0, post, size[1])
       [] o = 2 -> At(2, "ask", "limit", 2, 2, 0, FALSE, 1)
       [] o = 3 -> At(1, "bid", "limit", price[3], 2, 0, TRUE, size[3])
       [] o = 4 -> At(3, "bid", class, price[4], 1, 0, FALSE, 1)
       [] o = 5 -> At(4, "ask", "market", None, 2, 1, FALSE, 2)] :
   price \in [{1, 3, 4} -> Prices], size \in [{1, 3} -> Sizes], post \in BOOLEAN,
   class \in {"limit", "floating"}}

\* Auctions: an ask comes to rest at the first slot of a search or at the second,
\* a market bid with a limit is matched too.
Auctions ==
  {[o \in Orders |->
     CASE o = 1 -> At(1, "ask", "limit", ask, 1, duration, FALSE, 2)
       [] o = 2 -> At(2, "bid", "limit", 2, 1, 0, TRUE, 1)
       [] o = 3 -> At(3, "bid", "market", 2, 2, 1, FALSE, 1)] :
   ask \in Prices, duration \in {1, 2}}

\* Two market bids.
Market ==
  {[o \in Orders |-> At(o, "bid", "market", price[o], slot0[o], 1, FALSE, 1)] :
   price \in [Orders -> Prices], slot0 \in [Orders -> 1..2]}

\* Every book above is one the argument about what a loop overlooks holds for.
ASSUME SortedHere == SortedByPrice
=============================================================================
