------------------------------- MODULE MCDLOB -------------------------------
(* Small books for TLC. *)
EXTENDS DLOB, TLC

CONSTANTS alice, bob, auction, market, maker, below, above

KindOf == [o \in {auction, market, maker, below, above} |->
  CASE o = auction -> [class |-> "limit", trigger |-> "no", postOnly |-> FALSE, duration |-> 1]
    [] o = market  -> [class |-> "market", trigger |-> "no", postOnly |-> FALSE, duration |-> 1]
    [] o = maker   -> [class |-> "limit", trigger |-> "no", postOnly |-> TRUE, duration |-> 0]
    [] o = below   -> [class |-> "market", trigger |-> "below", postOnly |-> FALSE, duration |-> 0]
    [] o = above   -> [class |-> "limit", trigger |-> "above", postOnly |-> FALSE, duration |-> 0]]

KindHere == [o \in Orders |-> KindOf[o]]
\* alice has the auctioned and the trigger orders.
OwnerHere == [o \in Orders |-> IF o \in {market, maker} THEN bob ELSE alice]
SizeHere == [o \in Orders |-> IF o \in {auction, maker} THEN 2 ELSE 1]

HandlerSymmetry == Permutations(Handlers)
FinderSymmetry == Permutations(Finders)
=============================================================================
