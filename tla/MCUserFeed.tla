----------------------------- MODULE MCUserFeed -----------------------------
(* The answer to Sync names one of two users. *)
EXTENDS UserFeed

CONSTANTS alice, bob, empty, order, sync

Update(k, n, a) == [key |-> k, slot |-> n, account |-> a]

UpdatesHere ==
  {Update(alice, 2, order), Update(bob, 3, order), Update(alice, 3, order), Update(alice, 3, empty)}
ResponseHere == [k \in Keys |-> IF k = alice THEN empty ELSE None]
=============================================================================
