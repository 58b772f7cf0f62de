--------------------------- MODULE MCAccountStream ---------------------------
(* One update of one user. *)
EXTENDS AccountStream

CONSTANTS alice, empty

UpdatesHere == {[key |-> alice, slot |-> 1, account |-> empty]}
=============================================================================
