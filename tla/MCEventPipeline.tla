--------------------------- MODULE MCEventPipeline ---------------------------
(* Two transactions; the first also logs an event the book ignores. *)
EXTENDS EventPipeline

CONSTANTS settled, placed, filled, cancelled

TransactionsHere == <<<<settled, placed, filled>>, <<cancelled>>>>

ASSUME EventsApartHere == EventsApart
=============================================================================
