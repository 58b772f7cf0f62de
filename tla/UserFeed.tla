------------------------------- MODULE UserFeed -------------------------------
(***************************************************************************)
(* How the program learns of user accounts and tells the order book: the   *)
(* user map, fed by an AccountStream through GeyserSubscription.  The      *)
(* program syncs the map before it subscribes, callbacks of                *)
(* "stateAccountUpdate" sync it at any time, and readers of an old and of  *)
(* a new stream may both be in UpdateUserAccount.                          *)
(*                                                                         *)
(* UpdateUserAccount and the main part of Sync hold mxState; the flag that *)
(* keeps two Syncs apart has no lock.  The user object the map keeps has   *)
(* only the account it was created with (UpdateData of                     *)
(* BasicUserAccountSubscriber never stores one): "account" is the one last *)
(* accepted.  mostRecentSlot is left out.                                  *)
(***************************************************************************)
EXTENDS AccountStream

CONSTANTS
  Response,      \* Response[k]: account k in the answer Sync gets, or None
  ResponseSlot,  \* its slot: the answer is a constant of the program
  Callbacks      \* goroutines of "stateAccountUpdate"

Syncers == {Program} \cup Callbacks
Entries == [slot : Nat, account : Accounts]

\* The slot of the answer is long past.
ASSUME FeedAssumption ==
  /\ Response \in [Keys -> Accounts \cup {None}]
  /\ None \notin Accounts \cup Entries
  /\ ResponseSlot \in Nat /\ \A u \in Updates : u.slot > ResponseSlot
  /\ Program \notin Callbacks

VARIABLES
  entry,          \* entry[k]: the slot of userMap, and the account last accepted
  status,         \* status[k]: LastOrdersHash in statusMap
  told,           \* told[k]: what "userOrderUpdated" last told the order book
  syncing,        \* syncing[p]: where p is in Sync
  synchronizing,  \* the flag
  emptied         \* the program has unsubscribed and emptied the map

usersVars == <<entry, status, told>>
syncVars == <<syncing, synchronizing>>
vars == <<feedVars, usersVars, syncVars, emptied>>

-----------------------------------------------------------------------------
(* One user.                                                               *)

\* Mutant: the slot is not compared.
AcceptsAny(k, slot) == TRUE

Accepts(k, slot) == entry[k] = None \/ slot >= entry[k].slot

\* Mutant: an account is announced when the user is new.
AnnouncesFirst(k, account) == status[k] = None

\* updateStatus: the hash is compared with the first one seen of k, which stays.
Announces(k, account) == status[k] = None \/ status[k] # account

\* What UpdateUserAccount makes of an account it accepts.
Entry(slot, account) == [slot |-> slot, account |-> account]
Status(k, account) == IF status[k] = None THEN account ELSE status[k]
Told(k, account) == IF Announces(k, account) THEN account ELSE told[k]

UpdateUserAccount(k, account, slot) ==
  IF Accepts(k, slot)
  THEN /\ entry' = [entry EXCEPT ![k] = Entry(slot, account)]
       /\ status' = [status EXCEPT ![k] = Status(k, account)]
       /\ told' = [told EXCEPT ![k] = Told(k, account)]
  ELSE UNCHANGED usersVars

Deliver(s) ==
  /\ OnChange(s)
  /\ UpdateUserAccount(hand[s].key, hand[s].account, hand[s].slot)
  /\ UNCHANGED <<syncVars, emptied>>

-----------------------------------------------------------------------------
(* Sync.                                                                   *)

\* The users of the answer that the map has already, and that are not too new.
Refreshed == {k \in Keys : /\ Response[k] # None /\ entry[k] # None
                           /\ Accepts(k, ResponseSlot)}

\* AddPubkey of a new user announces nothing and leaves no status; users that
\* the answer does not name are deleted.
Synced(k) ==
  IF Response[k] = None THEN None
  ELSE IF Accepts(k, ResponseSlot) THEN Entry(ResponseSlot, Response[k])
  ELSE entry[k]

SyncTest(p) ==
  /\ syncing[p] = "idle"
  /\ syncing' = [syncing EXCEPT ![p] = IF synchronizing THEN "done" ELSE "set"]
  /\ UNCHANGED <<usersVars, synchronizing>>

SyncSet(p) ==
  /\ syncing[p] = "set"
  /\ synchronizing' = TRUE
  /\ syncing' = [syncing EXCEPT ![p] = "apply"]
  /\ UNCHANGED usersVars

\* Mutant: users that Sync refreshes are announced, but their status is not kept.
SyncApplyUnkept(p) ==
  /\ syncing[p] = "apply"
  /\ entry' = [k \in Keys |-> Synced(k)]
  /\ told' = [k \in Keys |-> IF k \in Refreshed THEN Told(k, Response[k]) ELSE told[k]]
  /\ syncing' = [syncing EXCEPT ![p] = "reset"]
  /\ UNCHANGED <<status, synchronizing>>

SyncApply(p) ==
  /\ syncing[p] = "apply"
  /\ entry' = [k \in Keys |-> Synced(k)]
  /\ status' = [k \in Keys |-> IF k \in Refreshed THEN Status(k, Response[k]) ELSE status[k]]
  /\ told' = [k \in Keys |-> IF k \in Refreshed THEN Told(k, Response[k]) ELSE told[k]]
  /\ syncing' = [syncing EXCEPT ![p] = "reset"]
  /\ UNCHANGED synchronizing

SyncReset(p) ==
  /\ syncing[p] = "reset"
  /\ synchronizing' = FALSE
  /\ syncing' = [syncing EXCEPT ![p] = "done"]
  /\ UNCHANGED usersVars

Sync(p) ==
  /\ SyncTest(p) \/ SyncSet(p) \/ SyncApply(p) \/ SyncReset(p)
  /\ UNCHANGED <<feedVars, emptied>>

-----------------------------------------------------------------------------
(* The program.                                                            *)

\* GeyserSubscription.Subscribe, after its Sync.
Subscribe ==
  /\ syncing[Program] = "done"
  /\ Open(Program)
  /\ UNCHANGED <<usersVars, syncVars, emptied>>

\* The rest of UserMap.Unsubscribe, after the subscriber's; statusMap stays.
Empty ==
  /\ pc[Program] = "unsubscribed" /\ ~emptied
  /\ emptied' = TRUE
  /\ entry' = [k \in Keys |-> None]
  /\ UNCHANGED <<feedVars, status, told, syncVars>>

-----------------------------------------------------------------------------

FeedInit ==
  /\ StreamInit
  /\ entry = [k \in Keys |-> None]
  /\ status = [k \in Keys |-> None] /\ told = [k \in Keys |-> None]
  /\ syncing = [p \in Syncers |-> "idle"] /\ synchronizing = FALSE
  /\ emptied = FALSE

FeedNext ==
  \/ Subscribe \/ Empty
  \/ \E p \in Syncers : Sync(p)
  \/ \E s \in Streams : Deliver(s)
  \/ StreamNext /\ UNCHANGED <<usersVars, syncVars, emptied>>

FeedSpec == FeedInit /\ [][FeedNext]_vars

-----------------------------------------------------------------------------

\* The state is well-typed, the flag is up only while somebody is in Sync, and
\* nobody is told of what the map has never accepted.
FeedTypeOK ==
  /\ StreamTypeOK
  /\ entry \in [Keys -> Entries \cup {None}]
  /\ status \in [Keys -> Accounts \cup {None}]
  /\ told \in [Keys -> Accounts \cup {None}]
  /\ syncing \in [Syncers -> {"idle", "set", "apply", "reset", "done"}]
  /\ synchronizing \in BOOLEAN /\ emptied \in BOOLEAN
  /\ synchronizing => \E p \in Syncers : syncing[p] \in {"apply", "reset"}
  /\ \A k \in Keys : status[k] = None <=> told[k] = None

\* However many Syncs run together with however many streams, a user in the map
\* never goes back to an older slot: only by being deleted is one forgotten.
SlotForward ==
  [][\A k \in Keys : entry[k] # None /\ entry'[k] # None =>
       entry'[k].slot >= entry[k].slot]_vars

\* The order book was told last of the account a stream last brought, unless that
\* account has the orders k had when it was first seen: the hash that is compared
\* is never renewed, and a user who goes back to it goes back unannounced.
AnnouncedUnlessFirst ==
  \A k \in Keys :
    entry[k] # None =>
      \/ entry[k].slot = ResponseSlot
      \/ entry[k].account \in {status[k], told[k]}

\* The last update of k among the first n writes.
LastOf(k, n) ==
  CHOOSE i \in 1..n : /\ written[i].key = k
                      /\ \A j \in (i + 1)..n : written[j].key # k

\* One buffer filters the updates of all users.  While there has been one stream,
\* which delivers in the order of slots, it holds back nothing that the map lacks:
\* a user the stream has brought has the account it brought last.
LastReadIsKept ==
  opened = 1 /\ at[1] = "recv" =>
    \A k \in Keys : entry[k] # None /\ entry[k].slot # ResponseSlot =>
      entry[k].account = written[LastOf(k, read[1])].account
=============================================================================
