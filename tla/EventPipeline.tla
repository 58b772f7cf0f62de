---------------------------- MODULE EventPipeline ----------------------------
(***************************************************************************)
(* The way of a decoded event from EventSubscriber.handleTxLogs to the     *)
(* order book: EventEmitter starts a goroutine for every listener of       *)
(* "newEvent", DLOBSubscriber's listener filters the emitted slice and     *)
(* appends what is left to eventCache, and whoever finds the cache full,   *)
(* or a ticker, hands the cached events to the book and announces them.    *)
(*                                                                         *)
(* eventCache is a slice: handleEvents keeps the cells it took and goes on *)
(* appending to the same array.  The arrays are state here; the goroutines *)
(* read and write single cells.                                            *)
(*                                                                         *)
(* What the book does with a batch is in DLOB.tla.  Elapsed time is left   *)
(* out: the ticker may find its timeout over at any moment.                *)
(***************************************************************************)
EXTENDS Integers, Sequences, FiniteSets

CONSTANTS
  Transactions,   \* Transactions[n]: the events logged by the nth transaction
  OrderEvents,    \* the order and order action records among them
  MaxEventCache,  \* maxEventCache, 10 in the code
  MaxListeners,   \* bound on the calls of Subscribe that take effect
  MaxCallbacks,   \* bound on the callbacks that run at the same time
  None            \* a nil pointer

Emissions == DOMAIN Transactions
Events == UNION {{Transactions[n][i] : i \in DOMAIN Transactions[n]} : n \in Emissions}

ASSUME PipelineAssumption ==
  /\ Transactions \in Seq(Seq(Events) \ {<<>>})
  /\ OrderEvents \subseteq Events /\ None \notin Events
  /\ MaxEventCache \in Nat \ {0} /\ MaxListeners \in Nat /\ MaxCallbacks \in Nat

VARIABLES
  subscribed,   \* isSubscribed
  listeners,    \* listeners of "newEvent": Subscribe adds one, nothing removes it
  emitted,      \* emitted[n]: the slice all callbacks of the nth emission share
  arrays,       \* the arrays eventCache has had; it is in the last one
  cached,       \* len(eventCache)
  pc,           \* pc[p]: where goroutine p is
  at,           \* at[p]: the cell p reads next
  kept,         \* kept[p]: the cell p's filter writes next
  batch,        \* batch[p]: the cells p took from the cache
  handled,      \* handled[e]: how often the book was given e
  overwritten,  \* some append wrote into a batch that the book was still reading
  crashed       \* a goroutine dereferenced nil: the program is gone

cacheVars == <<arrays, cached, overwritten>>
readVars == <<at, kept, batch>>
vars == <<subscribed, listeners, emitted, cacheVars, pc, readVars, handled, crashed>>

\* The goroutine of listener l for emission n, and the ticker of listener l.
Callbacks == Emissions \X (1..MaxListeners)
Tickers == {<<0, l>> : l \in 1..MaxListeners}
Goroutines == Callbacks \cup Tickers

\* A batch in array 0 is empty.
Batches == [array: Nat, length: Nat]
NoBatch == [array |-> 0, length |-> 0]

\* The context of an earlier subscription was cancelled before the next one.
Cancelled(l) == l < listeners \/ ~subscribed

-----------------------------------------------------------------------------
(* Subscribing and emitting.                                               *)

Subscribe ==
  /\ ~subscribed /\ listeners < MaxListeners
  /\ subscribed' = TRUE
  /\ listeners' = listeners + 1
  /\ pc' = [pc EXCEPT ![<<0, listeners + 1>>] = "wait"]
  /\ UNCHANGED <<emitted, cacheVars, readVars, handled, crashed>>

\* The listener stays registered.
Unsubscribe ==
  /\ subscribed
  /\ subscribed' = FALSE
  /\ UNCHANGED <<listeners, emitted, cacheVars, pc, readVars, handled, crashed>>

HandleTxLogs ==
  LET n == Len(emitted) + 1
      running == {p \in Callbacks : pc[p] \notin {"idle", "done"}}
  IN /\ n \in Emissions
     /\ Cardinality(running) + listeners <= MaxCallbacks
     /\ emitted' = Append(emitted, Transactions[n])
     /\ pc' = [p \in Goroutines |->
                 IF p[1] = n /\ p[2] <= listeners THEN "filter" ELSE pc[p]]
     /\ UNCHANGED <<subscribed, listeners, cacheVars, readVars, handled, crashed>>

-----------------------------------------------------------------------------
(* The listener.                                                           *)

\* slices.DeleteFunc, one cell at a time: what stays moves to the front.
FilterCell(p) ==
  LET n == p[1]  event == emitted[n][at[p]]
  IN /\ pc[p] = "filter" /\ at[p] <= Len(emitted[n])
     /\ IF event = None
        THEN crashed' = TRUE /\ UNCHANGED <<emitted, at, kept>>
        ELSE /\ at' = [at EXCEPT ![p] = @ + 1]
             /\ IF event \in OrderEvents
                THEN /\ emitted' = IF kept[p] = at[p] THEN emitted
                                   ELSE [emitted EXCEPT ![n][kept[p]] = event]
                     /\ kept' = [kept EXCEPT ![p] = @ + 1]
                ELSE UNCHANGED <<emitted, kept>>
             /\ UNCHANGED crashed
     /\ UNCHANGED <<subscribed, listeners, cacheVars, pc, batch, handled>>

\* ... and what is behind it is cleared.
FilterEnds(p) ==
  LET n == p[1]
  IN /\ pc[p] = "filter" /\ at[p] > Len(emitted[n])
     /\ emitted' = [emitted EXCEPT ![n] =
                      [i \in DOMAIN @ |-> IF i < kept[p] THEN @[i] ELSE None]]
     /\ pc' = [pc EXCEPT ![p] = IF kept[p] > 1 THEN "pend" ELSE "done"]
     /\ at' = [at EXCEPT ![p] = 1]
     /\ UNCHANGED <<subscribed, listeners, cacheVars, kept, batch, handled, crashed>>

\* Mutant: the slice that was filtered is used, not the one DeleteFunc returned.
FilteredWholeSlice(p) == emitted[p[1]]

Filtered(p) == SubSeq(emitted[p[1]], 1, kept[p] - 1)

\* Go's growth of a slice of pointers, for up to 16 of them.
Capacity(needed, capacity) ==
  LET wanted == IF needed > 2 * capacity THEN needed ELSE 2 * capacity
  IN IF wanted > 4 THEN wanted + (wanted % 2) ELSE wanted

Array == IF arrays = <<>> THEN <<>> ELSE arrays[Len(arrays)]

\* The cells of its batch that p has yet to give to the book.
Unread(p) == IF pc[p] = "apply" THEN at[p]..batch[p].length ELSE {}

\* Mutant: the new events replace the cached ones.
PendReplaces(p) ==
  /\ pc[p] = "pend"
  /\ cached' = Len(Filtered(p))
  /\ arrays' = Append(arrays, Filtered(p))
  /\ pc' = [pc EXCEPT ![p] = "check"]
  /\ UNCHANGED <<overwritten, subscribed, listeners, emitted, readVars, handled, crashed>>

\* pendEvent: append under mxEvents, in place while the array has room.
Pend(p) ==
  LET length == cached + Len(Filtered(p))
      Cell(i) == IF i > cached /\ i <= length THEN Filtered(p)[i - cached]
                 ELSE IF i <= Len(Array) THEN Array[i] ELSE None
  IN /\ pc[p] = "pend"
     /\ cached' = length
     /\ IF length <= Len(Array)
        THEN /\ arrays' = [arrays EXCEPT ![Len(arrays)] = [i \in DOMAIN @ |-> Cell(i)]]
             /\ overwritten' = (overwritten \/
                  \E q \in Goroutines : /\ batch[q].array = Len(arrays)
                                        /\ Unread(q) \cap ((cached + 1)..length) # {})
        ELSE /\ arrays' = Append(arrays, [i \in 1..Capacity(length, Len(Array)) |-> Cell(i)])
             /\ UNCHANGED overwritten
     /\ pc' = [pc EXCEPT ![p] = "check"]
     /\ UNCHANGED <<subscribed, listeners, emitted, readVars, handled, crashed>>

\* The length is read after the lock is given back.
CheckFull(p) ==
  /\ pc[p] = "check"
  /\ pc' = [pc EXCEPT ![p] = IF cached >= MaxEventCache THEN "take" ELSE "done"]
  /\ UNCHANGED <<subscribed, listeners, emitted, cacheVars, readVars, handled, crashed>>

-----------------------------------------------------------------------------
(* handleEvents.                                                           *)

\* Mutant: the ticker's goroutine ends with its first batch.
RestEnds(p) == "done"

Rest(p) == IF p \in Tickers THEN "wait" ELSE "done"

\* Mutant: a batch always has maxEventCache cells.
TakeFixedLength(p) ==
  /\ pc[p] = "take" \/ (pc[p] = "wait" /\ cached > 0)
  /\ IF cached = 0
     THEN pc' = [pc EXCEPT ![p] = Rest(p)] /\ UNCHANGED <<batch, cached>>
     ELSE /\ pc' = [pc EXCEPT ![p] = "apply"]
          /\ batch' = [batch EXCEPT ![p] = [array |-> Len(arrays), length |-> MaxEventCache]]
          /\ cached' = 0
  /\ UNCHANGED <<subscribed, listeners, emitted, arrays, overwritten, at, kept, handled, crashed>>

\* Under mxEvents: the batch shares its array with the cache.  A ticker whose
\* context is cancelled may still take a tick: select chooses freely.
Take(p) ==
  /\ pc[p] = "take" \/ (pc[p] = "wait" /\ cached > 0)
  /\ IF cached = 0
     THEN pc' = [pc EXCEPT ![p] = Rest(p)] /\ UNCHANGED <<batch, cached>>
     ELSE /\ pc' = [pc EXCEPT ![p] = "apply"]
          /\ batch' = [batch EXCEPT ![p] = [array |-> Len(arrays), length |-> cached]]
          /\ cached' = 0
  /\ UNCHANGED <<subscribed, listeners, emitted, arrays, overwritten, at, kept, handled, crashed>>

\* Mutant: the cache is emptied once more when the batch has been handled.
ApplyThenEmpties(p) ==
  LET event == arrays[batch[p].array][at[p]]
      last == at[p] = batch[p].length
  IN /\ pc[p] = "apply" /\ event # None
     /\ handled' = [handled EXCEPT ![event] = @ + 1]
     /\ at' = [at EXCEPT ![p] = IF last THEN 1 ELSE @ + 1]
     /\ pc' = [pc EXCEPT ![p] = IF last THEN Rest(p) ELSE @]
     /\ batch' = [batch EXCEPT ![p] = IF last THEN NoBatch ELSE @]
     /\ cached' = IF last THEN 0 ELSE cached
     /\ UNCHANGED <<subscribed, listeners, emitted, arrays, overwritten, kept, crashed>>

\* The loop of HandleOrderEvents reads the cells one after the other.  With the
\* last one the batch is done with: what is emitted then changes nothing here.
Apply(p) ==
  LET event == arrays[batch[p].array][at[p]]
      last == at[p] = batch[p].length
  IN /\ pc[p] = "apply"
     /\ IF event = None
        THEN crashed' = TRUE /\ UNCHANGED <<handled, at, pc, batch>>
        ELSE /\ handled' = [handled EXCEPT ![event] = @ + 1]
             /\ at' = [at EXCEPT ![p] = IF last THEN 1 ELSE @ + 1]
             /\ pc' = [pc EXCEPT ![p] = IF last THEN Rest(p) ELSE @]
             /\ batch' = [batch EXCEPT ![p] = IF last THEN NoBatch ELSE @]
             /\ UNCHANGED crashed
     /\ UNCHANGED <<subscribed, listeners, emitted, cacheVars, kept>>

TickerEnds(p) ==
  /\ pc[p] = "wait" /\ Cancelled(p[2])
  /\ pc' = [pc EXCEPT ![p] = "done"]
  /\ UNCHANGED <<subscribed, listeners, emitted, cacheVars, readVars, handled, crashed>>

-----------------------------------------------------------------------------

Init ==
  /\ subscribed = FALSE /\ listeners = 0
  /\ emitted = <<>>
  /\ arrays = <<>> /\ cached = 0 /\ overwritten = FALSE
  /\ pc = [p \in Goroutines |-> "idle"]
  /\ at = [p \in Goroutines |-> 1] /\ kept = [p \in Goroutines |-> 1]
  /\ batch = [p \in Goroutines |-> NoBatch]
  /\ handled = [e \in Events |-> 0]
  /\ crashed = FALSE

Listener(p) == FilterCell(p) \/ FilterEnds(p) \/ Pend(p) \/ CheckFull(p)
HandleEvents(p) == Take(p) \/ Apply(p)

Step(p) == ~crashed /\ (Listener(p) \/ HandleEvents(p) \/ TickerEnds(p))

Next ==
  \/ ~crashed /\ (Subscribe \/ Unsubscribe \/ HandleTxLogs)
  \/ \E p \in Goroutines : Step(p)

\* Goroutines are scheduled and tickers tick; nobody has to subscribe or trade.
Spec == Init /\ [][Next]_vars /\ \A p \in Goroutines : WF_vars(Step(p))

-----------------------------------------------------------------------------

\* The state is well-typed: every batch lies within an array eventCache has had.
TypeOK ==
  /\ subscribed \in BOOLEAN /\ overwritten \in BOOLEAN /\ crashed \in BOOLEAN
  /\ listeners \in 0..MaxListeners
  /\ emitted \in Seq(Seq(Events \cup {None})) /\ Len(emitted) <= Len(Transactions)
  /\ arrays \in Seq(Seq(Events \cup {None}))
  /\ cached \in 0..Len(Array)
  /\ pc \in [Goroutines -> {"idle", "filter", "pend", "check", "wait", "take", "apply",
                            "done"}]
  /\ at \in [Goroutines -> Nat \ {0}] /\ kept \in [Goroutines -> Nat \ {0}]
  /\ batch \in [Goroutines -> Batches]
  /\ \A p \in Goroutines : pc[p] = "apply" =>
       /\ batch[p].array \in DOMAIN arrays
       /\ batch[p].length <= Len(arrays[batch[p].array])
       /\ at[p] <= batch[p].length
  /\ handled \in [Events -> Nat]

Alive == ~crashed

\* Filtering in place clears the tail of a slice that all callbacks of one
\* emission share: a callback that meets a cleared cell ends the program, and so
\* does a cleared cell that reaches the book.  With one listener neither can
\* happen; Unsubscribe leaves the listener behind, so a second Subscribe is enough.
PanicNeedsSecondListener == crashed => listeners > 1

Times(e, cells) == Cardinality({i \in DOMAIN cells : cells[i] = e})

\* No two transactions log the same event: an event is a pointer that its
\* decoding has allocated.
EventsApart ==
  \A m, n \in Emissions : m # n =>
    \A i \in DOMAIN Transactions[m] : \A j \in DOMAIN Transactions[n] :
      Transactions[m][i] # Transactions[n][j]

\* An event that the listener was called for is, at any moment, in exactly one
\* place: in a callback, in the cache, in the unread part of one batch or already
\* with the book - as long as one listener is registered and no append has
\* written into a batch that was still being read.
OnceUnlessOverwritten ==
  Alive /\ listeners = 1 /\ ~overwritten =>
    \A n \in DOMAIN emitted : \A e \in OrderEvents :
      pc[<<n, 1>>] # "idle" /\ Times(e, Transactions[n]) = 1 =>
        (IF pc[<<n, 1>>] \in {"filter", "pend"} THEN 1 ELSE 0)
          + Times(e, SubSeq(Array, 1, cached))
          + Cardinality({p \in Goroutines : \E i \in Unread(p) :
                           arrays[batch[p].array][i] = e})
          + handled[e] = 1

\* Overwritten or not, the book is given as many events as were appended: the ones
\* lost when the cache overwrites a batch are made up for by others given twice.
AsManyAsAppended ==
  LET Appended == {p \in Callbacks : pc[p] \notin {"idle", "filter", "pend"}}
  IN Alive =>
       Cardinality(UNION {{p} \X (1..kept[p] - 1) : p \in Appended}) =
         cached + Cardinality(UNION {{p} \X Unread(p) : p \in Goroutines})
                + Cardinality(UNION {{e} \X (1..handled[e]) : e \in Events})

\* While subscribed, events in the cache do not wait for it to fill: the ticker
\* hands them to the book.
CacheIsEmptied ==
  (subscribed /\ cached > 0) ~> (cached = 0 \/ ~subscribed \/ crashed)
=============================================================================
