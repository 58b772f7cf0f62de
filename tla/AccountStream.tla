---------------------------- MODULE AccountStream ----------------------------
(***************************************************************************)
(* GeyserProgramAccountSubscriber and the geyser.Subscription below it: a  *)
(* stream of account updates that a ticker replaces when it has delivered  *)
(* nothing for too long.                                                   *)
(*                                                                         *)
(* Goroutines: the program, which subscribes once and unsubscribes once    *)
(* (GeyserSubscription of the user map throws its subscriber away then),   *)
(* one ticker for each Subscribe, and one reader for each stream.  They    *)
(* share the fields of the subscriber without a lock.                      *)
(*                                                                         *)
(* Time is left out: a second without an update may pass at any moment,    *)
(* and select may choose a tick though the context is done as well.  An    *)
(* account is the hash of its orders.                                      *)
(***************************************************************************)
EXTENDS Integers, Sequences, FiniteSets

CONSTANTS
  Keys,        \* user accounts
  Accounts,    \* what may be in one
  Updates,     \* what the chain may write
  MaxWrites,   \* bound on the writes
  MaxStreams,  \* bound on the streams opened
  MaxDeaths,   \* bound on the streams that fail
  None         \* no update

ASSUME StreamAssumption ==
  /\ Updates \subseteq [key : Keys, slot : Nat, account : Accounts]
  /\ {MaxWrites, MaxStreams, MaxDeaths} \subseteq Nat
  /\ None \notin Updates

Program == 0
Streams == 1..MaxStreams
Tickers == 1..MaxStreams
Processes == {Program} \cup Tickers

VARIABLES
  written,        \* what the chain has written, in the order the streams deliver it
  \* The subscriber
  stream,         \* subscription, 0 for nil
  cancel,         \* the ticker that cancel stops, 0 for nil
  received,       \* lastReceived > 0
  unsubscribing,  \* isUnsubscribing
  buffer,         \* bufferAndSlot: the last update let through, of whatever key
  pc,             \* pc[p]: where the program, or ticker p, is
  armed,          \* tickers started
  cancelled,      \* tickers whose context is done
  \* Streams
  opened,         \* streams opened
  open,           \* those with IsSubscribed
  dead,           \* those that will deliver nothing more, though nobody closed them
  read,           \* read[s]: how much of written is behind s
  hand,           \* hand[s]: the update its reader holds ...
  at              \* ... and what it does with it

tickerVars == <<stream, cancel, unsubscribing, pc, armed, cancelled>>
readerVars == <<received, buffer, hand, at>>
streamVars == <<opened, open, dead, read>>
feedVars == <<written, tickerVars, readerVars, streamVars>>

-----------------------------------------------------------------------------
(* The chain, and streams that fail.                                       *)

LastSlot == IF written = <<>> THEN 0 ELSE written[Len(written)].slot

Write ==
  /\ Len(written) < MaxWrites
  /\ \E u \in Updates : u.slot >= LastSlot /\ written' = Append(written, u)
  /\ UNCHANGED <<tickerVars, readerVars, streamVars>>

\* Recv fails, ends or blocks for good: the reader is gone, IsSubscribed stays.
Die(s) ==
  /\ s \in open \ dead /\ Cardinality(dead) < MaxDeaths
  /\ dead' = dead \cup {s}
  /\ UNCHANGED <<written, tickerVars, readerVars, opened, open, read>>

-----------------------------------------------------------------------------
(* A reader.                                                               *)

Receive(s) ==
  /\ s \in open \ dead /\ at[s] = "recv" /\ read[s] < Len(written)
  /\ read' = [read EXCEPT ![s] = @ + 1]
  /\ hand' = [hand EXCEPT ![s] = written[read[s] + 1]]
  /\ at' = [at EXCEPT ![s] = "filter"]
  /\ received' = TRUE
  /\ UNCHANGED <<written, tickerVars, buffer, opened, open, dead>>

\* Mutant: an update of the slot that was seen last is taken for an old one.
IsNewsLater(u) == buffer = None \/ u.slot > buffer.slot

\* handleRpcResponse lets through what is not older than the last update, of
\* whatever key, and not the same bytes.
IsNews(u) ==
  \/ buffer = None
  \/ u.slot >= buffer.slot /\ <<u.key, u.account>> # <<buffer.key, buffer.account>>

Filter(s) ==
  /\ at[s] = "filter"
  /\ at' = [at EXCEPT ![s] = IF IsNews(hand[s]) THEN "store" ELSE "recv"]
  /\ hand' = IF IsNews(hand[s]) THEN hand ELSE [hand EXCEPT ![s] = None]
  /\ UNCHANGED <<written, tickerVars, received, buffer, streamVars>>

\* Mutant: the update is moved into the buffer, and nothing is left for the callback.
StoreMoves(s) ==
  /\ at[s] = "store"
  /\ buffer' = hand[s]
  /\ hand' = [hand EXCEPT ![s] = None]
  /\ at' = [at EXCEPT ![s] = "change"]
  /\ UNCHANGED <<written, tickerVars, received, streamVars>>

Store(s) ==
  /\ at[s] = "store"
  /\ buffer' = hand[s]
  /\ at' = [at EXCEPT ![s] = "change"]
  /\ UNCHANGED <<written, tickerVars, received, hand, streamVars>>

\* The callback itself is the business of whoever subscribed.
OnChange(s) ==
  /\ at[s] = "change"
  /\ at' = [at EXCEPT ![s] = "recv"]
  /\ hand' = [hand EXCEPT ![s] = None]
  /\ UNCHANGED <<written, tickerVars, received, buffer, streamVars>>

-----------------------------------------------------------------------------
(* Subscribe and Unsubscribe, of the program and of the tickers.           *)

\* Subscribe, as far as the reader is started.
Open(p) ==
  LET s == opened + 1
  IN /\ pc[p] \in {"new", "asleep"} /\ s \in Streams
     /\ opened' = s /\ stream' = s
     /\ open' = open \cup {s}
     /\ read' = [read EXCEPT ![s] = Len(written)]
     /\ pc' = [pc EXCEPT ![p] = "arm"]
     /\ UNCHANGED <<written, cancel, unsubscribing, armed, cancelled, readerVars, dead>>

\* ... and the rest: a ticker is started, and the earlier cancel is forgotten.
Arm(p) ==
  LET t == armed + 1
  IN /\ pc[p] = "arm"
     /\ armed' = t /\ cancel' = t
     /\ pc' = [pc EXCEPT ![p] = IF p = Program THEN "subscribed" ELSE "wait", ![t] = "wait"]
     /\ UNCHANGED <<written, stream, unsubscribing, cancelled, readerVars, streamVars>>

\* Unsubscribe, as far as the ticker is cancelled.
Cancel(p) ==
  /\ pc[p] \in {"subscribed", "timeout"}
  /\ unsubscribing' = TRUE
  /\ cancelled' = cancelled \cup ({cancel} \ {0})
  /\ cancel' = 0
  /\ pc' = [pc EXCEPT ![p] = "close"]
  /\ UNCHANGED <<written, stream, armed, readerVars, streamVars>>

\* Mutant: isUnsubscribing is not reset.
CloseForGood(p) ==
  /\ pc[p] = "close"
  /\ open' = open \ {stream}
  /\ pc' = [pc EXCEPT ![p] = IF p = Program THEN "unsubscribed" ELSE "asleep"]
  /\ UNCHANGED <<written, unsubscribing, stream, cancel, armed, cancelled, readerVars,
                 opened, dead, read>>

\* Mutant: the stream is left to end by itself.
CloseNothing(p) ==
  /\ pc[p] = "close"
  /\ unsubscribing' = FALSE
  /\ pc' = [pc EXCEPT ![p] = IF p = Program THEN "unsubscribed" ELSE "asleep"]
  /\ UNCHANGED <<written, stream, cancel, armed, cancelled, readerVars, streamVars>>

\* ... and the rest: whatever is subscription by now is closed.
Close(p) ==
  /\ pc[p] = "close"
  /\ open' = open \ {stream}
  /\ unsubscribing' = FALSE
  /\ pc' = [pc EXCEPT ![p] = IF p = Program THEN "unsubscribed" ELSE "asleep"]
  /\ UNCHANGED <<written, stream, cancel, armed, cancelled, readerVars, opened, dead, read>>

\* setTimeout, as far as its test of isUnsubscribing.
Tick(t) ==
  /\ pc[t] = "wait" /\ received /\ ~unsubscribing
  /\ pc' = [pc EXCEPT ![t] = "timeout"]
  /\ UNCHANGED <<written, stream, cancel, unsubscribing, armed, cancelled, readerVars, streamVars>>

Stop(t) ==
  /\ pc[t] = "wait" /\ t \in cancelled
  /\ pc' = [pc EXCEPT ![t] = "stopped"]
  /\ UNCHANGED <<written, stream, cancel, unsubscribing, armed, cancelled, readerVars, streamVars>>

-----------------------------------------------------------------------------

StreamInit ==
  /\ written = <<>>
  /\ stream = 0 /\ cancel = 0 /\ armed = 0 /\ opened = 0
  /\ received = FALSE /\ unsubscribing = FALSE
  /\ buffer = None
  /\ pc = [p \in Processes |-> IF p = Program THEN "new" ELSE "none"]
  /\ cancelled = {} /\ open = {} /\ dead = {}
  /\ read = [s \in Streams |-> 0]
  /\ hand = [s \in Streams |-> None] /\ at = [s \in Streams |-> "recv"]

\* What a process does without anybody's wish: all but subscribing and unsubscribing.
Continue(p) == Arm(p) \/ Close(p) \/ (p \in Tickers /\ (Open(p) \/ Cancel(p)))

Reader(s) == Receive(s) \/ Filter(s) \/ Store(s)
Ticker(t) == Tick(t) \/ Stop(t)

\* All but what a consumer adds to: the start and the callback.
StreamNext ==
  \/ Write
  \/ \E s \in Streams : Die(s) \/ Reader(s)
  \/ \E t \in Tickers : Ticker(t)
  \/ \E p \in Processes : Continue(p)
  \/ Cancel(Program)

Next == StreamNext \/ Open(Program) \/ \E s \in Streams : OnChange(s)

\* No open stream delivers anything any more: the ticks' timeout passes.
Silence == open \subseteq dead

\* Goroutines are scheduled, and ticks come when the last update is old enough.
StreamFairness ==
  /\ \A p \in Processes : WF_feedVars(Continue(p))
  /\ \A t \in Tickers : WF_feedVars(Silence /\ Tick(t))

Spec == StreamInit /\ [][Next]_feedVars /\ StreamFairness

-----------------------------------------------------------------------------

\* The state is well-typed, and an update is in hand exactly while a reader has
\* something to do with it.
StreamTypeOK ==
  /\ written \in Seq(Updates) /\ Len(written) <= MaxWrites
  /\ stream \in 0..opened /\ cancel \in 0..armed /\ armed \in 0..opened
  /\ received \in BOOLEAN /\ unsubscribing \in BOOLEAN
  /\ buffer \in Updates \cup {None}
  /\ pc \in [Processes -> {"new", "arm", "subscribed", "unsubscribed", "none", "wait",
                           "timeout", "close", "asleep", "stopped"}]
  /\ \A t \in Tickers : pc[t] = "none" <=> t > armed
  /\ opened \in 0..MaxStreams
  /\ open \subseteq 1..opened /\ dead \subseteq 1..opened /\ cancelled \subseteq 1..armed
  /\ read \in [Streams -> 0..Len(written)]
  /\ hand \in [Streams -> Updates \cup {None}]
  /\ at \in [Streams -> {"recv", "filter", "store", "change"}]
  /\ \A s \in Streams : hand[s] = None <=> at[s] = "recv"

\* Whoever will see to the streams: a ticker nobody cancelled, or a process in
\* the middle of Subscribe or setTimeout.
Watchers ==
  {t \in Tickers : pc[t] = "wait" /\ t \notin cancelled}
    \cup {p \in Processes : pc[p] \in {"arm", "timeout", "close", "asleep"}}

\* No stream stays open unattended.  Two tickers that time out together leave a
\* stream open that is no longer the subscription, and the program's Unsubscribe
\* misses the one that a sleeping ticker opens later: in both cases a ticker that
\* nobody cancelled watches over it.
OpenIsWatched == open # {} => Watchers # {}

\* A subscription whose stream dies is replaced, once it has delivered anything
\* at all: until then lastReceived is 0 and the ticker waits for ever.
Heals ==
  (Silence /\ received /\ pc[Program] = "subscribed")
    ~> (~Silence \/ pc[Program] # "subscribed" \/ opened = MaxStreams)
=============================================================================
