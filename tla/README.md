# go-drift, specified

TLA+ specifications of the order book that go-drift, a Go client of the Drift
exchange, keeps of everybody's open orders, and of the streams and caches that
feed it, with TLC configurations that check them on small instances and TLAPS
proofs of what matters most about them.
Paths such as `dlob/DLOB.go:268` are relative to the repository.

## 1. The system

A program built on go-drift mirrors the orders that live on a chain, looks for
orders it can fill or trigger, and sends transactions. The parts:

| Part | Code | State | Operations |
|---|---|---|---|
| Order list | `dlob/NodeList.go`, `DLOBNode.go` | doubly linked list, signature map, counter; per node the order and its fill attempts | Insert, Update, Remove, Clear, TryFill, ResetTryFill, GetGenerator |
| Order book | `dlob/DLOB.go` | per market six kinds of lists on two sides; `UserOrderMap` (order and slot it was learnt in); `MaxSlotForRestingLimitOrders`; a lock | InitFromUserMap, UpdateByUser, HandleOrderEvents, HandleBulkOrders, UpdateRestingLimitOrders, the `Find...` and `Get...` queries |
| Generator | `common/generator.go` | a producer goroutine, a channel of one | Next, Each, Cancel |
| Book subscriber | `dlob/DLOBSubscriber.go` | the book, an event cache, the time it was last handled | Subscribe, pendEvent, handleEvents, updateDLOBByUser, Unsubscribe |
| Event emitter | `lib/event/eventEmitter.go` | callbacks per event | On, Once, Off, Emit (a goroutine per callback) |
| Program events | `events/` | the log stream and its last activity | subscribe, resubscribe on silence, parse logs |
| User map | `userMap/userMap.go` | users with the slot of their data, a hash of their orders | Sync, UpdateUserAccount, Unsubscribe |
| Order subscriber | `orderSubscriber/` | the latest snapshot per account | Fetch, TryUpdateUserAccount, GetDLOB |
| Account subscribers | `accounts/` | last buffer and slot, the subscription | subscribe, resubscribe on silence, poll |
| Slot, blockhash | `slot/`, `blockhashSubscriber/` | the current slot; recent blockhashes | subscribe, poll, prune |
| Jitter | `auctionSubscriber/`, `jit_proxy/` | seen orders, auctions under way, pending tasks | onAccountUpdate, tryFill, retry, complete |
| Book levels | `dlob/orderBookLevels.go` | none | merge, group and uncross price levels |
| The rest | `drift/`, `tx/`, `math/`, `oracles/`, `priorityFee/`, `connection/` | caches | instructions, margin formulas, HTTP, transport |

How they interact: the stream of program accounts feeds the user map, which
announces a user's changed orders ("userOrderUpdated"); the stream of
transaction logs is parsed into events ("newEvent"). Both announcements go
through the emitter, which starts a goroutine for each callback, so they reach
the book subscriber in any order. It passes snapshots to `UpdateByUser` one at
a time and batches of events to `HandleOrderEvents`. A filler calls
`FindNodesToFill` from goroutines of its own.

What is hard here: two unordered streams about the same orders; classification
that happens before the lock is taken; orders that change lists as slots pass;
queries that write under a read lock; generators that run ahead of the loops
that consume them; order ids that are unique per user only; unsigned slots and
amounts; orders that one query moves while another walks or fills them;
messages lost by a subscription that starts late, restarts or filters
by slot. What would make each part correct:

- **order list**: price-time order, nothing lost, map and links agree, loops end;
- **order book**: old messages do not overwrite new ones, each order is in the
  list its nature calls for exactly while it is tracked, and the book comes to
  agree with the chain;
- **matching**: what is reported can be executed, nothing that crosses is
  overlooked, concurrent searches do not corrupt amounts, every search ends;
- **event pipeline**: every event reaches the book once, no callback meets what
  another has cleared, and nothing waits in the cache for ever;
- **account streams**: a stream that dies is replaced, and no stream stays open
  that nobody will close;
- **user map**: data does not go back to an older slot, and the book is told of
  every change of a user's orders;
- **jitter**: an order is tried by one worker at a time and is forgotten once the
  work is done (not modelled, see section 6);
- **book levels**: merging and grouping conserve the size (not modelled).

## 2. Modules

| Module | Models | Composes |
|---|---|---|
| `PriceTimeQueue` | what a side of the book promises: a sequence in price-time priority | |
| `NodeList` | the linked list with its map | refines `PriceTimeQueue` |
| `NodeListProofs` | theorems about `NodeList` | |
| `DLOB` | maintenance of the book by two streams | lists as `NodeList` presents them |
| `Matching` | `FindNodesToFill`, its generators and its callers | lists in the order `NodeList` proves |
| `EventPipeline` | a decoded event's way through emitter, listeners and event cache to the book | ends where `DLOB`'s `HandleOrderEvents` begins |
| `AccountStream` | the program account subscriber: its ticker, resubscription and buffer, over the stream client | |
| `UserFeed` | the user map: `Sync`, `UpdateUserAccount`, announcements | extends `AccountStream`: its readers are the streams' |
| `DLOBAccountsProofs` | theorems about `DLOB` fed by snapshots alone | extends `DLOBProofs` |
| `DLOBProofs`, `MatchingProofs`, `MatchingAloneProofs`, `EventPipelineProofs`, `AccountStreamProofs`, `UserFeedProofs` | theorems about the module of that name | |
| `MC...` | small instances for TLC | |

### NodeList

The variables are the fields of `NodeList` and `OrderNode`; a node object is an
element of a finite heap, reused once nothing points to it, as a garbage
collector may. An operation is one step: every caller holds the book's lock.
Price and slot are functions of the order's signature, since a modified order
gets a new id and a triggered one goes to another list. Two facts shape the
specification. The map is keyed by user and order id but `Remove` recognises the
head by the order id alone (`NodeList.go:171`); ids are counted per user, so two
users' orders may share one. And insertion walks the links: that the loop ends,
and where, is part of the state's correctness (`LoopStops` is stated for the
node at which the code's loop stops, reachable from the head).

`Queue == INSTANCE PriceTimeQueue WITH queue <- Traversal` reads the list as its
generator does (`Yielded`, by following the links from the head); `ImplementsQueue`
says that each operation does to that sequence what the abstract queue does: an
insertion puts the order behind those that it does not precede, an update replaces
it where it is, a removal closes the gap.

### DLOB

`ledger` is the chain, an environment: every write has a slot, the open orders
after it and the event it logs. A message is a position in the ledger: a
snapshot of the owner's account, or an event. Messages in flight form sets, so
they arrive in any order; one that is never taken is lost. `start` is what the book was
built from: how much of the ledger the user map had seen, and the slot the book
was stamped with. The book's own state
is `tracked` (`UserOrderMap`), `lists` (`OrderLists`, each as the map from orders
to versions that `NodeList` presents), `maxSlot`, `known` and the lock.

The steps follow the code's lock regions:

- `ReadTracked` and `ClassifySnapshot`: the two loops of `UpdateByUser`, which
  run without a lock, as two steps;
- `HandleOrderEvents`: the classification of a batch, atomic under the read lock;
- `Apply`: one order of the bulk at a time while the write lock is held, in the
  order insert, rest, update, trigger, delete, which is that of
  `HandleBulkOrders` and `UpdateByUser`. Between the items nobody else gets the
  lock (`writer`), but the lock-free classification of a snapshot may read;
- `MoveResting`: `UpdateRestingLimitOrders` as one of these items, under the write
  lock, where nobody can look between its steps;
- `Find`, `Collect`, `RemoveDue`, `InsertDue`: the same function called by a finder,
  under a read lock it shares with other finders, step by step as the code takes it.
  It compares its slot with `maxSlot` (`asked`), stores it and collects the nodes
  (`due`), and then removes and inserts them one at a time; in between a node is in
  no list, only in the finder's hand (`hand`). Two finders may pass the comparison
  together, set `maxSlot` back, collect the same nodes, or miss some the other is
  removing. `Apply`, which needs the write lock, waits until all are `Idle`;
- `Subscribe`: `InitFromUserMap`, stamped with the slot source's slot, which may be
  any that is not behind the user map. Messages in flight stay in flight; if the
  messages are to come in order (`Tidy`), those before are what the user map has
  seen, and it passes over them.

What is classified is a *captured* order and a slot, and the list to change is
recomputed from them when the item is applied: that is where the code can go
wrong and why captured values are kept in `todo`. Slots are subtracted modulo
`Word`, as in `IsAuctionComplete`. A market and a side never change, so one set
of lists stands for all.

### Matching

A book of orders is chosen initially; searches then run `FindNodesToFill` part by
part (`Phases`): crossing resting orders, the AMM's offers, taking asks, taking
bids. Each loop consumes a generator whose producer (`Yield`) merges two lists,
passes over filled orders and runs up to `Ahead` values ahead: one in the channel
and one in hand. A match writes its simulated fill in two steps (`Write`), each
into the list the search's slot implies, which does nothing if the node is
elsewhere. Between two searches updates from the chain replace the amounts
(`Update`); they need the write lock, so no search is under way.

A search whose slot is the highest so far begins by moving the orders that came to
rest (`Collect`, `RemoveDue`, `InsertDue`, `Moved`), and nothing keeps the other
searches out meanwhile: all hold the lock for reading. `place` says which list has an
order's node, none while it is moved. What a mover does to those who walk the same
lists is kept for each of them: `gone[f][o]` is the amount in the node of `o` when it
was removed under `f`, who may still come to it, look at it, and write to a list that
has it no more; and once the list changed under `f` (`loose`), the walk may meet the
other nodes in any order, miss some, and end. Searches that are in a list's Go map at
once while one of them changes it are ended by the runtime, with the program, if it
notices (`Race`, `ended`); if it does not, they go on. One thing is coarser here than
in `DLOB`: the comparison with `maxSlot` and its assignment are one step.

The lists are sorted as `AddOrderList` creates them: by `order.Price` in every
list, descending only for resting and floating bids. The makers of taking bids
are taken from the resting *bids* (`DLOB.go:1207`), as the code has it; they come
from the dearest down, the loop stops at the first that is too dear, and so passes
over cheaper ones that its condition would accept. `NothingOverlooked` is therefore
about the two loops over asks.

Expired orders (`FindExpiredNodesToFill`) are read and appended; they touch no
state. Merging by taker is a regrouping of the matches.

### EventPipeline

The processes are the goroutine of each listener for each emission and the ticker
of each subscription. What they share is what makes the code hard to test:

- `emitted[n]`, one slice for all listeners of an emission. A listener filters it
  with `slices.DeleteFunc`, which moves what stays to the front (`FilterCell`, a
  cell at a time) and then clears the tail (`FilterEnds`);
- `arrays` and `cached`: a Go slice is an array and a length, so `handleEvents`
  (`Take`) that keeps the old slice and sets the length to zero leaves the array to
  the next append. `Pend` appends in place while there is room, else to a new array
  of the capacity Go's growth gives (`Capacity`); `Apply` reads one cell of the
  batch at a time, without the lock;
- `listeners`: `Unsubscribe` never calls `Off`, so each subscription adds one. The
  listeners of all subscriptions go on appending to the one cache.

`CheckFull` reads the length after the lock was given back, as `pendEvent` does. A
ticker takes a batch at any moment the cache holds something, also once when its
context is done, since `select` chooses freely. `handled` counts what the book was
given; what the book does with it is in `DLOB`. `overwritten` and `crashed` are
there for the properties: the code has no such variables.

### AccountStream

The processes are the program, a ticker for each `Subscribe` and a reader for each
stream; they share the subscriber's fields without a lock. Each handler is cut
where another process can see the difference: `Open`/`Arm` are `Subscribe` before
and after the reader runs, `Cancel`/`Close` are `Unsubscribe` around the test of
`isUnsubscribing` a ticker makes, and `Tick`, `Cancel`, `Close`, `Open`, `Arm` in
that order are `setTimeout`, with its sleep between `Close` and `Open`. A reader
receives, compares with `bufferAndSlot` (`Filter`), stores (`Store`) and calls back
(`OnChange`) in four steps, since the readers of an old and of a new stream may run
together. `Die` is the environment: a stream that will deliver nothing more though
nobody closed it. The chain writes updates in the order of slots, and a stream
delivers those written after it was opened.

What the model shows and what no property forbids, because the code does it:
a cancelled ticker may tick once more; two tickers can time out together and leave
a stream open that is not `subscription`; the program's `Unsubscribe` that falls
into the sleep of `setTimeout` is undone; a stream that dies before its first
update is never replaced, because `lastReceived` is zero; what the chain writes
between two streams is not fetched.

`geyserAccountSubscriber` and `geyserLogProvider` copy the protocol. The first
leaves `Subscribe` without a ticker if the subscription fails; the second never
resets `isUnsubscribing`, so it is resubscribed once: that is the mutant
`CloseForGood`, which TLC finds to violate `Heals`.

### UserFeed

`UserFeed` extends `AccountStream`: the callback of a reader (`Deliver`) is
`UpdateUserAccount`, and the program's first `Open` comes after its `Sync`. An
account is the hash of its orders, since `updateStatus` looks at nothing else.
`UpdateUserAccount` and the body of `Sync` hold `mxState` and are one step each; the
flag that keeps two `Sync`s apart is tested (`SyncTest`) and set (`SyncSet`) in two.
`Callbacks` are goroutines of "stateAccountUpdate", which may sync at any moment,
also after `Unsubscribe` has emptied the map (`Empty`), which then fills again.

`Sync`'s answer is a stub in the code, the same users at the same old slot each
time (`Response`, `ResponseSlot`). Users it does not name are deleted; a user it adds
is announced to nobody and leaves no status. The status survives deletion and
`Unsubscribe`.

## 3. Runs

| Run | Instance | Shows |
|---|---|---|
| `NodeListDistinct` | 4 orders with 4 ids, 4 nodes, asks | the list implements the queue; links, order, nothing lost |
| `NodeListShared` | 2 users with ids 1 and 2, 5 nodes, bids | map and counter agree, walks are in order and end, whatever ids are shared |
| `NodeListLoss` | the same | **violated**: orders are cut off from the head |
| `DLOBInOrder` | 3 orders of 2 users, 4 writes in 3 slots, snapshots in order, a book stamped at any slot, no finder | each order in one list with its latest content; the book agrees with the chain at last |
| `DLOBAccounts` | 2 orders, 3 writes in 3 slots, snapshots lost and reordered, two finders that move orders node by node | a tracked order is in a list or in a finder's hand; no fill unlearnt |
| `DLOBStreams` | 3 orders, 3 writes in 2 slots, no finder, snapshots and two event handlers with batches of 2 | stamps never regress, static orders listed exactly while tracked |
| `MatchingAlone` | 5 orders in 128 books, one search at a time with a current slot, which moves the orders at rest first | matches are executable, none of asks overlooked, maker and taker the right way round |
| `MatchingTogether` | 3 orders in 2 books, two searches with slots 3 and 4 in any order, one moving an order whose auction ends while the other walks and fills it | amounts stay between confirmed and size; every search ends, unless two meet in a map and the program ends |
| `MatchingMarket` | 2 market bids in 16 books | **violated**: market lists are not in the order of time |
| `EventPipelineCache` | 2 transactions with 4 events, a cache of 2, 2 subscriptions, 2 callbacks at a time | which events reach the book, how often, when a goroutine meets nil; the cache does not wait to fill |
| `AccountStreamTimeouts` | 1 update, 4 streams that may all die, the program unsubscribing at any point | no stream is open unattended; a dead stream is replaced |
| `UserFeedStreams` | 2 users, 2 writes out of 4 updates, 2 streams, 2 Syncs | slots do not go back; what goes unannounced; what the shared buffer withholds |

Why the bounds are enough. *NodeList*: four orders give a head, a tail and two
inner neighbours, so every case of insertion and removal meets every other;
prices and slots include a tie in price, a tie in both and neither; the heap is
one larger than the list where an address must be reused while another list
position is stale. *DLOB*: three writes already contain a place, a change and an
end of one order with a message of each in flight; batches of two events and two
handlers let classifications overlap in all ways; a slot may carry several writes;
two finders are enough for one to read what another moves, for two to move the same
node and for `maxSlot` to go back, and three slots let an auction end, or a book be
stamped, between two writes (`DLOBInOrder` with four slots has 1.5 million states and
holds as well). *Matching*: sizes 1 and 2 make both sides of a match
the smaller one; two asks and two bids with equal and different prices let a
crossing maker stand behind one that does not cross; in `MatchingTogether` the ask's
auction ends at the first slot of a search or at the second, so that the search at
the later slot moves it under the one at the earlier. *EventPipeline*: a transaction of three events
with one the book ignores makes the filter move cells and clear one; a cache of two
is reached by the first transaction, and its array then has room for the second to
overwrite a batch under way; two subscriptions give two listeners on one slice.
*AccountStream*: the races are between at most two resubscriptions, each of which
needs one stream more than the first, and one stream is left over; the safety
properties were also checked with six. An update's content matters to the buffer
only, so one is enough here; `UserFeedStreams` has two writes of two users, so that
one user's update stands in the buffer when the other's comes (three writes give
4.3 million states and hold as well). No stream dies there, since what a dead
stream does not deliver an open one need not deliver either.

Bounds by name: `MaxFilled`, `MaxTries`, `Nodes` (NodeList); `MaxSlot`,
`MaxWrites`, `BatchMax`, `FindSlots` (DLOB); `Books`, `SearchSlots` (Matching);
`MaxListeners`, `MaxCallbacks` (EventPipeline; `MaxEventCache` is the code's own
constant, ten there); `MaxWrites`, `MaxStreams`, `MaxDeaths` (AccountStream).
`Word` is 2^64 in the code and any number above twice the largest slot here.
Symmetry is used for the heap's nodes, for the two handlers and for the two finders
of `DLOBAccounts`, which are interchangeable; no property with fairness is checked under symmetry. The DLOB
runs and those of the three feeding modules do not check deadlock, since the writes
and emissions are bounded and the system may stop when all are handled.

**Fairness.** `DLOB!FairSpec`: the stream delivers (`Receive`) and callbacks that have
begun run to their end (`ClassifySnapshot`, `Apply`), since a goroutine that is not
blocked is scheduled and the lock is always given back; `Subscribe` because the
program calls it. Nothing makes the chain write or a finder search.
`Matching!FairSpec`: a search that has begun goes on, as its goroutines are scheduled,
unless the program has ended; nobody has to begin one. `EventPipeline!Spec`: each
goroutine goes on, and a ticker ticks; nobody has to subscribe or trade.
`AccountStream!Spec`: a process in the middle of `Subscribe`, `Unsubscribe` or
`setTimeout` goes on (`Continue`), and once no open stream delivers anything the ticks
find the timeout over (`Silence` joined with `Tick`); no stream has to deliver, to
die, or to stay alive. `UserFeed!FeedSpec` states no fairness: its properties are
about safety.

## 4. What the runs say about the code

Two disagreements:

- **An order list loses orders** (`NodeListLoss`). Remove compares order ids to find
  out whether it removes the head (`NodeList.go:171`). With an id shared by two users'
  orders the head jumps to the removed node's successor. In TLC's trace alice's order
  1 is inserted first, bob's, whose id is 1 too, goes in front of it at the head, and
  alice's is removed from behind it: the head is nil then and bob's order is met no
  more. The orders before it stay in the map and are never met again. `MapConsistent`,
  `WalkInOrder` and `WalkTerminates` hold all the same: what is left is a shorter
  list, not a corrupt one.
- **Market lists are sorted by price** (`MatchingMarket`), although the comment at
  `DLOB.go:1284` relies on time. `AddOrderList` creates every list as one of
  resting orders (`DLOB.go:635`). The floating and the trigger lists have the same
  origin: floating orders are sorted by a price of zero, so with two floating bids
  the early stop may overlook a match, and `FindNodesToTrigger` stops early on
  lists that are not sorted by trigger price.

Conditions that the passing runs state and that are needed; without them TLC
finds a counterexample:

- `InPlace` needs snapshots in the order of the writes, none lost, and no finder. With
  a finder an auctioned order that is placed and cancelled may leave a node behind,
  since `MaxSlotForRestingLimitOrders` is then past the snapshot's slot: the finder
  moved the node to the resting list, the cancel looks in the taking list. While a
  finder moves a node it is in no list at all, which is why `TrackedIsListed` says "or
  in a finder's hand": a finder beside it does not see the order. Neither property
  says that an auctioned order is in the *taking* list when messages arrive out of
  order: for a snapshot older than the order the unsigned difference wraps and the
  order is filed as resting (`math/auction.go:15`).
- `EventuallyMirrored` needs, besides that order, a condition for each user
  (`Covered`): the last write to the account has a slot of its own, later than the
  book's stamp. The book is stamped with the slot source's slot
  (`DLOBSubscriber.go:171`), which runs ahead of the accounts, and the guard
  `order.Slot < slot` ignores snapshots up to the stamp, and the later of two in one
  slot; the book stays behind until the account changes again. It also needs that no
  message is lost once the book is built: in the code one that is announced between
  `updateDLOB` and the registration of the listeners (`DLOBSubscriber.go:65`) is.
- `EventuallyMirrored` is about snapshots. With events alone, a place and a cancel
  in one batch leave the order tracked, since both were classified before either
  was applied.
- `FilledNeverRegresses` is about snapshots. With events besides, an update
  carries the order captured during its classification, under a newer slot.
- An order triggered from the Above list keeps its node there: a triggered order's
  condition is TriggeredAbove, so the Below list is searched
  (`DLOB.go:729`); `StaticInPlace` and `InPlace` leave out trigger orders.
- `NothingOverlooked` needs floating bids with one oracle offset (`SortedByPrice`; the
  instance has one floating bid): their list is sorted by a price of zero.
- `EveryMatchFills` and `LeftForAMM` need a search that runs alone, since another may
  fill an order that a producer has already yielded; that is all they need, as
  `MatchingAloneProofs` shows. `WithinSize` needs besides a slot that is not behind
  `MaxSlotForRestingLimitOrders`: with an older one the simulated fill is written to
  the wrong list and lost. So it is when another search moves the node between the look
  and the write.
- `SearchEnds` says that a search ends or the program does. Two finders that write a
  list's Go map at once, or of which one writes and one reads it, are a "concurrent map
  writes" to the runtime (`DLOB.go:865-875` under the read lock of `DLOB.go:917`). TLC
  reaches it in `MatchingTogether`, where two searches pass different slots.
- `PanicNeedsSecondListener`: after `Unsubscribe` and `Subscribe` there are two
  listeners on one slice, and one meets the cells the other has cleared: the program
  ends with a nil dereference.
- `OnceUnlessOverwritten`: with one listener, a batch that is still being read when the
  next transaction is appended is overwritten. In the instance `placed` is then lost
  and `cancelled` handled twice. `AsManyAsAppended` holds all the same: as many
  events reach the book as were appended, but not the same ones.
- `CacheIsEmptied` is about a subscribed program. After `Unsubscribe` the listener
  goes on appending, and events are handled only when the cache is full.
- `LastReadIsKept` is about the first stream. With two, the buffer holds back an
  update of one user that is older than what the other stream brought of another.
- `AnnouncedUnlessFirst` excludes exactly the bug it is next to: `LastOrdersHash` is
  the first hash ever seen and is never renewed, so a user who goes back to those
  orders goes back unannounced, and the book keeps the others.

## 5. Proofs

### NodeListProofs

`NodeListProofs` proves for every set of orders, every price and slot function,
both sort directions and a heap of any size:

| Theorem | Statement | Assumes |
|---|---|---|
| `TypeCorrect` | `Spec => []TypeOK` | |
| `MapCorrect` | `Spec => []MapConsistent` | finitely many mapped keys is proved, not assumed |
| `LinksCorrect` | `Spec => []WellLinked` | `DistinctOrderIds` |
| `OrderCorrect` | `Spec => []PriceTimeOrder` | `DistinctOrderIds` |
| `IterationComplete` | `Spec => []NothingLost` | `DistinctOrderIds` |
| `RefinesQueue` | `Spec => ImplementsQueue` | `DistinctOrderIds` |
| `WalkOrderCorrect` | `Spec => []WalkInOrder` | |
| `WalkEnds` | `Spec => []WalkTerminates` | |

The first two rest on the invariant `MapInv`: the fields are typed, a mapped node
carries the order of its key, the counter is the cardinality of the finite set of
mapped keys. It does not mention the links, so it holds however ids are shared.

The next three rest on `ListInv`, which adds `WellLinked`, `PriceTimeOrder` and
`Acyclic`. `Acyclic` is needed because locally inverse links admit a ring beside the
list: it says that the mapped nodes can be numbered so that the numbers grow along
`next`. Since the mapped nodes are finitely many, every non-empty set of them has one
whose predecessor is outside the set (`FirstOfSet`), which is induction along the list
in a first-order form, and `NothingLost` follows. Each of the three facts (initial
states, every step, consequence) has one step per action; insertion and removal are
split by the links they change. `DistinctOrderIds` enters in one place only: `Remove`
moves the head exactly if it removes it.

*The refinement.* The abstract queue speaks of positions, the list of links.
`ChainInv` says that there are a number `k` and nodes `w[1]` to `w[k]`, pairwise
different and in price-time order, that are the mapped nodes and follow each other
along the links (`Chain`). With it the i-th node yielded is `w[i]`, so `Traversal` is
the sequence of their entries and no induction over the recursive function is needed
beyond its own steps. Each operation then changes `w` in a way that the theorem
names: an insertion at the head or behind the node where the code's loop stops is
`PutIn` at a position, and the order of the chain makes it the position the abstract
queue computes; a removal is `TakenOut`; an update changes one entry.

*Shared ids.* When a removal mistakes another node for the head, nodes are cut off
and a link may lead to a node that is in no map, so neither `WellLinked` nor `Acyclic`
survives. What does is about the whole heap and not about the list (`HeapInv`): a
backward link has its forward link (`BackLinks`), a forward link leads to an order
that does not go in front (`LinksInOrder`), and no set of nodes is closed under the
links (`NoRing`). An address is reused only when nothing refers to it, which is why a
new node cannot close a ring. The order and the end of a walk follow at once.

### DLOBProofs

For every set of orders, users and handlers, every `Kind`, `Size` and `Owner`, any
number of writes and slots below half of `Word`, whether messages are `Tidy` or
not, with or without the account stream:

| Theorem | Statement | Assumes |
|---|---|---|
| `TypeCorrect` | `Spec => []TypeOK` | |
| `TrackedOrdersAreListed` | `Spec => []TrackedIsListed` | |
| `StaticOrdersInPlace` | `Spec => []StaticInPlace` | |
| `StampsCoverContent` | `Spec => []StampCoversContent` | |
| `SlotsNeverRegress` | `Spec => SlotNeverRegresses` | |

All rest on the named assumptions of `DLOB` (`DLOBAssumption`, and `NoneAssumption`:
`None` is neither a version nor an entry) and on one inductive invariant, `IInv`. The
book's own fields are not enough, because an item in `todo` was classified against a
book that has changed since. `ItemOK` says what survives of the classification: the
item carries a version the chain wrote by the item's slot (`Written`), and only
trigger orders are triggered. It is stable, because the ledger only grows. `ChainInv`
types the ledger and says that messages are about writes that have happened;
`QuietBefore` that nothing is tracked or pending before the subscriber builds the
book, which is why `Subscribe` may set every stamp. `FinderInv` types what the finders
are at and says that none moves an order that never changes lists; `TrackedIsListed`
survives `RemoveDue` because the order is then in hand, and `InsertDue` because the
resting list has the order afterwards, whether this finder or another put it there.
The stamps do not go back because `Updates` compares them under the lock, whatever the
classification saw. `StaticInPlace` needs no guard: an item finds the list of such an
order whatever version it carries (`StaticHome`). The proof has a lemma for each way
of classifying and for each operation that is applied (`BookPart` is what the
operations keep).

### DLOBAccountsProofs

When account snapshots are the book's only source, for every chain of orders:

| Theorem | Statement | Assumes |
|---|---|---|
| `FillsNeverRegress` | `Spec => FilledNeverRegresses` | `Handlers = {}` |
| `OrdersInPlace` | `Spec => []InPlace` | `InOrder`: no handlers, no finders, and snapshots in the order of the writes, none lost (`Tidy`) |

`InOrder` does not restrict the stamp of the book, which may be any slot not behind the
user map, nor the number of writes in a slot.

*Fills.* A snapshot's item carries the version of a write and exactly that write's
slot (`SnapshotsOnly`), an entry the version of a write of its stamp's slot or before
(`StampCoversContent`). `Updates` wants a later slot than the stamp, and slots grow
along the ledger, so an update is about a later write, although nothing in the code
compares positions. The chain takes no fill back, since an order is placed once
(`FillsGrow`, which needs `OpenWasPlaced`). Snapshots may be lost or overtake each
other, and finders may move nodes. `ForwardInv` collects these facts. An event's item
may carry an old version under a new slot, hence the assumption.

*Places.* `IInv` and `ForwardInv` do not say where an order is that changes lists when
its auction ends: an item looks in the list that its own version and slot imply.
`OrderlyInv` adds why this is where the node is. The slot of what is being classified
or applied is not behind anything the book has seen (`NothingBehind`); a bulk that
updates or deletes moves what has come to rest first (`PlanOK`, from the ranks of the
operations), so `maxSlot` is then the bulk's own slot; a node is where it was put when
its entry was stamped, possibly at the slot the whole book was, ahead of everything
written so far, or where the last move has left it (`Rightly`); all versions of an order without a trigger
have the slot of its placement (`OrderSlots`), so that the item's version and the
node's choose the same list (`SlotDecides`); and an order that is not taking at a slot
is not taking later (`Settles`, the only use of `Word > 2 * MaxSlot`). An insertion
finds no node because its order was seen to be untracked and nobody else applies
anything in between, which `ReadingOK` and `UsersKnown` say of the two loops of
`UpdateByUser`. Each conjunct of `InOrder` is used: a finder raises `maxSlot` past the
slots of snapshots to come, and without `Tidy` a snapshot may be behind the book.

### MatchingProofs and MatchingAloneProofs

For every set of orders and books, every `Ahead`, any number of searches with any
slots:

| Theorem | Statement | Assumes |
|---|---|---|
| `MatchingIsWellTyped` | `Spec => []TypeOK` | |
| `FillsStayWithinSize` | `Spec => []NeverOverfilled` | |
| `ConfirmedFillsStay` | `Spec => []KeepsConfirmed` | |
| `MakersMayMake` | `Spec => MakerMayMake` | no market order is post-only |
| `MatchesFill` | `Spec => []EveryMatchFills` | `Alone`: one search at a time |
| `OfferedAsksAreOpen` | `Spec => []LeftForAMM` | `Alone` |
| `MatchesFit` | `Spec => []WithinSize` | `Alone`, `Fresh`: no slot behind the lists', `Current`: no slot behind an order's |
| `NoMatchOverlooked` | `Spec => NothingOverlooked` | `Alone`, `Fresh`, `Current`, `SortedByPrice` |

The first four are about all searches together, those that move nodes under the others
included. They rest on `MatchingInv`: the fields are typed (`Typed`, `MovesTyped`),
what a search has in hand is of the lists its loops run over or was there (`Tidy`), an
amount that is waiting to be written, or that a walk may still find in a node that was
removed, lies between what is confirmed and the order's size (`Bounded`), and an order
that is gone from a taking list is one that could take (`MovesInv`). `Bounded` is why
amounts stay in range although a search computes them before another writes, and from
what a node carried before it was moved: whatever is written was bounded when it was
computed, and neither bound moves while a search is under way. That an order a walk met
was never post-only in a taking list is what `MakersMayMake` needs of the moves.

`AloneInv` says why running ahead does no harm to a search that is alone. A producer
looks at what is filled long before the consumer takes the order. It is still open
then, because the lists of the outer and the inner loop have no order in common
(`LoopsApart`) and no producer yields an order twice: an order is written only while
it is the outer loop's, or after it has left the inner generator (`WritesOf`). With
nobody else about, no node moves under a loop (`Unmoved`). None of this mentions the
search's slot, so the two theorems hold for slots that go back too.

*The lists.* For the other two the search must find and write orders where they are.
`SettledInv` says so: an order is in the list of the highest slot so far or due to be
moved, so that, when a loop runs, the list an order is looked up in is the one it is in
(`InLists`). It needs slots that do not go back (`Fresh`) and are not behind any order's
own (`Current`); else the unsigned difference wraps, an order counts as at rest, is
moved, and is looked for in the taking list at the next slot.

*The sum.* `WithinSize` adds up the matches of an order. `CoveredInv` ties the sum to
what is filled: confirmed and matches together (`Simulated`) are at most the filled
amount, or the amount of the write that is still due for the order; and the slot of a
search is the lists' slot, so that a write does not miss. A match is the only step that
moves the sum, and it moves it by what it adds to both amounts it is about to write.
The library's sum over a set is a fold, a recursive function over subsets chosen
without saying that there is one. `TotalsExist` and `TotalStep` prove that there is and
that it takes any element first, from a least subset where two such functions would
differ (`LeastSubset`) in place of an induction.

*Nothing overlooked.* Three things could go wrong, and `OverlookedInv` has a part for
each. A maker behind the one at which the loop stops might cross: `DearestFirst` says
that the makers put by are in the order of their prices and that none that waits is
dearer, from the merge of two sorted lists (`BestIsDearest`; that each list has a head
is again a least subset; orders that tie stand in any order, since moves insert them
anew). A producer might pass over an order that is filled only for
the moment: amounts grow while a search is under way (`Grows`), so a filled order
stays filled and what is not left over now is not later (`LeftOverLess`). A pair might
be left when its write is done: one of the two amounts written is the order's size
(`Seen`, `Closes`). When the inner loop ends, nothing is left for the order of the
outer loop, and that stays so (`Compared`).

### EventPipelineProofs

For any transactions, cache size, number of subscriptions and of callbacks:

| Theorem | Statement | Assumes |
|---|---|---|
| `PipelineIsWellTyped` | `Spec => []TypeOK` | |
| `OneListenerMeetsNoNil` | `Spec => []PanicNeedsSecondListener` | |
| `NoCellIsLost` | `Spec => []AsManyAsAppended` | |
| `EventsAreInOnePlace` | `Spec => []OnceUnlessOverwritten` | `EventsApart`: no event is in two transactions |

`PipelineInv` types what is shared (`Globals`) and what each goroutine keeps
(`Locals`), keeps every batch within an array the cache has had (`BatchOK`), and ties
a goroutine's indices to the step it is at (`Sound`). For the second theorem `NoNil`
is added: what a callback has kept of its slice or has yet to look at, the cells of
the cache and those of every batch hold events. With one listener each slice has one
callback (`OneCallback`), so nobody clears what another will read; and an append
cannot break it, since it writes only events, even where it overwrites a batch.

*Counting.* `AsManyAsAppended` compares the sizes of unions of pairs. `CountInv` is the
same equation for functions from owners to sets (`Appends`, `Unreads`, `Givings`),
whose pairs are `Tagged`; each step adds or takes one pair, or moves the cached ones to
a batch, and finiteness is part of the invariant. It says nothing of which events the
cells hold, so overwriting and further listeners do no harm to it.

*One place.* Where an event is depends on the step its callback is at. `Tracked` says
for every order event of a transaction: nowhere before the callback begins, once in
what the callback still holds while it filters and appends, and afterwards in the cache
or in one batch's unread part or given once, and nowhere else (`SomewhereOnce`).
`Origins` says that a slice holds events of its own transaction, so that with
`EventsApart` (an event is a pointer that its decoding has allocated) a callback's step
touches no other callback's events. An append moves an event into the cell behind the
cached ones; that this cell is in no unread batch is what `~overwritten` says.

### AccountStreamProofs

For any updates and any number of streams, deaths and tickers:

| Theorem | Statement |
|---|---|
| `StreamIsWellTyped` | `Spec => []StreamTypeOK` |
| `NoStreamUnattended` | `Spec => []OpenIsWatched` |

`OpenIsWatched` is not inductive: a cancellation takes a watcher away, and it has to be
known that another remains or that nothing else is open. `StreamInv` adds `Shape` (where
the program and the tickers can be, and that `cancel` is up to date), `ArmCount` (every
stream has a ticker or a process about to start one) and `Responsible`, a count. `Live`
are the tickers nobody cancelled, `Busy` the processes between `Cancel` and the end of
`Arm`. A `Cancel` takes one from the first and adds its own process to the second, an
`Arm` does the reverse, so two stay two (`Two`); and where there is one only, processes
have never overlapped and nothing but the subscription is open (`Alone`). The program's
own `Unsubscribe` takes one away, once.

### UserFeedProofs

For any users, accounts, updates, streams and callbacks:

| Theorem | Statement |
|---|---|
| `FeedIsWellTyped` | `FeedSpec => []FeedTypeOK` |
| `OnlyTheFirstUnannounced` | `FeedSpec => []AnnouncedUnlessFirst` |
| `SlotsDoNotGoBack` | `FeedSpec => SlotForward` |
| `BufferHoldsNothingBack` | `FeedSpec => []LastReadIsKept` |

`StreamInv` carries over, since a step of the whole is a step of the streams or leaves
them alone (`StreamsMove`). `FeedInv` adds that one of `status` and `told` is set exactly
if the other is, that the flag is up only while somebody is in `Sync`, and
`AnnouncedUnlessFirst` itself, which is inductive with them. The last theorem has an
invariant of its own, `KeptInv`: the writes are in the order of slots (`Ordered`), and
while one stream has been opened (`OnlyStream`) the buffer equals the last write its
reader is done with, in key and account (`Buffered`), and each user in the map whose
data is not Sync's has what the stream brought last (`Brought`). That updates of
different users share a buffer does no harm then, because an update that is held back
is either older than one before it, which `Ordered` excludes, or the same as it.

### What is not proved

Every invariant and action property of a passing run is stated by a theorem, and so is
the refinement. Only model-checked is what needs fairness (`EventuallyMirrored`,
`SearchEnds`, `CacheIsEmptied`, `Heals`): liveness and ENABLED are outside the prover.
RECURSIVE operators are too, and the modules avoid them; recursive functions
(`Yielded`, the sum) are reasoned about through their defining equations.

The hypotheses of the theorems are conditions on the program: section 4 says what goes
wrong without `DistinctOrderIds` (the run `NodeListLoss` shows it), `InOrder`, `Alone`,
`Fresh`, `Current` and `SortedByPrice`. `EventsApart` and that market orders are not post-only are
facts about the inputs; `MCEventPipeline` and `MCMatching` have TLC evaluate
`EventsApart` and `SortedByPrice` on the instances checked.

## 6. Not modelled

The single-order operations of the book (`HandleOrderRecord`,
`HandleOrderActionRecord`, `UpdateOrder`, `Trigger`, `Delete`), which nothing in
the program calls; `UpdateOrder` would lock a mutex it holds when the order is
full (`DLOB.go:660`). `OpenOrders` and `UserSlotMap`, written and never read.
Queries that only read. Leaks: a cancelled generator's producer may block for
ever (`common/generator.go:43`); no state of the book depends on it.

Of concurrent finders: a map race the runtime does not notice does what one of the two
orders of its steps does; links that one finder has changed by half while another
follows them are not taken apart (a walk that meets a list in change may meet and miss
anything that was in it, but does not go wrong). Orders that tie may stand in any order
in a list after moves. In `DLOB` the branch of `SnapshotItems` for a full order in a
snapshot (`full`) is there but is not reached: the chain that is modelled takes a filled
order out of the account. `AddOrderList`, which makes a market's lists on first use, also
under the read lock, has no step: every list is there from the start.

Of the feeding parts: the elapsed time behind timeouts (a tick may come at any moment
instead); `Once`, `Off` and priorities of the emitter; the book subscriber's second
ticker and its own emissions, which nobody listens to; connections that cannot be
established and accounts that cannot be decoded, on which `Subscribe` panics
(`AccountStream!Open` always succeeds); the returns of `Sync` when its request fails or
an account cannot be decoded (`userMap.go:347`, `:368`), so that `SyncApply` applies the
whole answer; that `Unsubscribe` tests, calls and clears `p.cancel` without a lock
(`geyserProgramAccountSubscriber.go:191`), which is one step in `Cancel`: two that fall
into it together would call nil; the user
map's `mostRecentSlot`, `MustGet` and the count of sub-accounts that decides whether a
callback syncs; its iteration without a lock (`userMap.go:265`). The user object in the
map never receives a newer account (`BasicUserAccountSubscriber` stores none), so
`UserFeed` keeps the account last accepted in its place. The log provider and the
subscribers of single accounts, which repeat `AccountStream`'s protocol as described
there; the multi-account subscriber; the bulk loader, which nobody starts; the order
subscriber, a map from accounts to their latest snapshot; the stats map, slot and
blockhash, which are cached values. The slot appears in the models where it is used.

The jitter's handler takes a lock it already holds for reading (`baseJitter.go:57`
and `:193`), so no order gets past `CheckOrder` and there is no state behind it to
explore. Nothing in the repository calls the functions on price levels. Generated and
archived code, instructions, numeric formulas, HTTP and transport, which are most of
the repository's lines, keep no protocol state.

## 7. Plan

Done: `NodeList` with `PriceTimeQueue`, `DLOB`, `Matching`, `EventPipeline`,
`AccountStream`, `UserFeed`, and their proofs as listed in section 5.

Left, in this order:

1. Proofs: `InPlace` with events as a second source, if a condition can be found under
   which it holds; what the offers to the AMM leave out.
2. `BookLevels`: merging, grouping and uncrossing as operators on sequences of
   levels, against size conservation and an order by price.
3. `Jitter`: the life of an order, retries and completion, once its handler no longer
   blocks itself.
