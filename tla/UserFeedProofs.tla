---------------------------- MODULE UserFeedProofs ----------------------------
(***************************************************************************)
(* Proofs about UserFeed, for any users, streams and callbacks: the state  *)
(* is well-typed, slots do not go back, and what the order book is not     *)
(* told of is what a user had at first.                                    *)
(*                                                                         *)
(* The streams below move as in AccountStream, whose invariant carries     *)
(* over.  The user map is written by Deliver, SyncApply and Empty only.    *)
(***************************************************************************)
EXTENDS UserFeed, AccountStreamProofs

\* What the streams do in a step of the whole.
LEMMA StreamsMove == FeedNext => [Next]_feedVars
BY DEF FeedNext, Subscribe, Empty, Sync, Deliver, Next

LEMMA StreamInvOfFeed == FeedSpec => []StreamInv
<1>1. FeedInit => StreamInv
  BY StreamInvInitially DEF FeedInit
<1>2. StreamInv /\ [FeedNext]_vars => StreamInv'
  BY StreamsMove, StreamInvKept DEF vars
<1> QED
  BY <1>1, <1>2, PTL DEF FeedSpec

\* The map, the statuses and the flag; the streams have StreamTypeOK.
UsersOK ==
  /\ entry \in [Keys -> Entries \cup {None}]
  /\ status \in [Keys -> Accounts \cup {None}]
  /\ told \in [Keys -> Accounts \cup {None}]
  /\ \A k \in Keys : status[k] = None <=> told[k] = None

SyncOK ==
  /\ syncing \in [Syncers -> {"idle", "set", "apply", "reset", "done"}]
  /\ synchronizing \in BOOLEAN /\ emptied \in BOOLEAN
  /\ synchronizing => \E p \in Syncers : syncing[p] \in {"apply", "reset"}

FeedInv == UsersOK /\ SyncOK /\ AnnouncedUnlessFirst

-----------------------------------------------------------------------------

\* Whatever calls the callback has an update in hand.
LEMMA UpdateInHand ==
  ASSUME StreamTypeOK, NEW s \in Streams, OnChange(s)
  PROVE  /\ hand[s].key \in Keys /\ hand[s].slot \in Nat /\ hand[s].account \in Accounts
         /\ hand[s] \in Updates
<1>1. hand[s] # None /\ hand[s] \in Updates
  BY DEF OnChange, StreamTypeOK
<1> QED
  BY <1>1, StreamAssumption DEF StreamAssumption

\* An account that the map accepts.
LEMMA UpdateKeepsUsers ==
  ASSUME UsersOK, AnnouncedUnlessFirst, NEW k \in Keys, NEW account \in Accounts,
         NEW slot \in Nat, UpdateUserAccount(k, account, slot)
  PROVE  UsersOK' /\ AnnouncedUnlessFirst'
<1>1. CASE Accepts(k, slot)
  <2>1. /\ entry' = [entry EXCEPT ![k] = Entry(slot, account)]
        /\ status' = [status EXCEPT ![k] = Status(k, account)]
        /\ told' = [told EXCEPT ![k] = Told(k, account)]
    BY <1>1 DEF UpdateUserAccount
  <2>2. Entry(slot, account) \in Entries /\ account # None
    BY FeedAssumption DEF Entry, Entries, FeedAssumption
  <2>3. Status(k, account) \in Accounts /\ Told(k, account) \in Accounts
    BY <2>2 DEF Status, Told, Announces, UsersOK
  <2>4. account \in {Status(k, account), Told(k, account)}
    BY DEF Status, Told, Announces
  <2>5. UsersOK'
    BY <2>1, <2>2, <2>3, FeedAssumption DEF UsersOK, FeedAssumption
  <2>6. AnnouncedUnlessFirst'
    BY <2>1, <2>2, <2>4 DEF AnnouncedUnlessFirst, UsersOK, Entry
  <2> QED
    BY <2>5, <2>6
<1>2. CASE ~Accepts(k, slot)
  BY <1>2 DEF UpdateUserAccount, usersVars, UsersOK, AnnouncedUnlessFirst
<1> QED
  BY <1>1, <1>2

\* Sync: users of the answer have its slot, or keep all they had.
LEMMA SyncKeepsUsers ==
  ASSUME UsersOK, AnnouncedUnlessFirst, NEW p, SyncApply(p)
  PROVE  UsersOK' /\ AnnouncedUnlessFirst'
<1>1. /\ entry' = [k \in Keys |-> Synced(k)]
      /\ status' = [k \in Keys |-> IF k \in Refreshed THEN Status(k, Response[k]) ELSE status[k]]
      /\ told' = [k \in Keys |-> IF k \in Refreshed THEN Told(k, Response[k]) ELSE told[k]]
  BY DEF SyncApply
<1>2. ASSUME NEW k \in Keys
      PROVE  /\ Synced(k) \in Entries \cup {None}
             /\ \/ Synced(k) = None \/ Synced(k).slot = ResponseSlot
                \/ k \notin Refreshed /\ Synced(k) = entry[k]
  BY FeedAssumption DEF Synced, Refreshed, Entry, Entries, UsersOK, FeedAssumption
<1>3. ASSUME NEW k \in Refreshed
      PROVE  Status(k, Response[k]) \in Accounts /\ Told(k, Response[k]) \in Accounts
  <2>1. k \in Keys /\ Response[k] \in Accounts
    BY FeedAssumption DEF Refreshed, FeedAssumption
  <2> QED
    BY <2>1 DEF Status, Told, Announces, UsersOK
<1>4. UsersOK'
  BY <1>1, <1>2, <1>3, FeedAssumption DEF UsersOK, FeedAssumption
<1>5. AnnouncedUnlessFirst'
  BY <1>1, <1>2 DEF AnnouncedUnlessFirst
<1> QED
  BY <1>4, <1>5

LEMMA FeedInvInitially == FeedInit => FeedInv
BY FeedAssumption DEF FeedInit, FeedInv, UsersOK, SyncOK, AnnouncedUnlessFirst, FeedAssumption

LEMMA FeedInvKept ==
  ASSUME FeedInv, StreamTypeOK, [FeedNext]_vars
  PROVE  FeedInv'
<1> USE DEF FeedInv
<1>1. CASE Subscribe
  BY <1>1 DEF Subscribe, usersVars, syncVars, UsersOK, SyncOK, AnnouncedUnlessFirst
<1>2. CASE Empty
  <2>1. UsersOK' /\ AnnouncedUnlessFirst'
    BY <1>2 DEF Empty, UsersOK, AnnouncedUnlessFirst
  <2> QED
    BY <1>2, <2>1 DEF Empty, SyncOK, syncVars
<1>3. ASSUME NEW p \in Syncers, Sync(p) PROVE FeedInv'
  <2>1. emptied' = emptied
    BY <1>3 DEF Sync
  <2>2. CASE SyncApply(p)
    <3>1. SyncOK'
      BY <2>1, <2>2 DEF SyncApply, SyncOK
    <3> QED
      BY <2>2, <3>1, SyncKeepsUsers
  <2>3. CASE SyncTest(p) \/ SyncSet(p) \/ SyncReset(p)
    <3>1. UNCHANGED usersVars
      BY <2>3 DEF SyncTest, SyncSet, SyncReset
    <3>2. ASSUME SyncTest(p) PROVE SyncOK'
      BY <2>1, <3>2 DEF SyncTest, SyncOK
    <3>3. ASSUME SyncSet(p) PROVE SyncOK'
      <4>1. syncing'[p] = "apply"
        BY <3>3 DEF SyncSet, SyncOK
      <4> QED
        BY <2>1, <3>3, <4>1 DEF SyncSet, SyncOK
    <3>4. ASSUME SyncReset(p) PROVE SyncOK'
      BY <2>1, <3>4 DEF SyncReset, SyncOK
    <3> QED
      BY <2>3, <3>1, <3>2, <3>3, <3>4 DEF usersVars, UsersOK, AnnouncedUnlessFirst
  <2> QED
    BY <1>3, <2>2, <2>3 DEF Sync
<1>4. ASSUME NEW s \in Streams, Deliver(s) PROVE FeedInv'
  <2>1. OnChange(s) /\ UpdateUserAccount(hand[s].key, hand[s].account, hand[s].slot)
    BY <1>4 DEF Deliver
  <2>2. UsersOK' /\ AnnouncedUnlessFirst'
    BY <2>1, UpdateInHand, UpdateKeepsUsers
  <2> QED
    BY <1>4, <2>2 DEF Deliver, SyncOK, syncVars
<1>5. CASE UNCHANGED <<usersVars, syncVars, emptied>>
  BY <1>5 DEF usersVars, syncVars, UsersOK, SyncOK, AnnouncedUnlessFirst
<1> QED
  BY <1>1, <1>2, <1>3, <1>4, <1>5 DEF FeedNext, vars

LEMMA FeedInvAlways == FeedSpec => [](FeedInv /\ StreamTypeOK)
<1>1. StreamInv => StreamTypeOK
  BY DEF StreamInv
<1>2. FeedInit => FeedInv
  BY FeedInvInitially
<1>3. FeedInv /\ StreamTypeOK /\ [FeedNext]_vars => FeedInv'
  BY FeedInvKept
<1> QED
  BY <1>1, <1>2, <1>3, StreamInvOfFeed, PTL DEF FeedSpec

-----------------------------------------------------------------------------

\* The state is well-typed: synchronizing is up only while somebody is in Sync,
\* however many have passed the test together, and a status is kept exactly of the
\* users the order book has been told of.
THEOREM FeedIsWellTyped == FeedSpec => []FeedTypeOK
<1>1. FeedInv /\ StreamTypeOK => FeedTypeOK
  BY DEF FeedInv, UsersOK, SyncOK, FeedTypeOK
<1> QED
  BY <1>1, FeedInvAlways, PTL

\* The order book was told last of the account in the map, or the account is the
\* one whose hash updateStatus saw first.
THEOREM OnlyTheFirstUnannounced == FeedSpec => []AnnouncedUnlessFirst
<1>1. FeedInv => AnnouncedUnlessFirst
  BY DEF FeedInv
<1> QED
  BY <1>1, FeedInvAlways, PTL

\* No step takes a user of the map to an older slot, for any number of streams
\* that deliver together and of Syncs between them.
THEOREM SlotsDoNotGoBack == FeedSpec => SlotForward
<1> DEFINE Forward == \A k \in Keys : entry[k] # None /\ entry'[k] # None =>
                        entry'[k].slot >= entry[k].slot
<1>1. ASSUME FeedInv, StreamTypeOK, [FeedNext]_vars
      PROVE  Forward
  <2>1. \A k \in Keys : entry[k] # None => entry[k].slot \in Nat
    BY <1>1 DEF FeedInv, UsersOK, Entries
  <2>2. CASE entry' = entry
    BY <2>1, <2>2
  <2>3. CASE Empty
    BY <2>3 DEF Empty
  <2>4. ASSUME NEW s \in Streams, Deliver(s) PROVE Forward
    <3>1. OnChange(s) /\ UpdateUserAccount(hand[s].key, hand[s].account, hand[s].slot)
      BY <2>4 DEF Deliver
    <3>2. hand[s].key \in Keys /\ hand[s].slot \in Nat
      BY <3>1, <1>1, UpdateInHand
    <3>3. entry \in [Keys -> Entries \cup {None}]
      BY <1>1 DEF FeedInv, UsersOK
    <3> QED
      BY <2>1, <3>1, <3>2, <3>3 DEF UpdateUserAccount, Accepts, Entry, usersVars
  <2>5. ASSUME NEW p \in Syncers, SyncApply(p) PROVE Forward
    <3>1. entry' = [k \in Keys |-> Synced(k)] /\ ResponseSlot \in Nat
      BY <2>5, FeedAssumption DEF SyncApply, FeedAssumption
    <3> QED
      BY <2>1, <3>1 DEF Synced, Accepts, Entry
  <2> QED
    BY <1>1, <2>2, <2>3, <2>4, <2>5
    DEF FeedNext, Subscribe, Sync, SyncTest, SyncSet, SyncReset, usersVars, vars
<1> HIDE DEF Forward
<1>2. FeedInv /\ StreamTypeOK /\ [FeedNext]_vars => [Forward]_vars
  BY <1>1
<1>3. FeedSpec => [][Forward]_vars
  BY <1>2, FeedInvAlways, PTL DEF FeedSpec
<1> QED
  BY <1>3 DEF SlotForward, Forward

-----------------------------------------------------------------------------
(* One buffer for all users.  While there is one stream, the slots of its  *)
(* updates only grow, so the buffer drops repetitions and nothing else.    *)

FromSync(k) == entry[k] = None \/ entry[k].slot = ResponseSlot

\* What the map has of k is the last of the first n writes that is about k.
Brought(k, n) ==
  /\ n \in 1..Len(written) /\ entry[k].slot <= written[n].slot
  /\ \E i \in 1..n : /\ written[i].key = k /\ written[i].account = entry[k].account
                     /\ \A j \in (i + 1)..n : written[j].key # k

\* The buffer holds the nth write, or an equal one shortly before it.
Buffered(n) ==
  /\ n \in 1..Len(written) /\ buffer.slot <= written[n].slot
  /\ buffer.key = written[n].key /\ buffer.account = written[n].account

\* How much of what stream 1 has read is behind it.
Done == IF at[1] = "recv" THEN read[1] ELSE read[1] - 1

Ordered == \A i, j \in 1..Len(written) : i <= j => written[i].slot <= written[j].slot

OnlyStream ==
  /\ at[1] # "recv" => read[1] >= 1 /\ hand[1] = written[read[1]]
  /\ at[1] = "store" => IsNews(hand[1])
  /\ at[1] = "change" => buffer = hand[1]
  /\ at[1] # "change" /\ buffer # None => Buffered(Done)
  /\ at[1] # "change" /\ buffer = None => \A k \in Keys : FromSync(k)
  /\ \A k \in Keys : FromSync(k) \/ Brought(k, Done)

KeptInv ==
  /\ Ordered
  /\ \A s \in Streams : s > opened => at[s] = "recv"
  /\ opened = 0 => buffer = None /\ \A k \in Keys : FromSync(k)
  /\ opened = 1 => OnlyStream

LEMMA OnlyOneDelivers ==
  ASSUME StreamTypeOK, KeptInv, opened \in {0, 1}, NEW s \in Streams, at[s] # "recv"
  PROVE  opened = 1 /\ s = 1
BY StreamAssumption DEF KeptInv, Streams, StreamAssumption

LEMMA OneInStreams ==
  ASSUME StreamTypeOK, opened = 1
  PROVE  /\ 1 \in Streams /\ read[1] \in 0..Len(written) /\ Len(written) \in Nat
         /\ \A n \in 1..Len(written) : written[n] \in Updates /\ written[n].slot \in Nat
                                       /\ written[n].slot > ResponseSlot
<1>1. 1 \in Streams
  <2>1. MaxStreams \in Nat /\ opened \in 0..MaxStreams
    BY StreamAssumption DEF StreamTypeOK, StreamAssumption
  <2> QED
    BY <2>1 DEF Streams
<1>2. written \in Seq(Updates) /\ read[1] \in 0..Len(written)
  BY <1>1 DEF StreamTypeOK
<1>3. \A u \in Updates : u.slot \in Nat /\ u.slot > ResponseSlot
  BY StreamAssumption, FeedAssumption DEF StreamAssumption, FeedAssumption
<1> QED
  BY <1>1, <1>2, <1>3

\* Nothing moves but the streams' goroutines.
LEMMA KeptSame ==
  ASSUME KeptInv, written' = written, opened' = opened, at' = at, hand' = hand, read' = read,
         buffer' = buffer, entry' = entry
  PROVE  KeptInv'
BY DEF KeptInv, Ordered, OnlyStream, FromSync, Brought, Buffered, Done, IsNews

LEMMA WriteKeeps ==
  ASSUME StreamTypeOK, KeptInv, Write, entry' = entry
  PROVE  KeptInv'
<1>1. PICK u \in Updates : u.slot >= LastSlot /\ written' = Append(written, u)
  BY DEF Write
<1>2. /\ written \in Seq(Updates) /\ Len(written) \in Nat /\ Len(written') = Len(written) + 1
      /\ \A i \in 1..Len(written) : written'[i] = written[i]
      /\ written'[Len(written) + 1] = u
  BY <1>1 DEF StreamTypeOK
<1>3. \A i \in 1..Len(written) : written[i].slot \in Nat
  BY <1>2, StreamAssumption DEF StreamAssumption
<1>4. Ordered'
  <2>1. u.slot \in Nat
    BY StreamAssumption DEF StreamAssumption
  <2>2. \A i \in 1..Len(written) : written[i].slot <= u.slot
    BY <1>1, <1>2, <1>3, <2>1 DEF KeptInv, Ordered, LastSlot
  <2> QED
    BY <1>2, <1>3, <2>1, <2>2 DEF KeptInv, Ordered
<1>5. /\ opened' = opened /\ at' = at /\ hand' = hand /\ read' = read /\ buffer' = buffer
  BY DEF Write, readerVars, streamVars
<1>6. ASSUME opened = 1 PROVE OnlyStream'
  <2>1. 1 \in Streams /\ read[1] \in 0..Len(written)
    BY <1>6, OneInStreams
  <2>2. Done' = Done /\ Done <= Len(written)
    BY <1>2, <1>5, <2>1 DEF Done
  <2>3. ASSUME NEW k \in Keys PROVE (FromSync(k) \/ Brought(k, Done))'
    <3>1. FromSync(k) \/ Brought(k, Done)
      BY <1>6 DEF KeptInv, OnlyStream
    <3> QED
      BY <1>2, <2>2, <3>1 DEF FromSync, Brought
  <2>4. (at[1] # "change" /\ buffer # None => Buffered(Done))'
    BY <1>2, <1>5, <1>6, <2>2 DEF KeptInv, OnlyStream, Buffered
  <2> QED
    BY <1>2, <1>5, <1>6, <2>1, <2>3, <2>4 DEF KeptInv, OnlyStream, FromSync, IsNews
<1> QED
  BY <1>4, <1>5, <1>6 DEF KeptInv, FromSync

LEMMA ReceiveKeeps ==
  ASSUME StreamTypeOK, KeptInv, NEW s \in Streams, Receive(s), entry' = entry
  PROVE  KeptInv'
<1>1. s \in 1..opened
  BY DEF Receive, StreamTypeOK
<1>2. Ordered' /\ opened' = opened /\ buffer' = buffer /\ written' = written
  BY DEF Receive, KeptInv, Ordered
<1>3. \A x \in Streams : x > opened => at'[x] = "recv"
  BY <1>1 DEF Receive, KeptInv, StreamTypeOK
<1>4. ASSUME opened = 1 PROVE OnlyStream'
  <2>1. s = 1 /\ at[1] = "recv" /\ Done = read[1] /\ read[1] \in 0..Len(written)
    BY <1>1, <1>4, OneInStreams DEF Receive, Done
  <2>2. at'[1] = "filter" /\ read'[1] = read[1] + 1 /\ hand'[1] = written[read[1] + 1]
    BY <2>1 DEF Receive, StreamTypeOK
  <2>3. Done' = Done
    BY <2>1, <2>2 DEF Done
  <2> QED
    BY SMTT(30), <1>2, <1>4, <2>1, <2>2, <2>3 DEF KeptInv, OnlyStream, FromSync, Brought, Buffered
<1> QED
  BY <1>1, <1>2, <1>3, <1>4 DEF KeptInv, FromSync

\* What is dropped repeats what is in the buffer.
LEMMA FilterKeeps ==
  ASSUME StreamTypeOK, UsersOK, KeptInv, NEW s \in Streams, Filter(s), entry' = entry
  PROVE  KeptInv'
<1>1. /\ Ordered' /\ opened' = opened /\ buffer' = buffer /\ written' = written /\ read' = read
      /\ \A k \in Keys : FromSync(k)' <=> FromSync(k)
  BY DEF Filter, KeptInv, Ordered, FromSync, streamVars
<1>2. s \in 1..opened
  BY DEF Filter, KeptInv, StreamTypeOK, Streams
<1>3. \A x \in Streams : x > opened => at'[x] = "recv"
  BY <1>2 DEF Filter, KeptInv, StreamTypeOK
<1>4. ASSUME opened = 1 PROVE OnlyStream'
  <2> DEFINE n == read[1]
  <2>1. /\ s = 1 /\ at[1] = "filter" /\ OnlyStream
        /\ n \in 1..Len(written) /\ hand[1] = written[n] /\ Done = n - 1
    BY <1>2, <1>4, OneInStreams DEF Filter, KeptInv, OnlyStream, Done
  <2>2. CASE IsNews(hand[1])
    <3>1. at'[1] = "store" /\ hand' = hand
      BY <2>1, <2>2 DEF Filter, StreamTypeOK
    <3>2. Done' = Done
      BY <1>1, <2>1, <3>1 DEF Done
    <3> QED
      BY <1>1, <2>1, <2>2, <3>1, <3>2 DEF OnlyStream, Brought, Buffered, IsNews
  <2>3. CASE ~IsNews(hand[1])
    <3>1. at'[1] = "recv" /\ Done' = n
      BY <1>1, <2>1, <2>3 DEF Filter, StreamTypeOK, Done
    <3>2. buffer # None /\ Buffered(n - 1) /\ n - 1 \in 1..Len(written)
      BY <2>1, <2>3 DEF OnlyStream, IsNews, Buffered
    <3>3. written[n - 1].slot <= written[n].slot /\ \A i \in 1..Len(written) : written[i].slot \in Nat
      BY <1>4, <2>1, <3>2, OneInStreams DEF KeptInv, Ordered
    <3>4. buffer.slot \in Nat
      BY <3>2, StreamAssumption DEF StreamTypeOK, StreamAssumption
    <3>5. buffer.key = written[n].key /\ buffer.account = written[n].account
          /\ buffer.slot <= written[n].slot
      BY <2>1, <2>3, <3>2, <3>3, <3>4 DEF IsNews, Buffered
    <3>6. Buffered(n)
      BY <2>1, <3>5 DEF Buffered
    <3>7. ASSUME NEW k \in Keys, ~FromSync(k), Brought(k, n - 1) PROVE Brought(k, n)
      <4>1. entry[k].slot \in Nat /\ entry[k].slot <= written[n].slot
        BY <2>1, <3>2, <3>3, <3>7 DEF UsersOK, Entries, FromSync, Brought
      <4>2. PICK i \in 1..(n - 1) :
              /\ written[i].key = k /\ written[i].account = entry[k].account
              /\ \A j \in (i + 1)..(n - 1) : written[j].key # k
        BY <3>7 DEF Brought
      <4>3. CASE written[n].key # k
        BY <2>1, <4>1, <4>2, <4>3 DEF Brought
      <4>4. CASE written[n].key = k
        <5>1. written[n - 1].key = k /\ n \in Int
          BY <2>1, <3>2, <3>5, <4>4 DEF Buffered
        <5>2. i = n - 1
          BY <4>2, <5>1
        <5>3. written[n].account = entry[k].account
          BY <3>2, <3>5, <4>2, <5>2 DEF Buffered
        <5> QED
          BY <2>1, <4>1, <4>4, <5>3 DEF Brought
      <4> QED
        BY <4>3, <4>4
    <3> QED
      BY <1>1, <2>1, <3>1, <3>2, <3>6, <3>7 DEF OnlyStream, Brought, Buffered
  <2> QED
    BY <2>2, <2>3
<1> QED
  BY <1>1, <1>2, <1>3, <1>4 DEF KeptInv

LEMMA StoreKeeps ==
  ASSUME StreamTypeOK, KeptInv, NEW s \in Streams, Store(s), entry' = entry
  PROVE  KeptInv'
<1>1. /\ Ordered' /\ opened' = opened /\ written' = written /\ read' = read /\ hand' = hand
      /\ buffer' = hand[s] /\ \A k \in Keys : FromSync(k)' <=> FromSync(k)
  BY DEF Store, KeptInv, Ordered, FromSync, streamVars
<1>2. s \in 1..opened
  BY DEF Store, KeptInv, StreamTypeOK, Streams
<1>3. \A x \in Streams : x > opened => at'[x] = "recv"
  BY <1>2 DEF Store, KeptInv, StreamTypeOK
<1>4. ASSUME opened = 1 PROVE OnlyStream'
  <2>1. s = 1 /\ at[1] = "store" /\ at'[1] = "change" /\ OnlyStream
    BY <1>2, <1>4, OneInStreams DEF Store, StreamTypeOK, KeptInv
  <2>2. Done' = Done
    BY <1>1, <2>1 DEF Done
  <2> QED
    BY <1>1, <2>1, <2>2 DEF OnlyStream, Brought
<1> QED
  BY <1>1, <1>2, <1>3, <1>4 DEF KeptInv

\* The map accepts what the only stream brings.
LEMMA DeliverKeeps ==
  ASSUME StreamTypeOK, UsersOK, KeptInv, NEW s \in Streams, Deliver(s)
  PROVE  KeptInv'
<1>1. /\ OnChange(s) /\ UpdateUserAccount(hand[s].key, hand[s].account, hand[s].slot)
      /\ Ordered' /\ opened' = opened /\ written' = written /\ read' = read /\ buffer' = buffer
  BY DEF Deliver, OnChange, KeptInv, Ordered, streamVars
<1>2. s \in 1..opened
  BY <1>1 DEF OnChange, KeptInv, StreamTypeOK, Streams
<1>3. \A x \in Streams : x > opened => at'[x] = "recv"
  BY <1>1, <1>2 DEF OnChange, KeptInv, StreamTypeOK
<1>4. ASSUME opened = 1 PROVE OnlyStream'
  <2> DEFINE n == read[1]
             u == written[n]
  <2>1. /\ s = 1 /\ at[1] = "change" /\ at'[1] = "recv" /\ OnlyStream
        /\ n \in 1..Len(written) /\ hand[1] = u /\ buffer = u /\ Done = n - 1 /\ Done' = n
    BY <1>1, <1>2, <1>4, OneInStreams DEF OnChange, StreamTypeOK, KeptInv, OnlyStream, Done
  <2>2. \A i \in 1..Len(written) : written[i].slot \in Nat /\ written[i].slot > ResponseSlot
    BY <1>4, OneInStreams
  <2>3. u.key \in Keys /\ u \in Updates /\ ResponseSlot \in Nat
    BY <2>1, <1>4, OneInStreams, StreamAssumption, FeedAssumption DEF StreamAssumption, FeedAssumption
  <2>4. ASSUME NEW k \in Keys, ~FromSync(k)
        PROVE  /\ entry[k].slot \in Nat /\ entry[k].slot <= u.slot /\ Brought(k, n - 1)
               /\ n - 1 \in 1..Len(written)
    <3>1. Brought(k, n - 1)
      BY <2>1, <2>4 DEF OnlyStream
    <3>2. written[n - 1].slot <= u.slot
      BY <2>1, <3>1 DEF KeptInv, Ordered, Brought
    <3>3. /\ entry[k].slot \in Nat /\ entry[k].slot <= written[n - 1].slot
          /\ n - 1 \in 1..Len(written)
      BY <2>4, <3>1 DEF Brought, UsersOK, Entries, FromSync
    <3>4. u.slot \in Nat /\ written[n - 1].slot \in Nat
      BY <2>1, <2>2, <3>3
    <3>5. entry[k].slot <= u.slot
      <4> HIDE DEF n, u
      <4> QED
        BY <3>2, <3>3, <3>4
    <3> QED
      BY <3>1, <3>3, <3>5
  <2>5. Accepts(u.key, u.slot)
    BY <2>1, <2>2, <2>3, <2>4 DEF Accepts, FromSync
  <2>6. entry' = [entry EXCEPT ![u.key] = Entry(u.slot, u.account)]
    BY <1>1, <2>1, <2>5 DEF UpdateUserAccount
  <2>7. ASSUME NEW k \in Keys PROVE (FromSync(k) \/ Brought(k, Done))'
    <3>1. CASE k = u.key
      <4>1. entry'[k] = [slot |-> u.slot, account |-> u.account]
        BY <2>3, <2>6, <3>1 DEF Entry, UsersOK
      <4>2. /\ n \in 1..Len(written') /\ entry'[k].slot <= written'[n].slot
            /\ written'[n].key = k /\ written'[n].account = entry'[k].account
        BY <1>1, <2>1, <2>2, <3>1, <4>1
      <4>3. \A j \in (n + 1)..n : written'[j].key # k
        BY <2>1
      <4> QED
        BY SMTT(30), <2>1, <4>2, <4>3 DEF Brought
    <3>2. CASE k # u.key
      <4>1. entry'[k] = entry[k]
        BY <2>6, <3>2 DEF UsersOK
      <4>2. CASE FromSync(k)
        BY <4>1, <4>2 DEF FromSync
      <4>3. CASE ~FromSync(k)
        BY SMTT(30), <1>1, <2>1, <2>4, <3>2, <4>1, <4>3 DEF Brought
      <4> QED
        BY <4>2, <4>3
    <3> QED
      BY <3>1, <3>2
  <2>8. Buffered(n) /\ buffer # None
    BY <2>1, <2>2, <2>3, StreamAssumption DEF Buffered, StreamAssumption
  <2> QED
    BY <1>1, <2>1, <2>7, <2>8 DEF OnlyStream, Buffered
<1> QED
  BY <1>1, <1>2, <1>3, <1>4 DEF KeptInv

\* A stream begins behind all that is written.
LEMMA OpenKeeps ==
  ASSUME StreamTypeOK, KeptInv, NEW p \in Processes, Open(p), entry' = entry
  PROVE  KeptInv'
<1>1. /\ opened' = opened + 1 /\ opened + 1 \in Streams /\ opened \in Nat
      /\ written' = written /\ at' = at /\ hand' = hand /\ buffer' = buffer
      /\ read' = [read EXCEPT ![opened + 1] = Len(written)]
  BY StreamAssumption DEF Open, readerVars, StreamTypeOK, Streams, StreamAssumption
<1>2. Ordered' /\ \A k \in Keys : FromSync(k)' <=> FromSync(k)
  BY <1>1 DEF KeptInv, Ordered, FromSync
<1>3. ASSUME opened = 0 PROVE OnlyStream'
  BY <1>1, <1>2, <1>3 DEF KeptInv, OnlyStream
<1>4. \A x \in Streams : x > opened + 1 => at[x] = "recv"
  BY <1>1 DEF KeptInv, Streams
<1> QED
  BY <1>1, <1>2, <1>3, <1>4 DEF KeptInv

\* Sync and Empty leave users as they are, or as the answer has them.
LEMMA UsersFromSyncKeep ==
  ASSUME KeptInv, UNCHANGED feedVars,
         \A k \in Keys : entry'[k] = entry[k] \/ FromSync(k)'
  PROVE  KeptInv'
<1>1. /\ written' = written /\ opened' = opened /\ at' = at /\ hand' = hand /\ read' = read
      /\ buffer' = buffer
  BY DEF feedVars, readerVars, streamVars
<1>2. \A k \in Keys : FromSync(k) => FromSync(k)'
  BY DEF FromSync
<1>3. ASSUME NEW k \in Keys, FromSync(k) \/ Brought(k, Done) PROVE (FromSync(k) \/ Brought(k, Done))'
  BY <1>1, <1>2, <1>3 DEF Brought, Done
<1> QED
  BY <1>1, <1>2, <1>3 DEF KeptInv, Ordered, OnlyStream, Buffered, Done, IsNews

LEMMA KeptInvInitially == FeedInit => KeptInv
BY StreamAssumption DEF FeedInit, StreamInit, KeptInv, Ordered, FromSync, StreamAssumption

LEMMA KeptInvKept ==
  ASSUME KeptInv, FeedInv, StreamTypeOK, [FeedNext]_vars
  PROVE  KeptInv'
<1>1. UsersOK
  BY DEF FeedInv
<1>2. CASE Subscribe
  BY <1>2, OpenKeeps DEF Subscribe, usersVars, Processes
<1>3. CASE Empty
  BY <1>3, UsersFromSyncKeep DEF Empty, FromSync
<1>4. ASSUME NEW p \in Syncers, Sync(p) PROVE KeptInv'
  <2>1. UNCHANGED feedVars
    BY <1>4 DEF Sync
  <2>2. CASE SyncApply(p)
    <3>1. \A k \in Keys : entry'[k] = Synced(k)
      BY <2>2 DEF SyncApply
    <3>2. ASSUME NEW k \in Keys PROVE entry'[k] = entry[k] \/ FromSync(k)'
      <4>1. \/ entry'[k] = None \/ entry'[k] = entry[k]
            \/ entry'[k] = [slot |-> ResponseSlot, account |-> Response[k]]
        BY <3>1 DEF Synced, Entry
      <4>2. ResponseSlot' = ResponseSlot
        OBVIOUS
      <4> QED
        BY <4>1, <4>2 DEF FromSync
    <3> QED
      BY <2>1, <3>2, UsersFromSyncKeep
  <2>3. CASE UNCHANGED usersVars
    BY <2>1, <2>3, UsersFromSyncKeep DEF usersVars
  <2> QED
    BY <1>4, <2>2, <2>3 DEF Sync, SyncTest, SyncSet, SyncReset
<1>5. ASSUME NEW s \in Streams, Deliver(s) PROVE KeptInv'
  BY <1>1, <1>5, DeliverKeeps
<1>6. CASE StreamNext /\ UNCHANGED <<usersVars, syncVars, emptied>>
  <2>1. entry' = entry
    BY <1>6 DEF usersVars
  <2>2. CASE Write
    BY <2>1, <2>2, WriteKeeps
  <2>3. ASSUME NEW s \in Streams, Die(s) \/ Reader(s) PROVE KeptInv'
    <3>1. CASE Die(s)
      BY <2>1, <3>1, KeptSame DEF Die, readerVars
    <3> QED
      BY <1>1, <2>1, <2>3, <3>1, ReceiveKeeps, FilterKeeps, StoreKeeps DEF Reader
  <2>4. ASSUME NEW p \in Processes, Continue(p) PROVE KeptInv'
    <3>1. CASE Arm(p) \/ Close(p) \/ Cancel(p)
      BY <2>1, <3>1, KeptSame DEF Arm, Close, Cancel, readerVars, streamVars
    <3> QED
      BY <2>1, <2>4, <3>1, OpenKeeps DEF Continue
  <2>5. ASSUME NEW t \in Tickers, Ticker(t) PROVE KeptInv'
    BY <2>1, <2>5, KeptSame DEF Ticker, Tick, Stop, readerVars, streamVars
  <2>6. CASE Cancel(Program)
    BY <2>1, <2>6, KeptSame DEF Cancel, readerVars, streamVars
  <2> QED
    BY <1>6, <2>2, <2>3, <2>4, <2>5, <2>6 DEF StreamNext
<1>7. CASE UNCHANGED vars
  BY <1>7, KeptSame DEF vars, feedVars, usersVars, readerVars, streamVars
<1> QED
  BY <1>2, <1>3, <1>4, <1>5, <1>6, <1>7 DEF FeedNext

\* While there has been one stream, the one buffer for all users holds back nothing
\* that the map lacks, for any users, updates and Syncs between the callbacks.
THEOREM BufferHoldsNothingBack == FeedSpec => []LastReadIsKept
<1>1. ASSUME KeptInv, StreamTypeOK PROVE LastReadIsKept
  <2> SUFFICES ASSUME opened = 1, at[1] = "recv",
                      NEW k \in Keys, ~FromSync(k)
               PROVE  entry[k].account = written[LastOf(k, read[1])].account
    BY DEF LastReadIsKept, FromSync
  <2> DEFINE n == read[1]
             Last(i) == /\ written[i].key = k
                        /\ \A j \in (i + 1)..n : written[j].key # k
  <2>1. Brought(k, n) /\ n \in Nat
    BY <1>1, OneInStreams DEF KeptInv, OnlyStream, Done
  <2>2. PICK i \in 1..n : Last(i) /\ written[i].account = entry[k].account
    BY <2>1 DEF Brought
  <2>3. \A j \in 1..n : Last(j) => j = i
    <3>1. SUFFICES ASSUME NEW j \in 1..n, Last(j), j # i PROVE FALSE
      OBVIOUS
    <3> QED
      BY <2>1, <2>2, <3>1
  <2>4. LastOf(k, n) = i
    BY <2>2, <2>3 DEF LastOf
  <2> QED
    BY <2>2, <2>4
<1>2. KeptInv /\ FeedInv /\ StreamTypeOK /\ [FeedNext]_vars => KeptInv'
  BY KeptInvKept
<1> QED
  BY <1>1, <1>2, KeptInvInitially, FeedInvAlways, PTL DEF FeedSpec
=============================================================================
