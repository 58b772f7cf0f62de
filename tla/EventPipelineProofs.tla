------------------------- MODULE EventPipelineProofs -------------------------
(***************************************************************************)
(* Proofs about EventPipeline, for any transactions, any sizes and any     *)
(* number of goroutines: the state is well-typed; with one listener no     *)
(* goroutine ever meets a nil pointer; the book is given as many events as *)
(* were appended; and with one listener an event is in one place at a time *)
(* until an append writes into a batch that is being read.                 *)
(*                                                                         *)
(* With one listener every slice has one callback.  What is behind it is   *)
(* compacted, what is in front of it is untouched; what it appends fills   *)
(* the array from the left; and an append into a batch that is being read  *)
(* replaces one event by another.                                          *)
(*                                                                         *)
(* The cells appended, those cached, those of the batches that are unread  *)
(* and those given are counted as sets of tagged cells: every step moves   *)
(* cells from one set to another.  To count the places of one event, it is *)
(* followed from the callback's slice to the cache, to a batch and to the  *)
(* book; the counts of OnceUnlessOverwritten are those of its cells.       *)
(***************************************************************************)
EXTENDS EventPipeline, SequenceTheorems, FiniteSetTheorems, TLAPS

Cells == Events \cup {None}
Places == {"idle", "filter", "pend", "check", "wait", "take", "apply", "done"}

Globals ==
  /\ subscribed \in BOOLEAN /\ overwritten \in BOOLEAN /\ crashed \in BOOLEAN
  /\ listeners \in 0..MaxListeners
  /\ emitted \in Seq(Seq(Cells)) /\ Len(emitted) <= Len(Transactions)
  /\ arrays \in Seq(Seq(Cells)) /\ cached \in 0..Len(Array)
  /\ handled \in [Events -> Nat]

Locals ==
  /\ pc \in [Goroutines -> Places]
  /\ at \in [Goroutines -> Nat \ {0}] /\ kept \in [Goroutines -> Nat \ {0}]
  /\ batch \in [Goroutines -> Batches]

BatchOK(p) ==
  pc[p] = "apply" =>
    /\ batch[p].array \in DOMAIN arrays
    /\ batch[p].length <= Len(arrays[batch[p].array])
    /\ at[p] <= batch[p].length

\* Where a goroutine is goes with what it holds.
Sound(p) ==
  /\ pc[p] \notin {"filter", "apply"} => at[p] = 1
  /\ pc[p] = "idle" => kept[p] = 1
  /\ pc[p] # "idle" => p[1] <= Len(emitted) /\ p[2] <= listeners
  /\ pc[p] \in {"filter", "pend", "check"} => p \in Callbacks
  /\ pc[p] \in {"filter", "pend"} => kept[p] <= Len(emitted[p[1]]) + 1
  /\ pc[p] = "filter" => kept[p] <= at[p]
  /\ pc[p] = "pend" => kept[p] > 1

PipelineInv ==
  Globals /\ Locals /\ \A p \in Goroutines : BatchOK(p) /\ Sound(p)

-----------------------------------------------------------------------------
(* Goroutines and arrays.                                                  *)

LEMMA GoroutineType ==
  /\ \A p \in Callbacks : p[1] \in Emissions /\ p[2] \in 1..MaxListeners /\ p = <<p[1], p[2]>>
  /\ \A p \in Tickers : p[1] = 0 /\ p \notin Callbacks
  /\ \A p \in Goroutines : p[1] \in Nat /\ p[2] \in Nat /\ (p \in Callbacks \/ p \in Tickers)
  /\ \A l \in 1..MaxListeners : <<0, l>> \in Goroutines
  /\ Emissions = 1..Len(Transactions) /\ Len(Transactions) \in Nat /\ MaxListeners \in Nat
BY PipelineAssumption DEF PipelineAssumption, Callbacks, Tickers, Goroutines, Emissions

LEMMA ArrayType ==
  ASSUME Globals
  PROVE  /\ Array \in Seq(Cells) /\ Len(Array) \in Nat /\ cached \in Nat /\ cached <= Len(Array)
         /\ Len(arrays) \in Nat
         /\ Len(Array) > 0 => Len(arrays) \in DOMAIN arrays /\ Array = arrays[Len(arrays)]
BY DEF Globals, Array

LEMMA CapacityIsEnough ==
  ASSUME NEW needed \in Nat, NEW capacity \in Nat
  PROVE  Capacity(needed, capacity) \in Nat /\ Capacity(needed, capacity) >= needed
BY DEF Capacity

LEMMA FilteredType ==
  ASSUME Globals, Locals, NEW p \in Goroutines, Sound(p), pc[p] = "pend"
  PROVE  /\ Len(Filtered(p)) = kept[p] - 1 /\ Len(Filtered(p)) \in Nat /\ Len(Filtered(p)) > 0
         /\ \A i \in 1..Len(Filtered(p)) : Filtered(p)[i] = emitted[p[1]][i]
                                           /\ Filtered(p)[i] \in Cells
<1>1. p \in Callbacks /\ p[1] \in 1..Len(emitted) /\ emitted[p[1]] \in Seq(Cells)
      /\ Len(emitted) \in Nat
  BY GoroutineType DEF Sound, Globals
<1>2. kept[p] - 1 \in 1..Len(emitted[p[1]])
  BY <1>1 DEF Sound, Locals
<1> QED
  BY <1>1, <1>2 DEF Filtered

\* A goroutine that does not move is as sound as before.
LEMMA SoundSame ==
  ASSUME NEW p \in Goroutines, Sound(p), Globals, listeners' \in Nat, listeners' >= listeners,
         pc'[p] = pc[p], at'[p] = at[p], kept'[p] = kept[p],
         Len(emitted') \in Nat, Len(emitted') >= Len(emitted),
         \A n \in 1..Len(emitted) : Len(emitted'[n]) = Len(emitted[n])
  PROVE  Sound(p)'
<1>1. p[1] \in Nat /\ p[2] \in Nat /\ (p \in Callbacks => p[1] >= 1)
  BY GoroutineType
<1>2. listeners \in Nat /\ Len(emitted) \in Nat
  BY GoroutineType DEF Globals
<1> QED
  BY <1>1, <1>2 DEF Sound

\* ... and its batch is where it was.
LEMMA BatchSame ==
  ASSUME NEW p \in Goroutines, BatchOK(p), Globals, pc'[p] = pc[p], at'[p] = at[p],
         batch'[p] = batch[p], arrays' \in Seq(Seq(Cells)), Len(arrays') >= Len(arrays),
         \A a \in 1..Len(arrays) : Len(arrays'[a]) = Len(arrays[a])
  PROVE  BatchOK(p)'
<1>1. Len(arrays) \in Nat /\ Len(arrays') \in Nat /\ DOMAIN arrays = 1..Len(arrays)
      /\ DOMAIN arrays' = 1..Len(arrays')
  BY DEF Globals
<1> QED
  BY <1>1 DEF BatchOK

LEMMA BatchStays ==
  ASSUME NEW p \in Goroutines, BatchOK(p), pc'[p] = pc[p], at'[p] = at[p],
         batch'[p] = batch[p], arrays' = arrays
  PROVE  BatchOK(p)'
BY DEF BatchOK

-----------------------------------------------------------------------------
(* Types.                                                                  *)

LEMMA InvAfterSubscribing ==
  ASSUME PipelineInv, Subscribe \/ Unsubscribe
  PROVE  PipelineInv'
<1> USE DEF PipelineInv
<1>1. UNCHANGED <<emitted, cacheVars, readVars, handled, crashed>>
  BY DEF Subscribe, Unsubscribe
<1>2. CASE Subscribe
  <2>1. listeners + 1 \in 1..MaxListeners /\ listeners' = listeners + 1 /\ listeners \in Nat
    BY <1>2, GoroutineType DEF Subscribe, Globals
  <2> DEFINE t == <<0, listeners + 1>>
  <2>2. t \in Goroutines /\ t \notin Callbacks /\ t[1] = 0 /\ t[2] = listeners + 1
    BY <2>1, GoroutineType DEF Tickers
  <2>3. pc' = [pc EXCEPT ![t] = "wait"]
    BY <1>2 DEF Subscribe
  <2> HIDE DEF t
  <2>4. pc[t] = "idle"
    BY <2>1, <2>2 DEF Sound
  <2>5. Globals' /\ Locals'
    <3>1. Array' = Array
      BY <1>1 DEF Array, cacheVars
    <3>2. Globals'
      BY <1>1, <1>2, <2>1, <3>1 DEF Subscribe, Globals, cacheVars
    <3>3. Locals'
      BY <1>1, <2>3 DEF Locals, Places, readVars
    <3> QED
      BY <3>2, <3>3
  <2>6. ASSUME NEW p \in Goroutines, p = t PROVE Sound(p)' /\ BatchOK(p)'
    <3>1. pc'[p] = "wait" /\ at'[p] = 1 /\ emitted' = emitted
      BY <1>1, <2>2, <2>3, <2>4, <2>6 DEF Sound, readVars, Locals
    <3>2. 0 <= Len(emitted)
      BY DEF Globals
    <3> QED
      BY <2>1, <2>2, <2>6, <3>1, <3>2 DEF Sound, BatchOK
  <2>7. ASSUME NEW p \in Goroutines, p # t PROVE Sound(p)' /\ BatchOK(p)'
    <3>1. pc'[p] = pc[p]
      BY <2>3, <2>7 DEF Locals
    <3>2. Sound(p)'
      BY <1>1, <2>1, <3>1, SoundSame DEF readVars, Globals
    <3>3. BatchOK(p)'
      BY <1>1, <3>1, BatchStays DEF cacheVars, readVars
    <3> QED
      BY <3>2, <3>3
  <2>8. \A p \in Goroutines : Sound(p)' /\ BatchOK(p)'
    BY <2>6, <2>7
  <2> QED
    BY <2>5, <2>8
<1>3. CASE Unsubscribe
  <2>1. UNCHANGED <<listeners, pc>> /\ subscribed' \in BOOLEAN
    BY <1>3 DEF Unsubscribe
  <2> QED
    BY <1>1, <2>1 DEF Globals, Locals, Array, BatchOK, Sound, cacheVars, readVars
<1> QED
  BY <1>2, <1>3

LEMMA InvAfterHandleTxLogs ==
  ASSUME PipelineInv, HandleTxLogs
  PROVE  PipelineInv'
<1> USE DEF PipelineInv
<1> DEFINE n == Len(emitted) + 1
<1>1. /\ n \in Emissions /\ emitted' = Append(emitted, Transactions[n])
      /\ pc' = [p \in Goroutines |-> IF p[1] = n /\ p[2] <= listeners THEN "filter" ELSE pc[p]]
      /\ UNCHANGED <<subscribed, listeners, cacheVars, readVars, handled, crashed>>
  BY DEF HandleTxLogs
<1>2. Transactions[n] \in Seq(Cells) /\ Transactions \in Seq(Seq(Events))
  <2>1. Transactions \in Seq(Seq(Events))
    BY PipelineAssumption DEF PipelineAssumption
  <2>2. Transactions[n] \in Seq(Events)
    BY <1>1, <2>1 DEF Emissions
  <2> QED
    BY <2>1, <2>2 DEF Cells
<1>3. /\ emitted' \in Seq(Seq(Cells)) /\ Len(emitted') = n /\ Len(emitted) \in Nat
      /\ \A m \in 1..Len(emitted) : emitted'[m] = emitted[m]
      /\ emitted'[n] = Transactions[n]
  BY <1>1, <1>2 DEF Globals
<1>4. Globals' /\ Locals'
  BY SMTT(30), <1>1, <1>3, GoroutineType DEF Globals, Locals, Places, Array, cacheVars, readVars
<1>5. ASSUME NEW p \in Goroutines PROVE Sound(p)' /\ BatchOK(p)'
  <2>1. CASE p[1] = n /\ p[2] <= listeners
    <3>1. p \in Callbacks /\ pc[p] = "idle"
      BY <2>1, <1>3, GoroutineType DEF Sound
    <3>2. at[p] = 1 /\ kept[p] = 1
      BY <3>1 DEF Sound
    <3>3. pc'[p] = "filter" /\ at'[p] = 1 /\ kept'[p] = 1
      BY <1>1, <2>1, <3>2 DEF readVars
    <3>4. Len(Transactions[n]) \in Nat
      BY <1>2
    <3> QED
      BY <1>1, <1>3, <2>1, <3>1, <3>3, <3>4 DEF Sound, BatchOK
  <2>2. CASE ~(p[1] = n /\ p[2] <= listeners)
    <3>1. pc'[p] = pc[p]
      BY <1>1, <2>2
    <3>2. listeners \in Nat
      BY GoroutineType DEF Globals
    <3>3. Sound(p)'
      BY <1>1, <1>3, <3>1, <3>2, SoundSame DEF readVars
    <3>4. BatchOK(p)'
      BY <1>1, <3>1, BatchStays DEF cacheVars, readVars
    <3> QED
      BY <3>3, <3>4
  <2> QED
    BY <2>1, <2>2
<1> QED
  BY <1>4, <1>5

LEMMA CellWritten ==
  ASSUME NEW s \in Seq(Cells), NEW i, NEW c \in Cells
  PROVE  LET t == [s EXCEPT ![i] = c]
         IN /\ t \in Seq(Cells) /\ Len(t) = Len(s)
            /\ \A j \in 1..Len(s) : t[j] = s[j] \/ (j = i /\ t[j] = c)
<1> DEFINE t == [s EXCEPT ![i] = c]
<1>1. t \in [1..Len(s) -> Cells] /\ Len(s) \in Nat
  <2>1. s \in [1..Len(s) -> Cells] /\ Len(s) \in Nat
    BY LenProperties
  <2>2. t \in [1..Len(s) -> Cells]
    BY <2>1
  <2> QED
    BY <2>1, <2>2
<1>2. \A j \in 1..Len(s) : t[j] = s[j] \/ (j = i /\ t[j] = c)
  OBVIOUS
<1> HIDE DEF t
<1>3. t \in Seq(Cells) /\ Len(t) = Len(s)
  BY <1>1
<1> QED
  BY <1>2, <1>3 DEF t

\* What filters has a slice, and a place in it.
LEMMA FilterPlace ==
  ASSUME PipelineInv, NEW p \in Goroutines, pc[p] = "filter"
  PROVE  /\ p \in Callbacks /\ p[1] \in 1..Len(emitted) /\ Len(emitted) \in Nat
         /\ emitted[p[1]] \in Seq(Cells) /\ Len(emitted[p[1]]) \in Nat
         /\ at[p] \in Nat \ {0} /\ kept[p] \in Nat \ {0}
         /\ kept[p] <= at[p] /\ kept[p] <= Len(emitted[p[1]]) + 1
<1>1. p \in Callbacks /\ p[1] \in 1..Len(emitted) /\ Len(emitted) \in Nat
  BY GoroutineType DEF PipelineInv, Sound, Globals
<1> QED
  BY <1>1 DEF PipelineInv, Sound, Globals, Locals

LEMMA FilterCellEffect ==
  ASSUME PipelineInv, NEW p \in Goroutines, FilterCell(p)
  PROVE  /\ emitted' \in Seq(Seq(Cells)) /\ Len(emitted') = Len(emitted)
         /\ \A n \in 1..Len(emitted) : Len(emitted'[n]) = Len(emitted[n])
         /\ \A n \in 1..Len(emitted) : n # p[1] => emitted'[n] = emitted[n]
         /\ \A i \in 1..Len(emitted[p[1]]) : \/ emitted'[p[1]][i] = emitted[p[1]][i]
                                             \/ i = kept[p] /\ emitted'[p[1]][i] \in Events
<1>1. /\ pc[p] = "filter" /\ at[p] <= Len(emitted[p[1]])
      /\ \/ emitted' = emitted
         \/ /\ emitted[p[1]][at[p]] \in OrderEvents
            /\ emitted' = [emitted EXCEPT ![p[1]][kept[p]] = emitted[p[1]][at[p]]]
  BY DEF FilterCell
<1>2. p[1] \in 1..Len(emitted) /\ emitted[p[1]] \in Seq(Cells)
  BY <1>1, FilterPlace
<1>3. OrderEvents \subseteq Events /\ OrderEvents \subseteq Cells
  BY PipelineAssumption DEF PipelineAssumption, Cells
<1>4. CASE emitted' = emitted
  BY <1>4 DEF PipelineInv, Globals
<1>5. CASE /\ emitted[p[1]][at[p]] \in OrderEvents
           /\ emitted' = [emitted EXCEPT ![p[1]][kept[p]] = emitted[p[1]][at[p]]]
  <2> DEFINE slice == [emitted[p[1]] EXCEPT ![kept[p]] = emitted[p[1]][at[p]]]
  <2>1. /\ slice \in Seq(Cells) /\ Len(slice) = Len(emitted[p[1]])
        /\ \A i \in 1..Len(emitted[p[1]]) :
             \/ slice[i] = emitted[p[1]][i]
             \/ i = kept[p] /\ slice[i] = emitted[p[1]][at[p]]
    BY SMTT(30), <1>2, <1>3, <1>5, CellWritten
  <2>2. \A i \in 1..Len(emitted[p[1]]) : \/ slice[i] = emitted[p[1]][i]
                                         \/ i = kept[p] /\ slice[i] \in Events
    BY <2>1, <1>3, <1>5
  <2>3. emitted' = [emitted EXCEPT ![p[1]] = slice]
    BY <1>5
  <2> HIDE DEF slice
  <2>4. emitted \in Seq(Seq(Cells))
    BY DEF PipelineInv, Globals
  <2>5. emitted' \in Seq(Seq(Cells)) /\ Len(emitted') = Len(emitted) /\ emitted'[p[1]] = slice
        /\ \A n \in 1..Len(emitted) : n # p[1] => emitted'[n] = emitted[n]
    BY <1>2, <2>1, <2>3, <2>4
  <2> QED
    BY <2>1, <2>2, <2>5
<1> QED
  BY <1>1, <1>4, <1>5

LEMMA InvAfterFilterCell ==
  ASSUME PipelineInv, NEW p \in Goroutines, FilterCell(p)
  PROVE  PipelineInv'
<1>1. /\ pc[p] = "filter" /\ at[p] <= Len(emitted[p[1]])
      /\ UNCHANGED <<subscribed, listeners, cacheVars, pc, batch, handled>>
      /\ crashed' \in BOOLEAN
      /\ at' \in {at, [at EXCEPT ![p] = @ + 1]}
      /\ \/ kept' = kept
         \/ kept' = [kept EXCEPT ![p] = @ + 1] /\ at' = [at EXCEPT ![p] = @ + 1]
  BY DEF FilterCell, PipelineInv, Globals
<1>2. /\ emitted' \in Seq(Seq(Cells)) /\ Len(emitted') = Len(emitted)
      /\ \A n \in 1..Len(emitted) : Len(emitted'[n]) = Len(emitted[n])
  BY FilterCellEffect
<1>3. /\ p \in Callbacks /\ p[1] \in 1..Len(emitted) /\ Len(emitted) \in Nat
      /\ Len(emitted[p[1]]) \in Nat /\ at[p] \in Nat \ {0} /\ kept[p] \in Nat \ {0}
      /\ kept[p] <= at[p] /\ kept[p] <= Len(emitted[p[1]]) + 1
  BY <1>1, FilterPlace
<1>4. Globals'
  <2>1. Array' = Array
    BY <1>1 DEF Array, cacheVars
  <2> QED
    BY <1>1, <1>2, <2>1 DEF PipelineInv, Globals, cacheVars
<1>5. Locals'
  <2>1. /\ at \in [Goroutines -> Nat \ {0}] /\ kept \in [Goroutines -> Nat \ {0}]
        /\ at[p] + 1 \in Nat \ {0} /\ kept[p] + 1 \in Nat \ {0}
    BY <1>3 DEF PipelineInv, Locals
  <2>2. at' \in [Goroutines -> Nat \ {0}]
    BY <1>1, <2>1
  <2>3. kept' \in [Goroutines -> Nat \ {0}]
    BY <1>1, <2>1
  <2> QED
    BY <1>1, <2>2, <2>3 DEF PipelineInv, Locals
<1>6. /\ at'[p] \in {at[p], at[p] + 1}
      /\ kept'[p] = kept[p] \/ (kept'[p] = kept[p] + 1 /\ at'[p] = at[p] + 1)
      /\ \A q \in Goroutines : q # p => at'[q] = at[q] /\ kept'[q] = kept[q]
  BY <1>1 DEF PipelineInv, Locals
<1>7. ASSUME NEW q \in Goroutines PROVE Sound(q)' /\ BatchOK(q)'
  <2>1. CASE q = p
    <3>1. pc'[q] = "filter" /\ Len(emitted'[q[1]]) = Len(emitted[q[1]]) /\ listeners' = listeners
      BY <2>1, <1>1, <1>2, <1>3
    <3>2. q[1] <= Len(emitted) /\ q[2] <= listeners
      BY <2>1, <1>1 DEF PipelineInv, Sound
    <3>3. kept'[q] <= at'[q] /\ kept'[q] <= Len(emitted[q[1]]) + 1
      BY <2>1, <1>1, <1>3, <1>6
    <3> QED
      BY <2>1, <1>2, <1>3, <3>1, <3>2, <3>3 DEF Sound, BatchOK
  <2>2. CASE q # p
    <3>1. pc' = pc /\ listeners' = listeners /\ arrays' = arrays /\ batch' = batch
      BY <1>1 DEF cacheVars
    <3>2. Sound(q) /\ BatchOK(q) /\ Globals /\ listeners \in Nat
      BY GoroutineType DEF PipelineInv, Globals
    <3>3. Sound(q)'
      BY <2>2, <1>2, <1>3, <1>6, <3>1, <3>2, SoundSame
    <3>4. BatchOK(q)'
      BY <2>2, <1>6, <3>1, <3>2, BatchStays
    <3> QED
      BY <3>3, <3>4
  <2> QED
    BY <2>1, <2>2
<1> QED
  BY <1>4, <1>5, <1>7 DEF PipelineInv

LEMMA FilterEndsEffect ==
  ASSUME PipelineInv, NEW p \in Goroutines, FilterEnds(p)
  PROVE  /\ emitted' \in Seq(Seq(Cells)) /\ Len(emitted') = Len(emitted)
         /\ \A n \in 1..Len(emitted) : Len(emitted'[n]) = Len(emitted[n])
         /\ \A n \in 1..Len(emitted) : n # p[1] => emitted'[n] = emitted[n]
         /\ \A i \in 1..(kept[p] - 1) : emitted'[p[1]][i] = emitted[p[1]][i]
<1>1. /\ pc[p] = "filter"
      /\ emitted' = [emitted EXCEPT ![p[1]] =
                       [i \in DOMAIN @ |-> IF i < kept[p] THEN @[i] ELSE None]]
  BY DEF FilterEnds
<1>2. /\ p[1] \in 1..Len(emitted) /\ emitted[p[1]] \in Seq(Cells) /\ kept[p] \in Nat
      /\ kept[p] <= Len(emitted[p[1]]) + 1 /\ Len(emitted[p[1]]) \in Nat
  BY <1>1, FilterPlace
<1> DEFINE slice == [i \in DOMAIN emitted[p[1]] |->
                       IF i < kept[p] THEN emitted[p[1]][i] ELSE None]
<1>3. DOMAIN slice = 1..Len(emitted[p[1]]) /\ \A i \in 1..Len(emitted[p[1]]) : slice[i] \in Cells
  BY <1>2 DEF Cells
<1>4. slice \in Seq(Cells) /\ Len(slice) = Len(emitted[p[1]])
  <2>1. slice \in [1..Len(emitted[p[1]]) -> Cells]
    BY <1>3
  <2> HIDE DEF slice
  <2> QED
    BY SMTT(30), <1>2, <2>1
<1>5. \A i \in 1..(kept[p] - 1) : slice[i] = emitted[p[1]][i]
  BY <1>2
<1>6. emitted' = [emitted EXCEPT ![p[1]] = slice]
  BY <1>1
<1> HIDE DEF slice
<1>7. emitted \in Seq(Seq(Cells))
  BY DEF PipelineInv, Globals
<1>8. emitted' \in Seq(Seq(Cells)) /\ Len(emitted') = Len(emitted) /\ emitted'[p[1]] = slice
      /\ \A n \in 1..Len(emitted) : n # p[1] => emitted'[n] = emitted[n]
  BY <1>2, <1>4, <1>6, <1>7
<1> QED
  BY <1>4, <1>5, <1>8

LEMMA InvAfterFilterEnds ==
  ASSUME PipelineInv, NEW p \in Goroutines, FilterEnds(p)
  PROVE  PipelineInv'
<1>1. /\ pc[p] = "filter"
      /\ UNCHANGED <<subscribed, listeners, cacheVars, kept, batch, handled, crashed>>
      /\ at' = [at EXCEPT ![p] = 1]
      /\ pc' = [pc EXCEPT ![p] = IF kept[p] > 1 THEN "pend" ELSE "done"]
  BY DEF FilterEnds
<1>2. /\ emitted' \in Seq(Seq(Cells)) /\ Len(emitted') = Len(emitted)
      /\ \A n \in 1..Len(emitted) : Len(emitted'[n]) = Len(emitted[n])
  BY FilterEndsEffect
<1>3. /\ p \in Callbacks /\ p[1] \in 1..Len(emitted) /\ Len(emitted) \in Nat
      /\ kept[p] \in Nat \ {0} /\ kept[p] <= Len(emitted[p[1]]) + 1
  BY <1>1, FilterPlace
<1>4. Globals'
  <2>1. Array' = Array
    BY <1>1 DEF Array, cacheVars
  <2> QED
    BY <1>1, <1>2, <2>1 DEF PipelineInv, Globals, cacheVars
<1>5. Locals'
  BY <1>1 DEF PipelineInv, Locals, Places
<1>6. /\ at'[p] = 1 /\ pc'[p] = IF kept[p] > 1 THEN "pend" ELSE "done"
      /\ \A q \in Goroutines : q # p => at'[q] = at[q] /\ pc'[q] = pc[q]
  BY <1>1 DEF PipelineInv, Locals
<1>7. ASSUME NEW q \in Goroutines PROVE Sound(q)' /\ BatchOK(q)'
  <2>1. kept' = kept /\ listeners' = listeners /\ arrays' = arrays /\ batch' = batch
    BY <1>1 DEF cacheVars
  <2>2. CASE q = p
    <3>1. q[1] <= Len(emitted) /\ q[2] <= listeners
      BY <2>2, <1>1 DEF PipelineInv, Sound
    <3> QED
      BY <2>1, <2>2, <1>2, <1>3, <1>6, <3>1 DEF Sound, BatchOK
  <2>3. CASE q # p
    <3>1. Sound(q) /\ BatchOK(q) /\ Globals /\ listeners \in Nat
      BY GoroutineType DEF PipelineInv, Globals
    <3>2. Sound(q)'
      BY <2>1, <2>3, <1>2, <1>3, <1>6, <3>1, SoundSame
    <3>3. BatchOK(q)'
      BY <2>1, <2>3, <1>6, <3>1, BatchStays
    <3> QED
      BY <3>2, <3>3
  <2> QED
    BY <2>2, <2>3
<1> QED
  BY <1>4, <1>5, <1>7 DEF PipelineInv

\* An append keeps every array's length, and writes nothing but the filtered events.
LEMMA PendEffect ==
  ASSUME PipelineInv, NEW p \in Goroutines, Pend(p)
  PROVE  /\ arrays' \in Seq(Seq(Cells)) /\ Len(arrays') >= Len(arrays)
         /\ \A a \in 1..Len(arrays) :
              /\ Len(arrays'[a]) = Len(arrays[a])
              /\ \A i \in 1..Len(arrays[a]) :
                   \/ arrays'[a][i] = arrays[a][i]
                   \/ \E j \in 1..Len(Filtered(p)) : arrays'[a][i] = Filtered(p)[j]
         /\ cached' \in 0..Len(Array') /\ overwritten' \in BOOLEAN
         /\ \A i \in 1..cached' :
              \/ i \in 1..cached /\ Array'[i] = Array[i]
              \/ \E j \in 1..Len(Filtered(p)) : Array'[i] = Filtered(p)[j]
<1> DEFINE length == cached + Len(Filtered(p))
           Cell(i) == IF i > cached /\ i <= length THEN Filtered(p)[i - cached]
                      ELSE IF i <= Len(Array) THEN Array[i] ELSE None
<1>1. pc[p] = "pend" /\ cached' = length
  BY DEF Pend
<1>2. /\ Len(Filtered(p)) \in Nat /\ Len(Filtered(p)) > 0
      /\ \A i \in 1..Len(Filtered(p)) : Filtered(p)[i] \in Cells
  BY <1>1, FilteredType DEF PipelineInv
<1>3. /\ Array \in Seq(Cells) /\ Len(Array) \in Nat /\ cached \in Nat /\ cached <= Len(Array)
      /\ Len(arrays) \in Nat /\ arrays \in Seq(Seq(Cells))
      /\ Len(Array) > 0 => Len(arrays) \in DOMAIN arrays /\ Array = arrays[Len(arrays)]
  BY ArrayType DEF PipelineInv, Globals
<1>4. length \in Nat /\ length > cached
  BY <1>2, <1>3
<1>5. \A i \in Nat \ {0} : Cell(i) \in Cells
  <2> SUFFICES ASSUME NEW i \in Nat \ {0} PROVE Cell(i) \in Cells
    OBVIOUS
  <2>1. CASE i > cached /\ i <= length
    <3>1. i - cached \in 1..Len(Filtered(p))
      BY <2>1, <1>2, <1>3
    <3> QED
      BY <2>1, <3>1, <1>2
  <2>2. CASE ~(i > cached /\ i <= length) /\ i <= Len(Array)
    BY <2>2, <1>3
  <2>3. CASE ~(i > cached /\ i <= length) /\ ~(i <= Len(Array))
    BY <2>3 DEF Cells
  <2> QED
    BY <2>1, <2>2, <2>3
<1>6. \A i \in 1..Len(Array) : \/ Cell(i) = Array[i] /\ (i <= length => i \in 1..cached)
                               \/ \E j \in 1..Len(Filtered(p)) : Cell(i) = Filtered(p)[j]
  <2> SUFFICES ASSUME NEW i \in 1..Len(Array)
               PROVE  \/ Cell(i) = Array[i] /\ (i <= length => i \in 1..cached)
                      \/ \E j \in 1..Len(Filtered(p)) : Cell(i) = Filtered(p)[j]
    OBVIOUS
  <2>1. CASE i > cached /\ i <= length
    <3>1. i - cached \in 1..Len(Filtered(p)) /\ Cell(i) = Filtered(p)[i - cached]
      BY <2>1, <1>2, <1>3
    <3> QED
      BY <3>1
  <2>2. CASE ~(i > cached /\ i <= length)
    BY <2>2, <1>3
  <2> QED
    BY <2>1, <2>2
<1>7. \A i \in 1..length : \/ i \in 1..cached /\ Cell(i) = Array[i]
                           \/ \E j \in 1..Len(Filtered(p)) : Cell(i) = Filtered(p)[j]
  <2> SUFFICES ASSUME NEW i \in 1..length
               PROVE  \/ i \in 1..cached /\ Cell(i) = Array[i]
                      \/ \E j \in 1..Len(Filtered(p)) : Cell(i) = Filtered(p)[j]
    OBVIOUS
  <2>1. CASE i > cached
    <3>1. i - cached \in 1..Len(Filtered(p)) /\ Cell(i) = Filtered(p)[i - cached]
      BY <2>1, <1>2, <1>3
    <3> QED
      BY <3>1
  <2>2. CASE ~(i > cached)
    BY <2>2, <1>3
  <2> QED
    BY <2>1, <2>2
<1>8. CASE length <= Len(Array)
  <2>1. /\ arrays' = [arrays EXCEPT ![Len(arrays)] = [i \in DOMAIN @ |-> Cell(i)]]
        /\ overwritten' \in BOOLEAN
    BY <1>8 DEF Pend, PipelineInv, Globals
  <2> DEFINE cells == [i \in 1..Len(Array) |-> Cell(i)]
  <2>2. Len(arrays) \in 1..Len(arrays) /\ Array = arrays[Len(arrays)]
        /\ DOMAIN Array = 1..Len(Array)
    BY <1>3, <1>4, <1>8
  <2>3. arrays' = [arrays EXCEPT ![Len(arrays)] = cells]
    BY <2>1, <2>2
  <2>4. cells \in [1..Len(Array) -> Cells]
    BY <1>5
  <2>5. \A i \in 1..Len(Array) : cells[i] = Cell(i)
    OBVIOUS
  <2> HIDE DEF cells, Cell, length
  <2>6. cells \in Seq(Cells) /\ Len(cells) = Len(Array)
    BY <2>4, <1>3
  <2>7. /\ arrays' \in Seq(Seq(Cells)) /\ Len(arrays') = Len(arrays)
        /\ arrays'[Len(arrays)] = cells
        /\ \A a \in 1..Len(arrays) : a # Len(arrays) => arrays'[a] = arrays[a]
    BY <1>3, <2>2, <2>3, <2>6
  <2>8. Array' = cells
    BY <1>3, <2>2, <2>7 DEF Array
  <2>9. \A i \in 1..Len(Array) : \/ cells[i] = Array[i]
                                 \/ \E j \in 1..Len(Filtered(p)) : cells[i] = Filtered(p)[j]
    BY <1>6, <2>5
  <2>10. ASSUME NEW a \in 1..Len(arrays)
         PROVE  /\ Len(arrays'[a]) = Len(arrays[a])
                /\ \A i \in 1..Len(arrays[a]) :
                     \/ arrays'[a][i] = arrays[a][i]
                     \/ \E j \in 1..Len(Filtered(p)) : arrays'[a][i] = Filtered(p)[j]
    <3>1. CASE a = Len(arrays)
      BY <3>1, <2>2, <2>6, <2>7, <2>9
    <3>2. CASE a # Len(arrays)
      BY <3>2, <2>7
    <3> QED
      BY <3>1, <3>2
  <2>11. \A i \in 1..length : i \in 1..Len(Array)
    BY <1>3, <1>4, <1>8
  <2>12. \A i \in 1..length : \/ i \in 1..cached /\ cells[i] = Array[i]
                              \/ \E j \in 1..Len(Filtered(p)) : cells[i] = Filtered(p)[j]
    BY <1>7, <2>5, <2>11
  <2>13. length \in 0..Len(cells)
    BY <1>4, <1>8, <1>3, <2>6
  <2>14. cached' \in 0..Len(Array')
    BY <1>1, <2>8, <2>13
  <2>15. \A i \in 1..cached' : \/ i \in 1..cached /\ Array'[i] = Array[i]
                               \/ \E j \in 1..Len(Filtered(p)) : Array'[i] = Filtered(p)[j]
    BY <1>1, <2>8, <2>12
  <2>16. Len(arrays') >= Len(arrays)
    BY <1>3, <2>7
  <2> QED
    BY <2>1, <2>7, <2>10, <2>14, <2>15, <2>16
<1>9. CASE ~(length <= Len(Array))
  <2> DEFINE size == Capacity(length, Len(Array))
             cells == [i \in 1..size |-> Cell(i)]
  <2>1. arrays' = Append(arrays, cells) /\ overwritten' = overwritten
    BY <1>9 DEF Pend
  <2>2. size \in Nat /\ size >= length
    BY <1>3, <1>4, CapacityIsEnough
  <2>3. cells \in [1..size -> Cells]
    BY <1>5, <2>2
  <2>4. \A i \in 1..size : cells[i] = Cell(i)
    OBVIOUS
  <2> HIDE DEF cells, Cell, length, size
  <2>5. cells \in Seq(Cells) /\ Len(cells) = size
    BY <2>2, <2>3
  <2>6. /\ arrays' \in Seq(Seq(Cells)) /\ Len(arrays') = Len(arrays) + 1
        /\ arrays'[Len(arrays) + 1] = cells
        /\ \A a \in 1..Len(arrays) : arrays'[a] = arrays[a]
    BY <1>3, <2>1, <2>5
  <2>7. Array' = cells
    <3>1. arrays' # <<>> /\ Len(arrays') = Len(arrays) + 1
      BY <2>6, <1>3
    <3> QED
      BY <2>6, <3>1 DEF Array
  <2>8. \A i \in 1..length : \/ i \in 1..cached /\ cells[i] = Array[i]
                             \/ \E j \in 1..Len(Filtered(p)) : cells[i] = Filtered(p)[j]
    BY <1>4, <1>7, <2>2, <2>4
  <2>9. length \in 0..Len(cells)
    BY <1>4, <2>2, <2>5
  <2>10. overwritten' \in BOOLEAN
    BY <2>1 DEF PipelineInv, Globals
  <2>11. Len(arrays') >= Len(arrays)
    BY <1>3, <2>6
  <2> QED
    BY <1>1, <2>6, <2>7, <2>8, <2>9, <2>10, <2>11
<1> QED
  BY <1>8, <1>9

LEMMA InvAfterPend ==
  ASSUME PipelineInv, NEW p \in Goroutines, Pend(p)
  PROVE  PipelineInv'
<1>1. /\ pc[p] = "pend" /\ pc' = [pc EXCEPT ![p] = "check"]
      /\ UNCHANGED <<subscribed, listeners, emitted, readVars, handled, crashed>>
  BY DEF Pend
<1>2. /\ arrays' \in Seq(Seq(Cells)) /\ Len(arrays') >= Len(arrays)
      /\ \A a \in 1..Len(arrays) : Len(arrays'[a]) = Len(arrays[a])
      /\ cached' \in 0..Len(Array') /\ overwritten' \in BOOLEAN
  BY PendEffect
<1>3. Globals' /\ Locals'
  BY <1>1, <1>2 DEF PipelineInv, Globals, Locals, Places, readVars
<1>4. pc'[p] = "check" /\ \A q \in Goroutines : q # p => pc'[q] = pc[q]
  BY <1>1 DEF PipelineInv, Locals
<1>5. ASSUME NEW q \in Goroutines PROVE Sound(q)' /\ BatchOK(q)'
  <2>1. UNCHANGED <<at, kept, batch, listeners, emitted>>
    BY <1>1 DEF readVars
  <2>2. Sound(q) /\ BatchOK(q) /\ Globals
    BY DEF PipelineInv
  <2>3. CASE q = p
    BY <1>1, <1>4, <2>1, <2>2, <2>3 DEF Sound, BatchOK
  <2>4. CASE q # p
    <3>1. Sound(q)'
      BY <1>4, <2>1, <2>2, <2>4 DEF Sound
    <3>2. BatchOK(q)'
      BY <1>2, <1>4, <2>1, <2>2, <2>4, BatchSame
    <3> QED
      BY <3>1, <3>2
  <2> QED
    BY <2>3, <2>4
<1> QED
  BY <1>3, <1>5 DEF PipelineInv

LEMMA InvAfterTake ==
  ASSUME PipelineInv, NEW p \in Goroutines, Take(p)
  PROVE  PipelineInv'
<1>1. /\ pc[p] \in {"take", "wait"}
      /\ \/ pc' = [pc EXCEPT ![p] = Rest(p)] /\ UNCHANGED <<batch, cached>>
         \/ /\ cached # 0 /\ cached' = 0
            /\ pc' = [pc EXCEPT ![p] = "apply"]
            /\ batch' = [batch EXCEPT ![p] = [array |-> Len(arrays), length |-> cached]]
      /\ UNCHANGED <<subscribed, listeners, emitted, arrays, overwritten, at, kept, handled, crashed>>
  BY DEF Take
<1>2. /\ Len(Array) \in Nat /\ cached \in Nat /\ cached <= Len(Array) /\ Len(arrays) \in Nat
      /\ Len(Array) > 0 => Len(arrays) \in DOMAIN arrays /\ Array = arrays[Len(arrays)]
  BY ArrayType DEF PipelineInv
<1>3. Globals'
  <2>1. Array' = Array
    BY <1>1 DEF Array
  <2> QED
    BY <1>1, <1>2, <2>1 DEF PipelineInv, Globals
<1>4. Locals'
  <2>1. Rest(p) \in Places /\ "apply" \in Places
    BY DEF Rest, Places
  <2>2. [array |-> Len(arrays), length |-> cached] \in Batches
    BY <1>2 DEF Batches
  <2> QED
    BY <1>1, <2>1, <2>2 DEF PipelineInv, Locals
<1>5. \A q \in Goroutines : q # p => pc'[q] = pc[q] /\ batch'[q] = batch[q]
  BY <1>1 DEF PipelineInv, Locals
<1>6. ASSUME NEW q \in Goroutines PROVE Sound(q)' /\ BatchOK(q)'
  <2>1. Sound(q) /\ BatchOK(q)
    BY DEF PipelineInv
  <2>2. CASE q # p
    <3>1. Sound(q)'
      BY <1>1, <1>5, <2>1, <2>2 DEF Sound
    <3> QED
      BY <1>1, <1>5, <2>1, <2>2, <3>1, BatchStays
  <2>3. CASE q = p
    <3>1. at'[q] = 1
      BY <1>1, <2>1, <2>3 DEF Sound
    <3>2. pc'[q] \in {"wait", "done", "apply"}
      BY <1>1, <2>3 DEF PipelineInv, Locals, Rest
    <3>3. Sound(q)'
      BY <1>1, <2>1, <2>3, <3>1, <3>2 DEF Sound
    <3>4. CASE pc'[q] = "apply"
      <4>1. cached # 0 /\ batch' = [batch EXCEPT ![p] = [array |-> Len(arrays), length |-> cached]]
        BY <1>1, <2>3, <3>4 DEF PipelineInv, Locals, Rest
      <4>2. batch'[q].array = Len(arrays) /\ batch'[q].length = cached
        BY <4>1, <2>3 DEF PipelineInv, Locals
      <4>3. /\ Len(arrays) \in DOMAIN arrays /\ cached <= Len(arrays[Len(arrays)]) /\ 1 <= cached
        BY <4>1, <1>2
      <4> QED
        BY <1>1, <3>1, <3>3, <4>2, <4>3 DEF BatchOK
    <3>5. CASE pc'[q] # "apply"
      BY <3>3, <3>5 DEF BatchOK
    <3> QED
      BY <3>4, <3>5
  <2> QED
    BY <2>2, <2>3
<1> QED
  BY <1>3, <1>4, <1>6 DEF PipelineInv

LEMMA InvAfterApply ==
  ASSUME PipelineInv, NEW p \in Goroutines, Apply(p)
  PROVE  PipelineInv'
<1> DEFINE event == arrays[batch[p].array][at[p]]
           last == at[p] = batch[p].length
<1>1. /\ pc[p] = "apply" /\ UNCHANGED <<subscribed, listeners, emitted, cacheVars, kept>>
      /\ \/ crashed' = TRUE /\ UNCHANGED <<handled, at, pc, batch>>
         \/ /\ event # None
            /\ handled' = [handled EXCEPT ![event] = @ + 1]
            /\ at' = [at EXCEPT ![p] = IF last THEN 1 ELSE @ + 1]
            /\ pc' = [pc EXCEPT ![p] = IF last THEN Rest(p) ELSE @]
            /\ batch' = [batch EXCEPT ![p] = IF last THEN NoBatch ELSE @]
            /\ UNCHANGED crashed
  BY DEF Apply
<1>2. /\ batch[p].array \in DOMAIN arrays /\ at[p] \in Nat \ {0} /\ batch[p].length \in Nat
      /\ at[p] <= batch[p].length /\ batch[p].length <= Len(arrays[batch[p].array])
      /\ arrays \in Seq(Seq(Cells))
  BY <1>1 DEF PipelineInv, BatchOK, Locals, Batches, Globals
<1>3. event \in Cells
  <2>1. arrays[batch[p].array] \in Seq(Cells)
    BY <1>2
  <2>2. at[p] \in 1..Len(arrays[batch[p].array])
    BY <1>2, <2>1
  <2> QED
    BY <2>1, <2>2
<1>4. Globals'
  <2>1. Array' = Array
    BY <1>1 DEF Array, cacheVars
  <2>2. handled' \in [Events -> Nat] /\ crashed' \in BOOLEAN
    <3>1. handled \in [Events -> Nat] /\ crashed \in BOOLEAN
      BY DEF PipelineInv, Globals
    <3> HIDE DEF event, last
    <3>2. event # None => event \in Events
      BY <1>3 DEF Cells
    <3>3. crashed' = TRUE \/ crashed' = crashed
      BY <1>1
    <3>4. handled' = handled \/ (event # None /\ handled' = [handled EXCEPT ![event] = @ + 1])
      BY <1>1
    <3>5. ASSUME event \in Events, handled' = [handled EXCEPT ![event] = @ + 1]
          PROVE  handled' \in [Events -> Nat]
      <4>1. handled[event] + 1 \in Nat
        BY <3>1, <3>5
      <4> QED
        BY <3>1, <3>5, <4>1
    <3>6. crashed' \in BOOLEAN
      BY <3>1, <3>3
    <3>7. handled' \in [Events -> Nat]
      BY <3>1, <3>2, <3>4, <3>5
    <3> QED
      BY <3>6, <3>7
  <2> QED
    BY <1>1, <2>1, <2>2 DEF PipelineInv, Globals, cacheVars
<1>5. CASE UNCHANGED <<handled, at, pc, batch>>
  BY <1>1, <1>4, <1>5 DEF PipelineInv, Locals, Sound, BatchOK, cacheVars
<1>6. CASE /\ at' = [at EXCEPT ![p] = IF last THEN 1 ELSE @ + 1]
           /\ pc' = [pc EXCEPT ![p] = IF last THEN Rest(p) ELSE @]
           /\ batch' = [batch EXCEPT ![p] = IF last THEN NoBatch ELSE @]
  <2>1. Rest(p) \in Places /\ NoBatch \in Batches /\ at[p] + 1 \in Nat \ {0}
    BY <1>2 DEF Rest, Places, NoBatch, Batches
  <2>2. Locals'
    BY <1>1, <1>6, <2>1 DEF PipelineInv, Locals
  <2>3. /\ at'[p] = IF last THEN 1 ELSE at[p] + 1
        /\ pc'[p] = IF last THEN Rest(p) ELSE "apply"
        /\ batch'[p] = IF last THEN NoBatch ELSE batch[p]
        /\ \A q \in Goroutines : q # p => at'[q] = at[q] /\ pc'[q] = pc[q] /\ batch'[q] = batch[q]
    BY <1>1, <1>6 DEF PipelineInv, Locals
  <2>4. ASSUME NEW q \in Goroutines PROVE Sound(q)' /\ BatchOK(q)'
    <3>1. Sound(q) /\ BatchOK(q) /\ arrays' = arrays
      BY <1>1 DEF PipelineInv, cacheVars
    <3>2. CASE q # p
      <4>1. Sound(q)'
        BY <1>1, <2>3, <3>1, <3>2 DEF Sound
      <4> QED
        BY <2>3, <3>1, <3>2, <4>1, BatchStays
    <3>3. CASE q = p
      <4>1. q[1] <= Len(emitted) /\ q[2] <= listeners
        BY <1>1, <3>1, <3>3 DEF Sound
      <4>2. pc'[q] \in {"wait", "done", "apply"}
        BY <2>3, <3>3 DEF Rest
      <4>3. Sound(q)'
        BY <1>1, <2>3, <3>3, <4>1, <4>2 DEF Sound, Rest
      <4>4. BatchOK(q)'
        BY SMTT(30), <1>2, <2>3, <3>1, <3>3 DEF BatchOK, Rest
      <4> QED
        BY <4>3, <4>4
    <3> QED
      BY <3>2, <3>3
  <2> QED
    BY <1>4, <2>2, <2>4 DEF PipelineInv
<1> QED
  BY <1>1, <1>5, <1>6

LEMMA InvAfterMoves ==
  ASSUME PipelineInv, NEW p \in Goroutines, CheckFull(p) \/ TickerEnds(p)
  PROVE  PipelineInv'
<1>1. /\ pc[p] \in {"check", "wait"}
      /\ pc' = [pc EXCEPT ![p] = "take"] \/ pc' = [pc EXCEPT ![p] = "done"]
      /\ UNCHANGED <<subscribed, listeners, emitted, cacheVars, readVars, handled, crashed>>
  BY DEF CheckFull, TickerEnds
<1>2. Globals'
  <2>1. Array' = Array
    BY <1>1 DEF Array, cacheVars
  <2> QED
    BY <1>1, <2>1 DEF PipelineInv, Globals, cacheVars
<1>3. Locals'
  BY <1>1 DEF PipelineInv, Locals, Places, readVars
<1>4. pc'[p] \in {"take", "done"} /\ \A q \in Goroutines : q # p => pc'[q] = pc[q]
  BY <1>1 DEF PipelineInv, Locals
<1>5. ASSUME NEW q \in Goroutines PROVE Sound(q)' /\ BatchOK(q)'
  BY <1>1, <1>4 DEF PipelineInv, Sound, BatchOK, cacheVars, readVars
<1> QED
  BY <1>2, <1>3, <1>5 DEF PipelineInv

LEMMA PipelineInvInitially == Init => PipelineInv
<1> SUFFICES ASSUME Init PROVE PipelineInv
  OBVIOUS
<1>1. Globals
  <2>1. /\ emitted \in Seq(Seq(Cells)) /\ Len(emitted) = 0
        /\ arrays \in Seq(Seq(Cells)) /\ Len(Array) = 0
    BY DEF Init, Array
  <2>2. Len(Transactions) \in Nat /\ MaxListeners \in Nat
    BY GoroutineType
  <2>3. listeners \in 0..MaxListeners /\ Len(emitted) <= Len(Transactions)
    BY <2>1, <2>2 DEF Init
  <2>4. /\ handled \in [Events -> Nat] /\ subscribed \in BOOLEAN /\ overwritten \in BOOLEAN
        /\ crashed \in BOOLEAN
    BY DEF Init
  <2>5. cached \in 0..Len(Array)
    BY <2>1 DEF Init
  <2> QED
    BY <2>1, <2>3, <2>4, <2>5 DEF Globals
<1>2. Locals
  BY DEF Init, Locals, Places, Batches, NoBatch
<1>3. \A p \in Goroutines : BatchOK(p) /\ Sound(p)
  BY DEF Init, BatchOK, Sound
<1> QED
  BY <1>1, <1>2, <1>3 DEF PipelineInv

LEMMA PipelineInvKept ==
  ASSUME PipelineInv, [Next]_vars
  PROVE  PipelineInv'
<1>1. CASE UNCHANGED vars
  BY <1>1 DEF PipelineInv, Globals, Locals, Array, BatchOK, Sound, vars, cacheVars, readVars
<1> QED
  BY <1>1, InvAfterSubscribing, InvAfterHandleTxLogs, InvAfterFilterCell, InvAfterFilterEnds,
     InvAfterPend, InvAfterTake, InvAfterApply, InvAfterMoves
  DEF Next, Step, Listener, HandleEvents

LEMMA PipelineInvAlways == Spec => []PipelineInv
BY PipelineInvInitially, PipelineInvKept, PTL DEF Spec

\* The state is well-typed, however many goroutines share the cache: in
\* particular a batch never reaches beyond the array it was cut from, although
\* eventCache has grown out of that array or writes into it again.
THEOREM PipelineIsWellTyped == Spec => []TypeOK
<1>1. PipelineInv => TypeOK
  BY DEF PipelineInv, Globals, Locals, BatchOK, TypeOK, Cells, Places
<1> QED
  BY <1>1, PipelineInvAlways, PTL
-----------------------------------------------------------------------------
(* No nil pointer.                                                         *)

\* What p has kept of its slice, and what it has yet to look at.
SliceFull(p) ==
  pc[p] \in {"filter", "pend"} =>
    \A i \in 1..Len(emitted[p[1]]) :
      i < kept[p] \/ (pc[p] = "filter" /\ i >= at[p]) => emitted[p[1]][i] # None

CacheFull == \A i \in 1..cached : Array[i] # None

BatchFull(p) ==
  pc[p] = "apply" => \A i \in 1..batch[p].length : arrays[batch[p].array][i] # None

NoNil == ~crashed /\ CacheFull /\ \A p \in Goroutines : SliceFull(p) /\ BatchFull(p)

\* The slice of a callback that filters or appends has been emitted.
LEMMA BusyIsEmitted ==
  ASSUME PipelineInv, NEW p \in Goroutines, pc[p] \in {"filter", "pend"}
  PROVE  p \in Callbacks /\ p[1] \in 1..Len(emitted) /\ emitted[p[1]] \in Seq(Cells)
<1>1. p \in Callbacks /\ p[1] <= Len(emitted)
  BY DEF PipelineInv, Sound
<1>2. p[1] \in Nat /\ p[1] >= 1
  BY <1>1, GoroutineType
<1>3. emitted \in Seq(Seq(Cells)) /\ Len(emitted) \in Nat
  BY DEF PipelineInv, Globals
<1>4. p[1] \in 1..Len(emitted)
  BY <1>1, <1>2, <1>3
<1> QED
  BY <1>1, <1>3, <1>4

\* With one listener a slice has one callback.
LEMMA OneCallback ==
  ASSUME PipelineInv, listeners <= 1, NEW p \in Goroutines, NEW q \in Goroutines,
         pc[p] \in {"filter", "pend"}, pc[q] \in {"filter", "pend"}, p[1] = q[1]
  PROVE  p = q
<1>1. p \in Callbacks /\ q \in Callbacks /\ p[2] <= listeners /\ q[2] <= listeners
  BY DEF PipelineInv, Sound
<1>2. p[2] \in 1..MaxListeners /\ q[2] \in 1..MaxListeners /\ listeners \in Nat
      /\ p = <<p[1], p[2]>> /\ q = <<q[1], q[2]>>
  BY <1>1, GoroutineType DEF PipelineInv, Globals
<1>3. p[2] = 1 /\ q[2] = 1
  BY <1>1, <1>2
<1> QED
  BY <1>2, <1>3

\* What the steps of one goroutine leave to the others.
LEMMA FullSame ==
  ASSUME NEW p \in Goroutines, SliceFull(p), BatchFull(p), pc'[p] = pc[p], at'[p] = at[p],
         kept'[p] = kept[p], batch'[p] = batch[p], arrays' = arrays,
         pc[p] \in {"filter", "pend"} => emitted'[p[1]] = emitted[p[1]]
  PROVE  SliceFull(p)' /\ BatchFull(p)'
BY DEF SliceFull, BatchFull

LEMMA NoNilAfterProgram ==
  ASSUME PipelineInv, NoNil, Subscribe \/ Unsubscribe \/ HandleTxLogs
  PROVE  NoNil'
<1> USE DEF PipelineInv, NoNil
<1>1. UNCHANGED <<cacheVars, readVars, crashed>>
  BY DEF Subscribe, Unsubscribe, HandleTxLogs
<1>2. CacheFull' /\ ~crashed'
  BY <1>1 DEF CacheFull, Array, cacheVars
<1>3. CASE Unsubscribe
  <2>1. UNCHANGED <<pc, emitted>>
    BY <1>3 DEF Unsubscribe
  <2> QED
    BY <1>1, <1>2, <2>1, FullSame DEF readVars, cacheVars
<1>4. CASE Subscribe
  <2>1. emitted' = emitted /\ pc' = [pc EXCEPT ![<<0, listeners + 1>>] = "wait"]
    BY <1>4 DEF Subscribe
  <2>2. \A p \in Goroutines : pc'[p] = pc[p] \/ pc'[p] = "wait"
    BY <2>1 DEF Locals
  <2>3. ASSUME NEW p \in Goroutines PROVE SliceFull(p)' /\ BatchFull(p)'
    <3>1. CASE pc'[p] = pc[p]
      BY <1>1, <2>1, <3>1, FullSame DEF readVars, cacheVars
    <3>2. CASE pc'[p] = "wait"
      BY <3>2 DEF SliceFull, BatchFull
    <3> QED
      BY <2>2, <3>1, <3>2
  <2> QED
    BY <1>2, <2>3
<1>5. CASE HandleTxLogs
  <2> DEFINE n == Len(emitted) + 1
  <2>1. /\ n \in Emissions /\ emitted' = Append(emitted, Transactions[n])
        /\ pc' = [p \in Goroutines |-> IF p[1] = n /\ p[2] <= listeners THEN "filter" ELSE pc[p]]
    BY <1>5 DEF HandleTxLogs
  <2>2. /\ Len(emitted) \in Nat /\ emitted'[n] = Transactions[n]
        /\ \A m \in 1..Len(emitted) : emitted'[m] = emitted[m]
    BY <2>1 DEF Globals
  <2>3. Transactions[n] \in Seq(Events) /\ None \notin Events
    BY <2>1, PipelineAssumption DEF PipelineAssumption, Emissions
  <2>4. \A i \in 1..Len(Transactions[n]) : Transactions[n][i] # None
    BY <2>3
  <2>5. ASSUME NEW p \in Goroutines PROVE SliceFull(p)' /\ BatchFull(p)'
    <3>1. CASE p[1] = n /\ p[2] <= listeners
      <4>1. pc'[p] = "filter" /\ emitted'[p[1]] = Transactions[n]
        BY <2>1, <2>2, <3>1
      <4> QED
        BY <2>4, <4>1 DEF SliceFull, BatchFull
    <3>2. CASE ~(p[1] = n /\ p[2] <= listeners)
      <4>1. pc'[p] = pc[p]
        BY <2>1, <3>2
      <4>2. pc[p] \in {"filter", "pend"} => p[1] \in 1..Len(emitted)
        BY <2>2, GoroutineType DEF Sound
      <4> QED
        BY <1>1, <2>2, <4>1, <4>2, FullSame DEF readVars, cacheVars
    <3> QED
      BY <3>1, <3>2
  <2> QED
    BY <1>2, <2>5
<1> QED
  BY <1>3, <1>4, <1>5

LEMMA NoNilAfterFilterCell ==
  ASSUME PipelineInv, NoNil, listeners <= 1, NEW p \in Goroutines, FilterCell(p)
  PROVE  NoNil'
<1> USE DEF PipelineInv, NoNil
<1>1. pc[p] = "filter" /\ at[p] <= Len(emitted[p[1]])
      /\ UNCHANGED <<subscribed, listeners, cacheVars, pc, batch, handled>>
  BY DEF FilterCell
<1>2. /\ p \in Callbacks /\ p[1] \in 1..Len(emitted) /\ Len(emitted[p[1]]) \in Nat
      /\ at[p] \in Nat \ {0} /\ kept[p] \in Nat \ {0} /\ kept[p] <= at[p]
      /\ emitted[p[1]] \in Seq(Cells)
  BY <1>1, FilterPlace
<1>3. emitted[p[1]][at[p]] # None
  BY <1>1, <1>2 DEF SliceFull
<1>4. /\ crashed' = crashed /\ at' = [at EXCEPT ![p] = @ + 1]
      /\ \/ emitted' = emitted /\ kept' = kept
         \/ /\ emitted[p[1]][at[p]] \in OrderEvents
            /\ kept' = [kept EXCEPT ![p] = @ + 1]
            /\ kept[p] = at[p] => emitted' = emitted
            /\ kept[p] # at[p] => emitted' = [emitted EXCEPT ![p[1]][kept[p]] = emitted[p[1]][at[p]]]
  BY <1>3 DEF FilterCell
<1>5. /\ at'[p] = at[p] + 1
      /\ \A q \in Goroutines : q # p => at'[q] = at[q] /\ kept'[q] = kept[q]
  BY <1>4 DEF Locals
<1>6. /\ Len(emitted'[p[1]]) = Len(emitted[p[1]])
      /\ \A m \in 1..Len(emitted) : m # p[1] => emitted'[m] = emitted[m]
      /\ \A i \in 1..Len(emitted[p[1]]) : emitted'[p[1]][i] = emitted[p[1]][i]
                                          \/ (i = kept[p] /\ emitted'[p[1]][i] \in Events)
  BY <1>2, FilterCellEffect
<1>7. None \notin Events
  BY PipelineAssumption DEF PipelineAssumption
<1>8. SliceFull(p)' /\ BatchFull(p)'
  <2> SUFFICES ASSUME NEW i \in 1..Len(emitted[p[1]]),
                      i < kept'[p] \/ i >= at'[p]
               PROVE  emitted'[p[1]][i] # None
    BY <1>1, <1>6 DEF SliceFull, BatchFull
  <2>1. CASE i < kept[p] \/ i >= at[p] + 1
    <3>1. emitted[p[1]][i] # None
      BY <1>1, <1>2, <2>1 DEF SliceFull
    <3> QED
      BY <1>6, <1>7, <3>1
  <2>2. CASE ~(i < kept[p] \/ i >= at[p] + 1)
    <3>1. i = kept[p] /\ kept' = [kept EXCEPT ![p] = @ + 1]
      <4>1. i < kept'[p]
        BY <1>5, <2>2
      <4>2. kept' # kept
        BY <2>2, <4>1
      <4>3. kept'[p] = kept[p] + 1
        BY <1>4, <4>2 DEF Locals
      <4> QED
        BY <1>2, <1>4, <2>2, <4>1, <4>2, <4>3
    <3>2. emitted'[p[1]][i] = emitted[p[1]][at[p]]
      <4>1. CASE kept[p] = at[p]
        BY <1>4, <3>1, <4>1
      <4>2. CASE kept[p] # at[p] /\ emitted' = [emitted EXCEPT ![p[1]][kept[p]] = emitted[p[1]][at[p]]]
        <5>1. emitted'[p[1]] = [emitted[p[1]] EXCEPT ![kept[p]] = emitted[p[1]][at[p]]]
          BY SMTT(30), <1>2, <4>2 DEF Globals
        <5> QED
          BY <1>2, <3>1, <5>1
      <4>3. emitted' = emitted /\ kept' = kept => FALSE
        BY <1>2, <3>1 DEF Locals
      <4> QED
        BY <1>4, <4>1, <4>2, <4>3
    <3> QED
      BY <1>3, <3>2
  <2> QED
    BY <2>1, <2>2
<1>9. ASSUME NEW q \in Goroutines, q # p PROVE SliceFull(q)' /\ BatchFull(q)'
  <2>1. pc[q] \in {"filter", "pend"} => q[1] # p[1] /\ q[1] \in 1..Len(emitted)
    <3>1. pc[q] \in {"filter", "pend"} => q[1] # p[1]
      BY <1>1, <1>9, OneCallback
    <3>2. pc[q] \in {"filter", "pend"} => q[1] \in 1..Len(emitted)
      BY GoroutineType DEF Sound, Globals
    <3> QED
      BY <3>1, <3>2
  <2> QED
    BY <1>1, <1>5, <1>6, <1>9, <2>1, FullSame DEF cacheVars
<1>10. CacheFull' /\ ~crashed'
  BY <1>1, <1>4 DEF CacheFull, Array, cacheVars
<1> QED
  BY <1>8, <1>9, <1>10

LEMMA NoNilAfterFilterEnds ==
  ASSUME PipelineInv, NoNil, listeners <= 1, NEW p \in Goroutines, FilterEnds(p)
  PROVE  NoNil'
<1> USE DEF PipelineInv, NoNil
<1>1. /\ pc[p] = "filter"
      /\ UNCHANGED <<subscribed, listeners, cacheVars, kept, batch, handled, crashed>>
      /\ at' = [at EXCEPT ![p] = 1]
      /\ pc' = [pc EXCEPT ![p] = IF kept[p] > 1 THEN "pend" ELSE "done"]
  BY DEF FilterEnds
<1>2. /\ pc'[p] \in {"pend", "done"} /\ kept'[p] = kept[p]
      /\ \A q \in Goroutines : q # p => at'[q] = at[q] /\ pc'[q] = pc[q]
  BY <1>1 DEF Locals
<1>3. /\ Len(emitted'[p[1]]) = Len(emitted[p[1]]) /\ kept[p] \in Nat
      /\ \A m \in 1..Len(emitted) : m # p[1] => emitted'[m] = emitted[m]
      /\ \A i \in 1..(kept[p] - 1) : emitted'[p[1]][i] = emitted[p[1]][i]
      /\ Len(emitted[p[1]]) \in Nat
  BY <1>1, FilterEndsEffect, FilterPlace
<1>4. SliceFull(p)' /\ BatchFull(p)'
  <2> SUFFICES ASSUME NEW i \in 1..Len(emitted[p[1]]), i < kept[p]
               PROVE  emitted'[p[1]][i] # None
    BY <1>2, <1>3 DEF SliceFull, BatchFull
  <2>1. emitted[p[1]][i] # None /\ i \in 1..(kept[p] - 1)
    BY <1>1, <1>3 DEF SliceFull
  <2> QED
    BY <1>3, <2>1
<1>5. ASSUME NEW q \in Goroutines, q # p PROVE SliceFull(q)' /\ BatchFull(q)'
  <2>1. pc[q] \in {"filter", "pend"} => q[1] # p[1]
    BY <1>1, <1>5, OneCallback
  <2>2. pc[q] \in {"filter", "pend"} => q[1] \in 1..Len(emitted)
    BY GoroutineType DEF Sound, Globals
  <2> QED
    BY <1>1, <1>2, <1>3, <1>5, <2>1, <2>2, FullSame DEF cacheVars
<1>6. CacheFull' /\ ~crashed'
  BY <1>1 DEF CacheFull, Array, cacheVars
<1> QED
  BY <1>4, <1>5, <1>6

LEMMA NoNilAfterPend ==
  ASSUME PipelineInv, NoNil, NEW p \in Goroutines, Pend(p)
  PROVE  NoNil'
<1> USE DEF PipelineInv, NoNil
<1>1. /\ pc[p] = "pend" /\ pc' = [pc EXCEPT ![p] = "check"]
      /\ UNCHANGED <<subscribed, listeners, emitted, readVars, handled, crashed>>
  BY DEF Pend
<1>2. pc'[p] = "check" /\ \A q \in Goroutines : q # p => pc'[q] = pc[q]
  BY <1>1 DEF Locals
<1>3. \A j \in 1..Len(Filtered(p)) : Filtered(p)[j] # None
  <2>1. /\ Len(Filtered(p)) = kept[p] - 1
        /\ \A j \in 1..Len(Filtered(p)) : Filtered(p)[j] = emitted[p[1]][j]
    BY <1>1, FilteredType
  <2>2. \A j \in 1..(kept[p] - 1) : j \in 1..Len(emitted[p[1]]) /\ j < kept[p]
    <3>1. p[1] \in 1..Len(emitted) /\ emitted[p[1]] \in Seq(Cells)
      BY <1>1, GoroutineType DEF Sound, Globals
    <3>2. kept[p] \in Nat /\ kept[p] <= Len(emitted[p[1]]) + 1 /\ Len(emitted[p[1]]) \in Nat
      BY <1>1, <3>1 DEF Sound, Locals
    <3> QED
      BY <3>2
  <2> QED
    BY <1>1, <2>1, <2>2 DEF SliceFull
<1>4. CacheFull'
  <2>1. \A i \in 1..cached' : \/ i \in 1..cached /\ Array'[i] = Array[i]
                              \/ \E j \in 1..Len(Filtered(p)) : Array'[i] = Filtered(p)[j]
    BY PendEffect
  <2> QED
    BY <1>3, <2>1 DEF CacheFull
<1>5. ASSUME NEW q \in Goroutines PROVE SliceFull(q)' /\ BatchFull(q)'
  <2>1. SliceFull(q)'
    BY <1>1, <1>2 DEF SliceFull, readVars
  <2>2. CASE pc'[q] = "apply"
    <3>1. pc[q] = "apply" /\ batch' = batch
      BY <1>1, <1>2, <2>2 DEF readVars
    <3>2. /\ batch[q].array \in 1..Len(arrays) /\ batch[q].length \in Nat
          /\ batch[q].length <= Len(arrays[batch[q].array])
          /\ Len(arrays[batch[q].array]) \in Nat
      BY SMTT(30), <3>1 DEF BatchOK, Locals, Batches, Globals
    <3>3. \A i \in 1..Len(arrays[batch[q].array]) :
            \/ arrays'[batch[q].array][i] = arrays[batch[q].array][i]
            \/ \E j \in 1..Len(Filtered(p)) : arrays'[batch[q].array][i] = Filtered(p)[j]
      BY <3>2, PendEffect
    <3>4. ASSUME NEW i \in 1..batch[q].length PROVE arrays'[batch[q].array][i] # None
      <4>1. i \in 1..Len(arrays[batch[q].array]) /\ arrays[batch[q].array][i] # None
        BY <3>1, <3>2 DEF BatchFull
      <4> QED
        BY <1>3, <3>3, <4>1
    <3> QED
      BY <2>1, <3>1, <3>4 DEF BatchFull
  <2>3. CASE pc'[q] # "apply"
    BY <2>1, <2>3 DEF BatchFull
  <2> QED
    BY <2>2, <2>3
<1> QED
  BY <1>1, <1>4, <1>5

LEMMA NoNilAfterTake ==
  ASSUME PipelineInv, NoNil, NEW p \in Goroutines, Take(p)
  PROVE  NoNil'
<1> USE DEF PipelineInv, NoNil
<1>1. /\ pc[p] \in {"take", "wait"}
      /\ \/ pc' = [pc EXCEPT ![p] = Rest(p)] /\ UNCHANGED <<batch, cached>>
         \/ /\ cached # 0 /\ cached' = 0
            /\ pc' = [pc EXCEPT ![p] = "apply"]
            /\ batch' = [batch EXCEPT ![p] = [array |-> Len(arrays), length |-> cached]]
      /\ UNCHANGED <<subscribed, listeners, emitted, arrays, overwritten, at, kept, handled, crashed>>
  BY DEF Take
<1>2. Array' = Array /\ cached \in Nat /\ cached <= Len(Array)
      /\ (Len(Array) > 0 => Array = arrays[Len(arrays)]) /\ Len(Array) \in Nat
  BY <1>1, ArrayType DEF Array
<1>3. CacheFull' /\ ~crashed'
  BY <1>1, <1>2 DEF CacheFull
<1>4. \A q \in Goroutines : q # p => pc'[q] = pc[q] /\ batch'[q] = batch[q]
  BY <1>1 DEF Locals
<1>5. ASSUME NEW q \in Goroutines, q # p PROVE SliceFull(q)' /\ BatchFull(q)'
  BY <1>1, <1>4, <1>5, FullSame
<1>6. SliceFull(p)' /\ BatchFull(p)'
  <2>1. CASE pc' = [pc EXCEPT ![p] = Rest(p)]
    <3>1. pc'[p] \in {"wait", "done"}
      BY <2>1 DEF Locals, Rest
    <3> QED
      BY <3>1 DEF SliceFull, BatchFull
  <2>2. CASE /\ cached # 0 /\ pc' = [pc EXCEPT ![p] = "apply"]
             /\ batch' = [batch EXCEPT ![p] = [array |-> Len(arrays), length |-> cached]]
    <3>1. pc'[p] = "apply" /\ batch'[p].array = Len(arrays) /\ batch'[p].length = cached
      BY <2>2 DEF Locals
    <3>2. Array = arrays[Len(arrays)]
      BY <1>2, <2>2
    <3> QED
      BY <1>1, <3>1, <3>2 DEF SliceFull, BatchFull, CacheFull
  <2> QED
    BY <1>1, <2>1, <2>2
<1> QED
  BY <1>3, <1>5, <1>6

LEMMA NoNilAfterApply ==
  ASSUME PipelineInv, NoNil, NEW p \in Goroutines, Apply(p)
  PROVE  NoNil'
<1> USE DEF PipelineInv, NoNil
<1> DEFINE last == at[p] = batch[p].length
<1>1. pc[p] = "apply" /\ UNCHANGED <<subscribed, listeners, emitted, cacheVars, kept>>
  BY DEF Apply
<1>2. at[p] \in 1..batch[p].length
  BY <1>1 DEF BatchOK, Locals, Batches
<1>3. arrays[batch[p].array][at[p]] # None
  BY <1>1, <1>2 DEF BatchFull
<1>4. /\ crashed' = crashed
      /\ at' = [at EXCEPT ![p] = IF last THEN 1 ELSE @ + 1]
      /\ pc' = [pc EXCEPT ![p] = IF last THEN Rest(p) ELSE @]
      /\ batch' = [batch EXCEPT ![p] = IF last THEN NoBatch ELSE @]
  BY <1>3 DEF Apply
<1>5. CacheFull' /\ ~crashed'
  BY <1>1, <1>4 DEF CacheFull, Array, cacheVars
<1>6. ASSUME NEW q \in Goroutines, q # p PROVE SliceFull(q)' /\ BatchFull(q)'
  <2>1. at'[q] = at[q] /\ pc'[q] = pc[q] /\ batch'[q] = batch[q]
    BY <1>4, <1>6 DEF Locals
  <2> QED
    BY <1>1, <2>1, FullSame DEF cacheVars
<1>7. SliceFull(p)' /\ BatchFull(p)'
  <2>1. \/ pc'[p] \in {"wait", "done"}
        \/ pc'[p] = "apply" /\ batch'[p] = batch[p]
    BY <1>1, <1>4 DEF Locals, Rest
  <2> QED
    BY <1>1, <2>1 DEF SliceFull, BatchFull, cacheVars
<1> QED
  BY <1>5, <1>6, <1>7

LEMMA NoNilAfterMoves ==
  ASSUME PipelineInv, NoNil, NEW p \in Goroutines, CheckFull(p) \/ TickerEnds(p)
  PROVE  NoNil'
<1> USE DEF PipelineInv, NoNil
<1>1. /\ pc' = [pc EXCEPT ![p] = "take"] \/ pc' = [pc EXCEPT ![p] = "done"]
      /\ UNCHANGED <<emitted, cacheVars, readVars, crashed>>
  BY DEF CheckFull, TickerEnds
<1>2. \A q \in Goroutines : pc'[q] = pc[q] \/ pc'[q] \in {"take", "done"}
  BY <1>1 DEF Locals
<1>3. CacheFull' /\ ~crashed'
  BY <1>1 DEF CacheFull, Array, cacheVars
<1>4. \A q \in Goroutines : SliceFull(q)' /\ BatchFull(q)'
  BY <1>1, <1>2 DEF SliceFull, BatchFull, cacheVars, readVars
<1> QED
  BY <1>3, <1>4

LEMMA NoNilKept ==
  ASSUME PipelineInv, listeners <= 1 => NoNil, [Next]_vars
  PROVE  listeners' <= 1 => NoNil'
<1> SUFFICES ASSUME listeners' <= 1 PROVE NoNil'
  OBVIOUS
<1>1. listeners <= 1
  <2>1. listeners' = listeners \/ listeners' = listeners + 1
    BY DEF Next, Step, Listener, HandleEvents, Subscribe, Unsubscribe, HandleTxLogs, FilterCell,
           FilterEnds, Pend, CheckFull, Take, Apply, TickerEnds, vars
  <2> QED
    BY <2>1, GoroutineType DEF PipelineInv, Globals
<1>2. CASE UNCHANGED vars
  BY <1>1, <1>2 DEF NoNil, CacheFull, Array, SliceFull, BatchFull, vars, cacheVars, readVars
<1> QED
  BY <1>1, <1>2, NoNilAfterProgram, NoNilAfterFilterCell, NoNilAfterFilterEnds, NoNilAfterPend,
     NoNilAfterTake, NoNilAfterApply, NoNilAfterMoves
  DEF Next, Step, Listener, HandleEvents

\* A nil pointer is met, in a slice that listeners filter together or in the
\* cache, only after Subscribe has registered a second listener: not with one,
\* however many transactions, callbacks and tickers run at the same time.
THEOREM OneListenerMeetsNoNil == Spec => []PanicNeedsSecondListener
<1>1. Init => (listeners <= 1 => NoNil)
  <2> SUFFICES ASSUME Init PROVE NoNil
    OBVIOUS
  <2>1. Array = <<>>
    BY DEF Init, Array
  <2> QED
    BY <2>1 DEF Init, NoNil, CacheFull, SliceFull, BatchFull
<1>2. PipelineInv /\ (listeners <= 1 => NoNil) /\ [Next]_vars => (listeners <= 1 => NoNil)'
  BY NoNilKept
<1>3. PipelineInv /\ (listeners <= 1 => NoNil) => PanicNeedsSecondListener
  BY GoroutineType DEF PipelineInv, Globals, NoNil, PanicNeedsSecondListener
<1> QED
  BY <1>1, <1>2, <1>3, PipelineInvAlways, PTL DEF Spec

-----------------------------------------------------------------------------
(* As many as were appended.                                               *)

\* The pairs of an index and a member of its set.
Tagged(sets) == UNION {{k} \X sets[k] : k \in DOMAIN sets}

\* One set grows: so much grows the whole.
LEMMA TaggedMore ==
  ASSUME NEW f, NEW g, NEW k \in DOMAIN f, NEW more, DOMAIN g = DOMAIN f,
         \A j \in DOMAIN f : j # k => g[j] = f[j], g[k] = f[k] \cup more, f[k] \cap more = {},
         IsFiniteSet(more), IsFiniteSet(Tagged(f))
  PROVE  /\ IsFiniteSet(Tagged(g))
         /\ Cardinality(Tagged(g)) = Cardinality(Tagged(f)) + Cardinality(more)
<1> DEFINE new == {k} \X more
<1>1. Tagged(g) = Tagged(f) \cup new
  <2>1. ASSUME NEW x \in Tagged(g) PROVE x \in Tagged(f) \cup new
    <3>1. PICK j \in DOMAIN f : x \in {j} \X g[j]
      BY <2>1 DEF Tagged
    <3>2. CASE j = k
      <4>1. x \in {k} \X (f[k] \cup more)
        BY <3>1, <3>2
      <4>2. x \in {k} \X f[k] \/ x \in new
        BY <4>1
      <4> QED
        BY <4>2 DEF Tagged
    <3>3. CASE j # k
      <4>1. x \in {j} \X f[j]
        BY <3>1, <3>3
      <4> QED
        BY <4>1 DEF Tagged
    <3> QED
      BY <3>2, <3>3
  <2>2. ASSUME NEW x \in Tagged(f) \cup new PROVE x \in Tagged(g)
    <3>1. CASE x \in new
      <4>1. x \in {k} \X g[k]
        BY <3>1
      <4> QED
        BY <4>1 DEF Tagged
    <3>2. CASE x \in Tagged(f)
      <4>1. PICK j \in DOMAIN f : x \in {j} \X f[j]
        BY <3>2 DEF Tagged
      <4>2. f[j] \subseteq g[j]
        BY <4>1
      <4>3. x \in {j} \X g[j]
        BY <4>1, <4>2
      <4> QED
        BY <4>3 DEF Tagged
    <3> QED
      BY <2>2, <3>1, <3>2
  <2> QED
    BY <2>1, <2>2
<1>2. Tagged(f) \cap new = {}
  <2> SUFFICES ASSUME NEW x \in Tagged(f), x \in new PROVE FALSE
    OBVIOUS
  <2>1. PICK j \in DOMAIN f : x \in {j} \X f[j]
    BY DEF Tagged
  <2>2. x[1] = j /\ x[1] = k /\ x[2] \in f[j] /\ x[2] \in more
    BY <2>1
  <2> QED
    BY <2>2
<1>3. IsFiniteSet(new) /\ Cardinality(new) = Cardinality(more)
  <2>1. IsFiniteSet({k}) /\ Cardinality({k}) = 1
    BY FS_Singleton
  <2>2. IsFiniteSet(new) /\ Cardinality(new) = Cardinality({k}) * Cardinality(more)
    BY <2>1, FS_Product
  <2>3. Cardinality(more) \in Nat
    BY FS_CardinalityType
  <2> QED
    BY <2>1, <2>2, <2>3
<1> HIDE DEF new
<1>4. /\ IsFiniteSet(Tagged(f) \cup new)
      /\ Cardinality(Tagged(f) \cup new)
           = Cardinality(Tagged(f)) + Cardinality(new) - Cardinality(Tagged(f) \cap new)
  BY <1>3, FS_Union
<1>5. Cardinality(Tagged(f) \cap new) = 0
  BY <1>2, FS_EmptySet
<1>6. Cardinality(Tagged(f)) \in Nat /\ Cardinality(new) \in Nat
  BY <1>3, FS_CardinalityType
<1> QED
  BY <1>1, <1>3, <1>4, <1>5, <1>6

\* One set shrinks.
LEMMA TaggedLess ==
  ASSUME NEW f, NEW g, NEW k \in DOMAIN f, NEW less, DOMAIN g = DOMAIN f,
         \A j \in DOMAIN f : j # k => g[j] = f[j], g[k] = f[k] \ less, less \subseteq f[k],
         IsFiniteSet(less), IsFiniteSet(Tagged(f))
  PROVE  /\ IsFiniteSet(Tagged(g))
         /\ Cardinality(Tagged(g)) = Cardinality(Tagged(f)) - Cardinality(less)
<1>1. Tagged(g) \subseteq Tagged(f)
  <2> SUFFICES ASSUME NEW x \in Tagged(g) PROVE x \in Tagged(f)
    OBVIOUS
  <2>1. PICK j \in DOMAIN f : x \in {j} \X g[j]
    BY DEF Tagged
  <2>2. g[j] \subseteq f[j]
    OBVIOUS
  <2>3. x \in {j} \X f[j]
    BY <2>1, <2>2
  <2> QED
    BY <2>3 DEF Tagged
<1>2. IsFiniteSet(Tagged(g))
  BY <1>1, FS_Subset
<1>3. f[k] = g[k] \cup less /\ g[k] \cap less = {} /\ k \in DOMAIN g /\ \A j \in DOMAIN g : j # k => f[j] = g[j]
  OBVIOUS
<1>4. Cardinality(Tagged(f)) = Cardinality(Tagged(g)) + Cardinality(less)
  BY ZenonT(30), <1>2, <1>3, TaggedMore
<1>5. Cardinality(Tagged(g)) \in Nat /\ Cardinality(less) \in Nat
  BY <1>2, FS_CardinalityType
<1> QED
  BY <1>2, <1>4, <1>5

\* The cells a callback has appended, the ones of a batch that are to be read,
\* and how often the book was given an event.
Appends == [p \in Callbacks |->
              IF pc[p] \in {"idle", "filter", "pend"} THEN {} ELSE 1..(kept[p] - 1)]
Unreads == [p \in Goroutines |-> Unread(p)]
Givings == [e \in Events |-> 1..handled[e]]

FiniteCounts == /\ IsFiniteSet(Tagged(Appends)) /\ IsFiniteSet(Tagged(Unreads))
                /\ IsFiniteSet(Tagged(Givings))

CountInv ==
  Alive => /\ FiniteCounts
           /\ Cardinality(Tagged(Appends)) =
                cached + Cardinality(Tagged(Unreads)) + Cardinality(Tagged(Givings))

LEMMA CountMeansAsMany == CountInv => AsManyAsAppended
<1> DEFINE Appended == {p \in Callbacks : pc[p] \notin {"idle", "filter", "pend"}}
<1>1. UNION {{p} \X (1..kept[p] - 1) : p \in Appended} = Tagged(Appends)
  <2> DEFINE A == UNION {{p} \X (1..kept[p] - 1) : p \in Appended}
  <2>1. ASSUME NEW x \in A PROVE x \in Tagged(Appends)
    <3>1. PICK p \in Appended : x \in {p} \X (1..kept[p] - 1)
      BY <2>1
    <3>2. p \in DOMAIN Appends /\ Appends[p] = 1..(kept[p] - 1)
      BY <3>1 DEF Appends
    <3> QED
      BY <3>1, <3>2 DEF Tagged
  <2>2. ASSUME NEW x \in Tagged(Appends) PROVE x \in A
    <3>1. PICK p \in DOMAIN Appends : x \in {p} \X Appends[p]
      BY <2>2 DEF Tagged
    <3>2. p \in Appended
      BY <3>1 DEF Appends
    <3>3. x \in {p} \X (1..kept[p] - 1)
      BY <3>1, <3>2 DEF Appends
    <3> QED
      BY <3>2, <3>3
  <2> QED
    BY <2>1, <2>2
<1>2. UNION {{p} \X Unread(p) : p \in Goroutines} = Tagged(Unreads)
  <2>1. DOMAIN Unreads = Goroutines /\ \A p \in Goroutines : Unreads[p] = Unread(p)
    BY DEF Unreads
  <2>2. {{p} \X Unread(p) : p \in Goroutines} = {{p} \X Unreads[p] : p \in DOMAIN Unreads}
    BY <2>1
  <2> QED
    BY <2>2 DEF Tagged
<1>3. UNION {{e} \X (1..handled[e]) : e \in Events} = Tagged(Givings)
  <2>1. DOMAIN Givings = Events /\ \A e \in Events : Givings[e] = 1..handled[e]
    BY DEF Givings
  <2>2. {{e} \X (1..handled[e]) : e \in Events} = {{e} \X Givings[e] : e \in DOMAIN Givings}
    BY <2>1
  <2> QED
    BY <2>2 DEF Tagged
<1> HIDE DEF Appended
<1> QED
  BY <1>1, <1>2, <1>3 DEF CountInv, AsManyAsAppended, Appended

\* What leaves the three sets alone.
LEMMA CountSame ==
  ASSUME CountInv, Alive, cached' = cached, Appends' = Appends, Unreads' = Unreads,
         Givings' = Givings
  PROVE  CountInv'
BY DEF CountInv, FiniteCounts, Tagged

LEMMA AppendsSame ==
  ASSUME \A p \in Callbacks :
           \/ pc'[p] = pc[p] /\ kept'[p] = kept[p]
           \/ pc[p] \in {"idle", "filter", "pend"} /\ pc'[p] \in {"idle", "filter", "pend"}
           \/ /\ pc[p] \in {"idle", "filter", "pend"} /\ kept'[p] = 1
           \/ pc[p] \notin {"idle", "filter", "pend"} /\ pc'[p] \notin {"idle", "filter", "pend"}
              /\ kept'[p] = kept[p]
  PROVE  Appends' = Appends
<1>1. ASSUME NEW p \in Callbacks
      PROVE  (IF pc'[p] \in {"idle", "filter", "pend"} THEN {} ELSE 1..(kept'[p] - 1))
             = (IF pc[p] \in {"idle", "filter", "pend"} THEN {} ELSE 1..(kept[p] - 1))
  BY SMTT(30)
<1> QED
  BY <1>1 DEF Appends

LEMMA UnreadsSame ==
  ASSUME \A p \in Goroutines :
           \/ pc'[p] = pc[p] /\ at'[p] = at[p] /\ batch'[p] = batch[p]
           \/ pc[p] # "apply" /\ pc'[p] # "apply"
  PROVE  Unreads' = Unreads
<1>1. \A p \in Goroutines : Unread(p)' = Unread(p)
  BY DEF Unread
<1> QED
  BY <1>1 DEF Unreads

LEMMA CountAfterOther ==
  ASSUME PipelineInv, CountInv, ~crashed,
         \/ Subscribe \/ Unsubscribe \/ HandleTxLogs
         \/ \E p \in Goroutines : FilterEnds(p) \/ CheckFull(p) \/ TickerEnds(p)
         \/ UNCHANGED vars
  PROVE  CountInv'
<1> USE DEF PipelineInv
<1>1. UNCHANGED <<cached, kept, batch, handled>>
  BY DEF Subscribe, Unsubscribe, HandleTxLogs, FilterEnds, CheckFull, TickerEnds, vars, cacheVars,
     readVars
<1>2. \A p \in Goroutines :
        \/ pc'[p] = pc[p] /\ at'[p] = at[p]
        \/ pc[p] = "idle" /\ pc'[p] = "filter" /\ p \in Callbacks
        \/ pc[p] = "filter" /\ pc'[p] = "pend"
        \/ pc[p] = "filter" /\ pc'[p] = "done" /\ kept[p] = 1
        \/ pc[p] \in {"check", "wait"} /\ pc'[p] \in {"take", "done"}
        \/ p \in Tickers /\ pc[p] # "apply" /\ pc'[p] # "apply"
  <2>1. CASE Unsubscribe \/ UNCHANGED vars
    BY <2>1 DEF Unsubscribe, readVars, vars
  <2>2. CASE Subscribe
    <3>1. listeners + 1 \in 1..MaxListeners
      BY <2>2, GoroutineType DEF Subscribe, Globals
    <3>2. <<0, listeners + 1>> \in Tickers /\ <<0, listeners + 1>> \in Goroutines
      BY <3>1, GoroutineType DEF Tickers
    <3>3. pc[<<0, listeners + 1>>] = "idle"
      <4>1. listeners \in Nat
        BY GoroutineType DEF Globals
      <4> QED
        BY <3>2, <4>1 DEF Sound
    <3>4. pc' = [pc EXCEPT ![<<0, listeners + 1>>] = "wait"] /\ at' = at
      BY <2>2 DEF Subscribe, readVars
    <3> QED
      BY <3>2, <3>3, <3>4 DEF Locals
  <2>3. CASE HandleTxLogs
    <3> SUFFICES ASSUME NEW p \in Goroutines
                 PROVE  \/ pc'[p] = pc[p] /\ at'[p] = at[p]
                        \/ pc[p] = "idle" /\ pc'[p] = "filter" /\ p \in Callbacks
      OBVIOUS
    <3>1. /\ pc'[p] = IF p[1] = Len(emitted) + 1 /\ p[2] <= listeners THEN "filter" ELSE pc[p]
          /\ at' = at /\ Len(emitted) \in Nat
      BY <2>3 DEF HandleTxLogs, readVars, Globals
    <3>2. p[1] = Len(emitted) + 1 => p \in Callbacks /\ pc[p] = "idle"
      BY <3>1, GoroutineType DEF Sound
    <3> QED
      BY <3>1, <3>2
  <2>4. ASSUME NEW p \in Goroutines, FilterEnds(p)
        PROVE  /\ pc[p] = "filter" /\ (pc'[p] = "pend" \/ (pc'[p] = "done" /\ kept[p] = 1))
               /\ \A q \in Goroutines : q # p => pc'[q] = pc[q] /\ at'[q] = at[q]
    <3>1. /\ pc[p] = "filter" /\ at' = [at EXCEPT ![p] = 1]
          /\ pc' = [pc EXCEPT ![p] = IF kept[p] > 1 THEN "pend" ELSE "done"]
      BY <2>4 DEF FilterEnds
    <3>2. kept[p] \in Nat \ {0}
      BY DEF Locals
    <3> QED
      BY <3>1, <3>2 DEF Locals
  <2>5. ASSUME NEW p \in Goroutines, CheckFull(p)
        PROVE  /\ pc[p] = "check" /\ pc'[p] \in {"take", "done"}
               /\ \A q \in Goroutines : q # p => pc'[q] = pc[q] /\ at'[q] = at[q]
    BY <2>5 DEF CheckFull, Locals, readVars
  <2>6. ASSUME NEW p \in Goroutines, TickerEnds(p)
        PROVE  /\ pc[p] = "wait" /\ pc'[p] = "done"
               /\ \A q \in Goroutines : q # p => pc'[q] = pc[q] /\ at'[q] = at[q]
    BY <2>6 DEF TickerEnds, Locals, readVars
  <2> QED
    BY <2>1, <2>2, <2>3, <2>4, <2>5, <2>6
<1>3. Appends' = Appends
  <2>1. \A p \in Callbacks : p \in Goroutines /\ p \notin Tickers
    BY GoroutineType DEF Goroutines
  <2> HIDE DEF PipelineInv
  <2> QED
    BY <1>1, <1>2, <2>1, AppendsSame
<1>4. Unreads' = Unreads
  BY <1>1, <1>2, UnreadsSame
<1>5. Givings' = Givings
  BY <1>1 DEF Givings
<1> QED
  BY <1>1, <1>3, <1>4, <1>5, CountSame DEF Alive

LEMMA CountAfterFilterCell ==
  ASSUME PipelineInv, CountInv, ~crashed, NEW p \in Goroutines, FilterCell(p)
  PROVE  CountInv'
<1> USE DEF PipelineInv
<1>1. /\ pc[p] = "filter" /\ UNCHANGED <<cached, pc, batch, handled>>
      /\ at' \in {at, [at EXCEPT ![p] = @ + 1]} /\ kept' \in {kept, [kept EXCEPT ![p] = @ + 1]}
  BY DEF FilterCell, cacheVars
<1>2. \A q \in Goroutines : q # p => at'[q] = at[q] /\ kept'[q] = kept[q]
  BY <1>1 DEF Locals
<1>3. Appends' = Appends
  <2>1. \A q \in Callbacks : q \in Goroutines
    BY DEF Goroutines
  <2> HIDE DEF PipelineInv
  <2> QED
    BY <1>1, <1>2, <2>1, AppendsSame
<1>4. Unreads' = Unreads
  BY <1>1, <1>2, UnreadsSame
<1>5. Givings' = Givings
  BY <1>1 DEF Givings
<1> QED
  BY <1>1, <1>3, <1>4, <1>5, CountSame DEF Alive

\* The cells of 1..n are n.
LEMMA CellsUpTo ==
  ASSUME NEW n \in Nat
  PROVE  IsFiniteSet(1..n) /\ Cardinality(1..n) = n
<1>1. /\ IsFiniteSet(1..n)
      /\ Cardinality(1..n) = IF 1 > n THEN 0 ELSE n - 1 + 1
  BY FS_Interval
<1> QED
  BY <1>1

LEMMA CountAfterPend ==
  ASSUME PipelineInv, CountInv, ~crashed, NEW p \in Goroutines, Pend(p)
  PROVE  CountInv'
<1> USE DEF PipelineInv
<1>1. /\ pc[p] = "pend" /\ pc' = [pc EXCEPT ![p] = "check"]
      /\ cached' = cached + Len(Filtered(p))
      /\ UNCHANGED <<emitted, readVars, handled, crashed>>
  BY DEF Pend
<1>2. Len(Filtered(p)) = kept[p] - 1 /\ Len(Filtered(p)) \in Nat
  BY <1>1, FilteredType
<1>3. pc'[p] = "check" /\ \A q \in Goroutines : q # p => pc'[q] = pc[q]
  BY <1>1 DEF Locals
<1>4. p \in Callbacks /\ \A q \in Callbacks : q \in Goroutines
  BY <1>1 DEF Sound, Goroutines
<1> DEFINE more == 1..(kept[p] - 1)
<1>5. IsFiniteSet(more) /\ Cardinality(more) = kept[p] - 1
  BY <1>2, CellsUpTo
<1>6. /\ DOMAIN Appends = Callbacks /\ DOMAIN Appends' = Callbacks
      /\ Appends[p] = {} /\ Appends'[p] = more
      /\ \A q \in Callbacks : q # p => Appends'[q] = Appends[q]
  BY <1>1, <1>3, <1>4 DEF Appends, readVars
<1> HIDE DEF more
<1>7. /\ IsFiniteSet(Tagged(Appends'))
      /\ Cardinality(Tagged(Appends')) = Cardinality(Tagged(Appends)) + (kept[p] - 1)
  <2>1. FiniteCounts
    BY DEF CountInv, Alive
  <2>2. Appends'[p] = Appends[p] \cup more /\ Appends[p] \cap more = {}
    BY <1>6
  <2>3. \A f, g : /\ f = Appends /\ g = Appends'
                  => /\ IsFiniteSet(Tagged(g))
                     /\ Cardinality(Tagged(g)) = Cardinality(Tagged(f)) + Cardinality(more)
    <3> TAKE f, g
    <3> HAVE f = Appends /\ g = Appends'
    <3>1. /\ DOMAIN g = DOMAIN f /\ p \in DOMAIN f /\ \A j \in DOMAIN f : j # p => g[j] = f[j]
          /\ g[p] = f[p] \cup more /\ f[p] \cap more = {} /\ IsFiniteSet(more)
          /\ IsFiniteSet(Tagged(f))
      BY <1>4, <1>5, <1>6, <2>1, <2>2 DEF FiniteCounts
    <3> QED
      BY <3>1, TaggedMore
  <2> QED
    BY <1>5, <2>3
<1>8. Unreads' = Unreads
  BY <1>1, <1>3, UnreadsSame DEF readVars
<1>9. Givings' = Givings
  BY <1>1 DEF Givings
<1>10. FiniteCounts /\ Cardinality(Tagged(Appends)) =
                         cached + Cardinality(Tagged(Unreads)) + Cardinality(Tagged(Givings))
  BY DEF CountInv, Alive
<1>11. /\ Cardinality(Tagged(Unreads)) \in Nat /\ Cardinality(Tagged(Givings)) \in Nat
       /\ cached \in Nat
  BY <1>10, FS_CardinalityType, ArrayType DEF FiniteCounts
<1>12. FiniteCounts'
  BY <1>7, <1>8, <1>9, <1>10 DEF FiniteCounts, Tagged
<1>13. /\ Cardinality(Tagged(Appends))' = Cardinality(Tagged(Appends'))
       /\ Cardinality(Tagged(Unreads))' = Cardinality(Tagged(Unreads))
       /\ Cardinality(Tagged(Givings))' = Cardinality(Tagged(Givings))
  BY <1>8, <1>9 DEF Tagged
<1> QED
  BY <1>1, <1>2, <1>7, <1>10, <1>11, <1>12, <1>13 DEF CountInv

\* A batch takes all that is cached.
LEMMA CountAfterTake ==
  ASSUME PipelineInv, CountInv, ~crashed, NEW p \in Goroutines, Take(p)
  PROVE  CountInv'
<1> USE DEF PipelineInv
<1>1. /\ pc[p] \in {"take", "wait"} /\ UNCHANGED <<at, kept, handled, crashed>>
      /\ \/ pc' = [pc EXCEPT ![p] = Rest(p)] /\ UNCHANGED <<batch, cached>>
         \/ /\ cached # 0 /\ cached' = 0 /\ pc' = [pc EXCEPT ![p] = "apply"]
            /\ batch' = [batch EXCEPT ![p] = [array |-> Len(arrays), length |-> cached]]
  BY DEF Take
<1>2. /\ pc'[p] \in {"wait", "done", "apply"}
      /\ \A q \in Goroutines : q # p => pc'[q] = pc[q] /\ batch'[q] = batch[q]
  BY <1>1 DEF Locals, Rest
<1>3. Appends' = Appends
  <2>1. \A q \in Callbacks : q \in Goroutines
    BY DEF Goroutines
  <2> HIDE DEF PipelineInv
  <2> QED
    BY <1>1, <1>2, <2>1, AppendsSame
<1>4. Givings' = Givings
  BY <1>1 DEF Givings
<1>5. CASE pc' = [pc EXCEPT ![p] = Rest(p)] /\ UNCHANGED <<batch, cached>>
  <2>1. pc'[p] \in {"wait", "done"}
    BY <1>5 DEF Locals, Rest
  <2>2. Unreads' = Unreads
    BY <1>1, <1>2, <1>5, <2>1, UnreadsSame
  <2> QED
    BY <1>3, <1>4, <1>5, <2>2, CountSame DEF Alive
<1>6. CASE /\ cached # 0 /\ cached' = 0 /\ pc' = [pc EXCEPT ![p] = "apply"]
           /\ batch' = [batch EXCEPT ![p] = [array |-> Len(arrays), length |-> cached]]
  <2> DEFINE more == 1..cached
  <2>1. cached \in Nat
    BY ArrayType
  <2>2. IsFiniteSet(more) /\ Cardinality(more) = cached
    BY <2>1, CellsUpTo
  <2>3. pc'[p] = "apply" /\ batch'[p].length = cached /\ at'[p] = 1
    BY <1>1, <1>6 DEF Locals, Sound
  <2>4. Unread(p) = {} /\ Unread(p)' = more /\ \A q \in Goroutines : q # p => Unread(q)' = Unread(q)
    BY <1>1, <1>2, <2>3 DEF Unread
  <2> HIDE DEF more
  <2>5. /\ DOMAIN Unreads = Goroutines /\ DOMAIN Unreads' = Goroutines
        /\ Unreads[p] = {} /\ Unreads'[p] = more
        /\ \A q \in Goroutines : q # p => Unreads'[q] = Unreads[q]
    BY <2>4 DEF Unreads
  <2>6. FiniteCounts /\ Cardinality(Tagged(Appends)) =
                          cached + Cardinality(Tagged(Unreads)) + Cardinality(Tagged(Givings))
    BY DEF CountInv, Alive
  <2>7. /\ IsFiniteSet(Tagged(Unreads'))
        /\ Cardinality(Tagged(Unreads')) = Cardinality(Tagged(Unreads)) + cached
    <3>1. \A f, g : /\ f = Unreads /\ g = Unreads'
                    => /\ IsFiniteSet(Tagged(g))
                       /\ Cardinality(Tagged(g)) = Cardinality(Tagged(f)) + Cardinality(more)
      <4> TAKE f, g
      <4> HAVE f = Unreads /\ g = Unreads'
      <4>1. /\ DOMAIN g = DOMAIN f /\ p \in DOMAIN f /\ \A j \in DOMAIN f : j # p => g[j] = f[j]
            /\ g[p] = f[p] \cup more /\ f[p] \cap more = {} /\ IsFiniteSet(more)
            /\ IsFiniteSet(Tagged(f))
        BY <2>2, <2>5, <2>6 DEF FiniteCounts
      <4> QED
        BY <4>1, TaggedMore
    <3> QED
      BY <2>2, <3>1
  <2>8. /\ Cardinality(Tagged(Unreads)) \in Nat /\ Cardinality(Tagged(Givings)) \in Nat
    BY <2>6, FS_CardinalityType DEF FiniteCounts
  <2>9. FiniteCounts'
    BY <1>3, <1>4, <2>6, <2>7 DEF FiniteCounts, Tagged
  <2>10. /\ Cardinality(Tagged(Appends))' = Cardinality(Tagged(Appends))
         /\ Cardinality(Tagged(Unreads))' = Cardinality(Tagged(Unreads'))
         /\ Cardinality(Tagged(Givings))' = Cardinality(Tagged(Givings))
    BY <1>3, <1>4 DEF Tagged
  <2> QED
    BY <1>6, <2>1, <2>6, <2>7, <2>8, <2>9, <2>10 DEF CountInv
<1> QED
  BY <1>1, <1>5, <1>6

\* A cell that is read is one given.
LEMMA CountAfterApply ==
  ASSUME PipelineInv, CountInv, ~crashed, NEW p \in Goroutines, Apply(p)
  PROVE  CountInv'
<1> USE DEF PipelineInv
<1> SUFFICES ASSUME ~crashed' PROVE CountInv'
  BY DEF CountInv, Alive
<1> DEFINE event == arrays[batch[p].array][at[p]]
           last == at[p] = batch[p].length
<1>1. /\ pc[p] = "apply" /\ UNCHANGED <<cached, kept, arrays>>
      /\ event # None
      /\ handled' = [handled EXCEPT ![event] = @ + 1]
      /\ at' = [at EXCEPT ![p] = IF last THEN 1 ELSE @ + 1]
      /\ pc' = [pc EXCEPT ![p] = IF last THEN Rest(p) ELSE @]
      /\ batch' = [batch EXCEPT ![p] = IF last THEN NoBatch ELSE @]
  BY DEF Apply, cacheVars
<1>2. /\ batch[p].array \in DOMAIN arrays /\ at[p] \in Nat \ {0} /\ batch[p].length \in Nat
      /\ at[p] <= batch[p].length /\ batch[p].length <= Len(arrays[batch[p].array])
      /\ arrays \in Seq(Seq(Cells))
  BY <1>1 DEF BatchOK, Locals, Batches, Globals
<1>3. event \in Events
  <2>1. arrays[batch[p].array] \in Seq(Cells)
    BY <1>2
  <2>2. at[p] \in 1..Len(arrays[batch[p].array])
    BY <1>2, <2>1
  <2>3. event \in Cells
    BY <2>1, <2>2
  <2> QED
    BY <1>1, <2>3 DEF Cells
<1> HIDE DEF event
<1>4. /\ pc'[p] \in {"wait", "done", "apply"}
      /\ IF last THEN pc'[p] # "apply"
                 ELSE pc'[p] = "apply" /\ at'[p] = at[p] + 1 /\ batch'[p] = batch[p]
      /\ \A q \in Goroutines : q # p => pc'[q] = pc[q] /\ at'[q] = at[q] /\ batch'[q] = batch[q]
  BY <1>1 DEF Locals, Rest
<1>5. Appends' = Appends
  <2>1. \A q \in Callbacks : q \in Goroutines
    BY DEF Goroutines
  <2> HIDE DEF PipelineInv
  <2> QED
    BY <1>1, <1>4, <2>1, AppendsSame
<1>6. /\ Unread(p)' = Unread(p) \ {at[p]} /\ at[p] \in Unread(p)
      /\ \A q \in Goroutines : q # p => Unread(q)' = Unread(q)
  <2>1. Unread(p) = at[p]..batch[p].length
    BY <1>1 DEF Unread
  <2>2. CASE last
    <3>1. Unread(p)' = {}
      BY <1>4, <2>2 DEF Unread
    <3>2. Unread(p) = {at[p]}
      BY <1>2, <2>1, <2>2
    <3> QED
      BY <1>4, <3>1, <3>2 DEF Unread
  <2>3. CASE ~last
    <3>1. Unread(p)' = (at[p] + 1)..batch[p].length
      BY <1>4, <2>3 DEF Unread
    <3>2. (at[p] + 1)..batch[p].length = (at[p]..batch[p].length) \ {at[p]}
      BY <1>2
    <3> QED
      BY <1>2, <1>4, <2>1, <3>1, <3>2 DEF Unread
  <2> QED
    BY <2>2, <2>3
<1>7. /\ DOMAIN Unreads = Goroutines /\ DOMAIN Unreads' = Goroutines
      /\ Unreads'[p] = Unreads[p] \ {at[p]} /\ at[p] \in Unreads[p]
      /\ \A q \in Goroutines : q # p => Unreads'[q] = Unreads[q]
  BY <1>6 DEF Unreads
<1>8. /\ handled'[event] = handled[event] + 1 /\ handled[event] \in Nat
      /\ \A e \in Events : e # event => handled'[e] = handled[e]
  BY <1>1, <1>3 DEF Globals
<1> DEFINE more == {handled[event] + 1}
<1>9. 1..(handled[event] + 1) = (1..handled[event]) \cup more /\ (1..handled[event]) \cap more = {}
  BY <1>8
<1>10. /\ DOMAIN Givings = Events /\ DOMAIN Givings' = Events
       /\ Givings'[event] = Givings[event] \cup more /\ Givings[event] \cap more = {}
       /\ \A e \in Events : e # event => Givings'[e] = Givings[e]
  BY <1>3, <1>8, <1>9 DEF Givings
<1>11. FiniteCounts /\ Cardinality(Tagged(Appends)) =
                         cached + Cardinality(Tagged(Unreads)) + Cardinality(Tagged(Givings))
  BY DEF CountInv, Alive
<1>12. /\ IsFiniteSet(more) /\ Cardinality(more) = 1
       /\ IsFiniteSet({at[p]}) /\ Cardinality({at[p]}) = 1
  BY FS_Singleton
<1> HIDE DEF more, last
<1>13. /\ IsFiniteSet(Tagged(Unreads'))
       /\ Cardinality(Tagged(Unreads')) = Cardinality(Tagged(Unreads)) - 1
  <2>1. \A f, g, less : /\ f = Unreads /\ g = Unreads' /\ less = {at[p]}
                        => /\ IsFiniteSet(Tagged(g))
                           /\ Cardinality(Tagged(g)) = Cardinality(Tagged(f)) - Cardinality(less)
    <3> TAKE f, g, less
    <3> HAVE f = Unreads /\ g = Unreads' /\ less = {at[p]}
    <3>1. /\ DOMAIN g = DOMAIN f /\ p \in DOMAIN f /\ \A j \in DOMAIN f : j # p => g[j] = f[j]
          /\ g[p] = f[p] \ less /\ less \subseteq f[p] /\ IsFiniteSet(less)
          /\ IsFiniteSet(Tagged(f))
      BY <1>7, <1>11, <1>12 DEF FiniteCounts
    <3> QED
      BY <3>1, TaggedLess
  <2> QED
    BY <1>12, <2>1
<1>14. /\ IsFiniteSet(Tagged(Givings'))
       /\ Cardinality(Tagged(Givings')) = Cardinality(Tagged(Givings)) + 1
  <2>1. \A f, g : /\ f = Givings /\ g = Givings'
                  => /\ IsFiniteSet(Tagged(g))
                     /\ Cardinality(Tagged(g)) = Cardinality(Tagged(f)) + Cardinality(more)
    <3> TAKE f, g
    <3> HAVE f = Givings /\ g = Givings'
    <3>1. /\ DOMAIN g = DOMAIN f /\ event \in DOMAIN f
          /\ \A j \in DOMAIN f : j # event => g[j] = f[j]
          /\ g[event] = f[event] \cup more /\ f[event] \cap more = {} /\ IsFiniteSet(more)
          /\ IsFiniteSet(Tagged(f))
      BY <1>3, <1>10, <1>11, <1>12 DEF FiniteCounts
    <3> QED
      BY <3>1, TaggedMore
  <2> QED
    BY <1>12, <2>1
<1>15. /\ Cardinality(Tagged(Unreads)) \in Nat /\ Cardinality(Tagged(Givings)) \in Nat
       /\ cached \in Nat
  BY <1>11, FS_CardinalityType, ArrayType DEF FiniteCounts
<1>16. FiniteCounts'
  BY <1>5, <1>11, <1>13, <1>14 DEF FiniteCounts, Tagged
<1>17. /\ Cardinality(Tagged(Appends))' = Cardinality(Tagged(Appends))
       /\ Cardinality(Tagged(Unreads))' = Cardinality(Tagged(Unreads'))
       /\ Cardinality(Tagged(Givings))' = Cardinality(Tagged(Givings'))
  BY <1>5 DEF Tagged
<1> QED
  BY <1>1, <1>11, <1>13, <1>14, <1>15, <1>16, <1>17 DEF CountInv

LEMMA CountInitially == Init => CountInv
<1> SUFFICES ASSUME Init PROVE CountInv
  OBVIOUS
<1>1. Tagged(Appends) = {}
  <2>1. \A p \in Callbacks : Appends[p] = {}
    BY DEF Init, Appends, Goroutines
  <2>2. DOMAIN Appends = Callbacks
    BY DEF Appends
  <2> QED
    BY <2>1, <2>2 DEF Tagged
<1>2. Tagged(Unreads) = {}
  <2>1. \A p \in Goroutines : Unreads[p] = {}
    BY DEF Init, Unreads, Unread
  <2>2. DOMAIN Unreads = Goroutines
    BY DEF Unreads
  <2> QED
    BY <2>1, <2>2 DEF Tagged
<1>3. Tagged(Givings) = {}
  <2>1. \A e \in Events : Givings[e] = {}
    BY DEF Init, Givings
  <2>2. DOMAIN Givings = Events
    BY DEF Givings
  <2> QED
    BY <2>1, <2>2 DEF Tagged
<1>4. cached = 0
  BY DEF Init
<1> QED
  BY <1>1, <1>2, <1>3, <1>4, FS_EmptySet DEF CountInv, FiniteCounts

LEMMA CountKept ==
  ASSUME PipelineInv, CountInv, [Next]_vars
  PROVE  CountInv'
<1>1. CASE UNCHANGED vars /\ crashed
  <2>1. crashed'
    BY <1>1 DEF vars
  <2> QED
    BY <2>1 DEF CountInv, Alive
<1>2. CASE ~crashed
  BY <1>2, CountAfterOther, CountAfterFilterCell, CountAfterPend, CountAfterTake, CountAfterApply
  DEF Next, Step, Listener, HandleEvents
<1> QED
  BY <1>1, <1>2 DEF Next, Step

\* The book is given as many events as the callbacks appended, however many
\* listeners and tickers share the cache and whether or not batches are overwritten.
THEOREM NoCellIsLost == Spec => []AsManyAsAppended
<1>1. PipelineInv /\ CountInv /\ [Next]_vars => CountInv'
  BY CountKept
<1> QED
  BY <1>1, CountInitially, CountMeansAsMany, PipelineInvAlways, PTL DEF Spec

-----------------------------------------------------------------------------
(* An event is in one place.                                               *)

\* A slice holds events of its own transaction.
Origins ==
  \A n \in 1..Len(emitted) : \A i \in 1..Len(emitted[n]) :
    emitted[n][i] = None \/ \E j \in DOMAIN Transactions[n] : emitted[n][i] = Transactions[n][j]

NotCached(e) == \A i \in 1..cached : Array[i] # e
NotInBatch(e) == \A p \in Goroutines : \A i \in Unread(p) : arrays[batch[p].array][i] # e

Nowhere(e) == NotCached(e) /\ NotInBatch(e) /\ handled[e] = 0

CachedOnce(e) ==
  /\ \E i \in 1..cached : Array[i] = e /\ \A j \in 1..cached : Array[j] = e => j = i
  /\ NotInBatch(e) /\ handled[e] = 0

InBatchOnce(e) ==
  /\ \E p \in Goroutines : \E i \in Unread(p) :
       /\ arrays[batch[p].array][i] = e
       /\ \A q \in Goroutines : \A j \in Unread(q) :
            arrays[batch[q].array][j] = e => q = p /\ j = i
  /\ NotCached(e) /\ handled[e] = 0

GivenOnce(e) == NotCached(e) /\ NotInBatch(e) /\ handled[e] = 1

SomewhereOnce(e) == CachedOnce(e) \/ InBatchOnce(e) \/ GivenOnce(e)

\* What p has kept of its slice and what it has yet to look at.
Held(p) == {i \in 1..Len(emitted[p[1]]) : i < kept[p] \/ (pc[p] = "filter" /\ i >= at[p])}
HeldOnce(p, e) ==
  \E i \in Held(p) :
    emitted[p[1]][i] = e /\ \A j \in Held(p) : emitted[p[1]][j] = e => j = i

\* From the callback to the cache, from there to a batch, and then to the book.
Tracked(p, e) ==
  CASE pc[p] = "idle"               -> Nowhere(e)
    [] pc[p] \in {"filter", "pend"} -> Nowhere(e) /\ HeldOnce(p, e)
    [] OTHER                        -> SomewhereOnce(e)

\* The order events the first listener's callback p is called for.
Called(p) == {e \in OrderEvents : Times(e, Transactions[p[1]]) = 1}

AllTracked == \A p \in Callbacks : p[2] = 1 => \A e \in Called(p) : Tracked(p, e)

OnceInv ==
  /\ Origins
  /\ Alive /\ listeners <= 1 /\ ~overwritten => AllTracked

Holders(e) == {p \in Goroutines : \E i \in Unread(p) : arrays[batch[p].array][i] = e}
InCache(e) == Times(e, SubSeq(Array, 1, cached))

LEMMA InCacheCounts ==
  ASSUME PipelineInv, NEW e
  PROVE  InCache(e) = Cardinality({i \in 1..cached : Array[i] = e})
<1> DEFINE front == SubSeq(Array, 1, cached)
<1>1. DOMAIN front = 1..cached /\ \A i \in 1..cached : front[i] = Array[i]
  <2>1. Array \in Seq(Cells) /\ cached \in Nat /\ cached <= Len(Array)
    BY ArrayType DEF PipelineInv
  <2> QED
    BY <2>1
<1> HIDE DEF front
<1>2. {i \in DOMAIN front : front[i] = e} = {i \in 1..cached : Array[i] = e}
  BY <1>1
<1> QED
  BY <1>2 DEF InCache, Times, front

LEMMA NoneCounted ==
  ASSUME PipelineInv, NEW e
  PROVE  /\ NotCached(e) => InCache(e) = 0
         /\ NotInBatch(e) => Cardinality(Holders(e)) = 0
<1>1. NotCached(e) => {i \in 1..cached : Array[i] = e} = {}
  BY DEF NotCached
<1>2. NotInBatch(e) => Holders(e) = {}
  BY DEF NotInBatch, Holders
<1> QED
  BY <1>1, <1>2, InCacheCounts, FS_EmptySet

LEMMA OnceCounted ==
  ASSUME PipelineInv, NEW e, SomewhereOnce(e)
  PROVE  \/ InCache(e) = 1 /\ Cardinality(Holders(e)) = 0 /\ handled[e] = 0
         \/ InCache(e) = 0 /\ Cardinality(Holders(e)) = 1 /\ handled[e] = 0
         \/ InCache(e) = 0 /\ Cardinality(Holders(e)) = 0 /\ handled[e] = 1
<1>1. CASE CachedOnce(e)
  <2>1. PICK i \in 1..cached : Array[i] = e /\ \A j \in 1..cached : Array[j] = e => j = i
    BY <1>1 DEF CachedOnce
  <2>2. {j \in 1..cached : Array[j] = e} = {i}
    BY <2>1
  <2>3. InCache(e) = 1
    <3>1. Cardinality({i}) = 1
      BY FS_Singleton
    <3>2. InCache(e) = Cardinality({j \in 1..cached : Array[j] = e})
      BY InCacheCounts
    <3> QED
      BY <2>2, <3>1, <3>2
  <2> QED
    BY <1>1, <2>3, NoneCounted DEF CachedOnce
<1>2. CASE InBatchOnce(e)
  <2>1. PICK p \in Goroutines : \E i \in Unread(p) :
          /\ arrays[batch[p].array][i] = e
          /\ \A q \in Goroutines : \A j \in Unread(q) : arrays[batch[q].array][j] = e => q = p /\ j = i
    BY <1>2 DEF InBatchOnce
  <2>2. Holders(e) = {p}
    BY <2>1 DEF Holders
  <2>3. Cardinality(Holders(e)) = 1
    BY <2>2, FS_Singleton
  <2> QED
    BY <1>2, <2>3, NoneCounted DEF InBatchOnce
<1>3. CASE GivenOnce(e)
  BY <1>3, NoneCounted DEF GivenOnce
<1> QED
  BY <1>1, <1>2, <1>3 DEF SomewhereOnce

LEMMA OnceInvMeans ==
  ASSUME PipelineInv, OnceInv
  PROVE  OnceUnlessOverwritten
<1> SUFFICES ASSUME Alive, listeners = 1, ~overwritten, NEW n \in DOMAIN emitted,
                    NEW e \in OrderEvents, pc[<<n, 1>>] # "idle", Times(e, Transactions[n]) = 1
             PROVE  (IF pc[<<n, 1>>] \in {"filter", "pend"} THEN 1 ELSE 0)
                      + InCache(e) + Cardinality(Holders(e)) + handled[e] = 1
  BY DEF OnceUnlessOverwritten, InCache, Holders
<1> DEFINE p == <<n, 1>>
<1>1. p \in Callbacks /\ p[1] = n /\ p[2] = 1
  <2>1. n \in Emissions
    BY GoroutineType DEF PipelineInv, Globals
  <2>2. 1 \in 1..MaxListeners
    BY GoroutineType DEF PipelineInv, Globals
  <2> QED
    BY <2>1, <2>2 DEF Callbacks
<1>2. Tracked(p, e)
  BY <1>1 DEF OnceInv, AllTracked, Called
<1>3. CASE pc[p] \in {"filter", "pend"}
  <2>1. Nowhere(e)
    BY <1>2, <1>3 DEF Tracked
  <2>2. InCache(e) = 0 /\ Cardinality(Holders(e)) = 0 /\ handled[e] = 0
    BY <2>1, NoneCounted DEF Nowhere
  <2> QED
    BY <1>3, <2>2
<1>4. CASE pc[p] \notin {"filter", "pend"}
  <2>1. SomewhereOnce(e)
    BY <1>2, <1>4 DEF Tracked
  <2> QED
    BY <1>4, <2>1, OnceCounted
<1> QED
  BY <1>3, <1>4

\* What neither appends nor takes nor gives leaves every event where it is.
LEMMA PlacesSame ==
  ASSUME UNCHANGED <<arrays, cached, handled>>, NEW e,
         \A q \in Goroutines : Unread(q)' = Unread(q) /\ (Unread(q) # {} => batch'[q] = batch[q])
  PROVE  Nowhere(e)' = Nowhere(e) /\ SomewhereOnce(e)' = SomewhereOnce(e)
<1>1. NotCached(e)' <=> NotCached(e)
  BY DEF NotCached, Array
<1>2. NotInBatch(e)' <=> NotInBatch(e)
  BY DEF NotInBatch
<1>3. CachedOnce(e)' <=> CachedOnce(e)
  BY <1>2 DEF CachedOnce, Array
<1>4. InBatchOnce(e)' <=> InBatchOnce(e)
  BY <1>1 DEF InBatchOnce
<1> QED
  BY <1>1, <1>2, <1>3, <1>4 DEF Nowhere, SomewhereOnce, GivenOnce

LEMMA UnreadSame ==
  ASSUME NEW q \in Goroutines,
         \/ pc'[q] = pc[q] /\ at'[q] = at[q] /\ batch'[q] = batch[q]
         \/ pc[q] # "apply" /\ pc'[q] # "apply"
  PROVE  Unread(q)' = Unread(q) /\ (Unread(q) # {} => batch'[q] = batch[q])
BY DEF Unread

LEMMA HeldSame ==
  ASSUME NEW p \in Goroutines, NEW e, pc'[p] = pc[p], at'[p] = at[p], kept'[p] = kept[p],
         emitted'[p[1]] = emitted[p[1]]
  PROVE  HeldOnce(p, e)' = HeldOnce(p, e)
BY DEF HeldOnce, Held

LEMMA TrackedSame ==
  ASSUME NEW p \in Callbacks, NEW e, Tracked(p, e),
         Nowhere(e)' = Nowhere(e), SomewhereOnce(e)' = SomewhereOnce(e),
         \/ pc'[p] = pc[p] /\ (pc[p] \in {"filter", "pend"} => HeldOnce(p, e)' = HeldOnce(p, e))
         \/ pc[p] \notin {"idle", "filter", "pend"} /\ pc'[p] \notin {"idle", "filter", "pend"}
  PROVE  Tracked(p, e)'
BY DEF Tracked

\* The first listener's callbacks and the events they are called for.
LEMMA TrackedNow ==
  ASSUME AllTracked, NEW r \in Callbacks, NEW e \in OrderEvents, r[2] = 1,
         Times(e, Transactions[r[1]]) = 1
  PROVE  Tracked(r, e)
BY DEF AllTracked, Called

LEMMA TrackedNext ==
  ASSUME \A r \in Callbacks : \A e \in OrderEvents :
           r[2] = 1 /\ Times(e, Transactions[r[1]]) = 1 => Tracked(r, e)'
  PROVE  AllTracked'
BY DEF AllTracked, Called

\* An event counted once is logged in one place.
LEMMA LoggedOnce ==
  ASSUME NEW n \in Emissions, NEW e, Times(e, Transactions[n]) = 1
  PROVE  /\ Transactions[n] \in Seq(Events) /\ Len(Transactions[n]) \in Nat
         /\ \E i \in 1..Len(Transactions[n]) :
              /\ Transactions[n][i] = e
              /\ \A j \in 1..Len(Transactions[n]) : Transactions[n][j] = e => j = i
<1>1. Transactions[n] \in Seq(Events)
  BY PipelineAssumption DEF PipelineAssumption, Emissions
<1>2. DOMAIN Transactions[n] = 1..Len(Transactions[n]) /\ Len(Transactions[n]) \in Nat
  BY <1>1
<1> DEFINE S == {i \in 1..Len(Transactions[n]) : Transactions[n][i] = e}
<1>3. Cardinality(S) = 1
  BY <1>2 DEF Times
<1>4. IsFiniteSet(S)
  <2>1. IsFiniteSet(1..Len(Transactions[n])) /\ S \subseteq 1..Len(Transactions[n])
    BY <1>2, CellsUpTo
  <2> QED
    BY <2>1, FS_Subset
<1>5. PICK i : S = {i}
  BY <1>3, <1>4, FS_Singleton
<1>6. i \in S /\ \A j \in S : j = i
  BY <1>5
<1> QED
  BY <1>1, <1>2, <1>6

\* With one listener the callbacks that hold a slice are the first listener's.
LEMMA FirstListener ==
  ASSUME PipelineInv, listeners <= 1, NEW p \in Goroutines, pc[p] \in {"filter", "pend"}
  PROVE  p \in Callbacks /\ p[2] = 1 /\ p[1] \in Emissions
<1>1. p \in Callbacks /\ p[2] <= listeners
  BY DEF PipelineInv, Sound
<1> QED
  BY <1>1, GoroutineType DEF PipelineInv, Globals

LEMMA FilterCellExactly ==
  ASSUME PipelineInv, NEW p \in Goroutines, FilterCell(p), ~crashed'
  PROVE  /\ at'[p] = at[p] + 1
         /\ \A q \in Goroutines : q # p => at'[q] = at[q] /\ kept'[q] = kept[q]
         /\ \/ /\ emitted[p[1]][at[p]] \notin OrderEvents
               /\ emitted' = emitted /\ kept' = kept
            \/ /\ kept'[p] = kept[p] + 1
               /\ Len(emitted'[p[1]]) = Len(emitted[p[1]])
               /\ \A i \in 1..Len(emitted[p[1]]) :
                    emitted'[p[1]][i] = IF i = kept[p] THEN emitted[p[1]][at[p]]
                                        ELSE emitted[p[1]][i]
<1>1. /\ pc[p] = "filter"
      /\ at' = [at EXCEPT ![p] = @ + 1]
      /\ \/ /\ emitted[p[1]][at[p]] \notin OrderEvents
            /\ emitted' = emitted /\ kept' = kept
         \/ /\ kept' = [kept EXCEPT ![p] = @ + 1]
            /\ \/ kept[p] = at[p] /\ emitted' = emitted
               \/ emitted' = [emitted EXCEPT ![p[1]][kept[p]] = emitted[p[1]][at[p]]]
  BY DEF FilterCell
<1>2. at \in [Goroutines -> Nat \ {0}] /\ kept \in [Goroutines -> Nat \ {0}]
  BY DEF PipelineInv, Locals
<1>3. \A q \in Goroutines : q # p => at'[q] = at[q] /\ kept'[q] = kept[q]
  BY <1>1, <1>2
<1>4. p[1] \in 1..Len(emitted) /\ emitted[p[1]] \in Seq(Cells)
  BY <1>1, FilterPlace
<1>5. CASE emitted' = [emitted EXCEPT ![p[1]][kept[p]] = emitted[p[1]][at[p]]]
  <2>1. Len(emitted'[p[1]]) = Len(emitted[p[1]])
    BY <1>4, FilterCellEffect
  <2>2. emitted'[p[1]] = [emitted[p[1]] EXCEPT ![kept[p]] = emitted[p[1]][at[p]]]
    BY SMTT(30), <1>4, <1>5 DEF PipelineInv, Globals
  <2>3. \A i \in 1..Len(emitted[p[1]]) :
          emitted'[p[1]][i] = IF i = kept[p] THEN emitted[p[1]][at[p]] ELSE emitted[p[1]][i]
    BY <1>4, <2>2
  <2> QED
    BY <1>1, <1>2, <1>3, <2>1, <2>3
<1>6. CASE emitted' = emitted
  BY <1>1, <1>2, <1>3, <1>5, <1>6
<1> QED
  BY <1>1, <1>5, <1>6

\* Cells that move stay in their slice.
LEMMA OriginsFrom ==
  ASSUME Origins, Len(emitted') = Len(emitted),
         \A n \in 1..Len(emitted) : Len(emitted'[n]) = Len(emitted[n]),
         \A n \in 1..Len(emitted) : \A i \in 1..Len(emitted[n]) :
           \/ emitted'[n][i] = None
           \/ \E j \in 1..Len(emitted[n]) : emitted'[n][i] = emitted[n][j]
  PROVE  Origins'
BY DEF Origins

LEMMA OriginsKept ==
  ASSUME PipelineInv, Origins, [Next]_vars
  PROVE  Origins'
<1>1. CASE emitted' = emitted
  BY <1>1 DEF Origins
<1>2. CASE HandleTxLogs
  <2> DEFINE n == Len(emitted) + 1
  <2>1. n \in Emissions /\ emitted' = Append(emitted, Transactions[n])
    BY <1>2 DEF HandleTxLogs
  <2>2. /\ Len(emitted) \in Nat /\ Len(emitted') = n /\ emitted'[n] = Transactions[n]
        /\ \A m \in 1..Len(emitted) : emitted'[m] = emitted[m]
    BY <2>1 DEF PipelineInv, Globals
  <2>3. Transactions[n] \in Seq(Events)
    BY <2>1, PipelineAssumption DEF PipelineAssumption, Emissions
  <2>4. \A m \in 1..Len(emitted') : m = n \/ m \in 1..Len(emitted)
    BY <2>2
  <2>5. DOMAIN Transactions[n] = 1..Len(Transactions[n])
    BY <2>3
  <2> HIDE DEF n
  <2> QED
    BY <2>2, <2>4, <2>5 DEF Origins
<1>3. ASSUME NEW p \in Goroutines, FilterCell(p), emitted' # emitted PROVE Origins'
  <2>1. pc[p] = "filter" /\ at[p] <= Len(emitted[p[1]]) /\ ~(emitted[p[1]][at[p]] = None)
    BY <1>3 DEF FilterCell
  <2>2. crashed' = crashed
    BY <1>3 DEF FilterCell
  <2>3. /\ p[1] \in 1..Len(emitted) /\ at[p] \in 1..Len(emitted[p[1]])
    BY <2>1, FilterPlace
  <2>4. \A i \in 1..Len(emitted[p[1]]) : \/ emitted'[p[1]][i] = emitted[p[1]][i]
                                         \/ emitted'[p[1]][i] = emitted[p[1]][at[p]]
    <3>1. emitted' = [emitted EXCEPT ![p[1]][kept[p]] = emitted[p[1]][at[p]]]
      BY <1>3 DEF FilterCell
    <3>2. emitted'[p[1]] = [emitted[p[1]] EXCEPT ![kept[p]] = emitted[p[1]][at[p]]]
      BY SMTT(30), <2>3, <3>1 DEF PipelineInv, Globals
    <3>3. emitted[p[1]] \in Seq(Cells)
      BY <2>1, FilterPlace
    <3> QED
      BY <3>2, <3>3
  <2>5. /\ Len(emitted') = Len(emitted)
        /\ \A n \in 1..Len(emitted) : Len(emitted'[n]) = Len(emitted[n])
        /\ \A n \in 1..Len(emitted) : n # p[1] => emitted'[n] = emitted[n]
    BY <1>3, FilterCellEffect
  <2>6. \A n \in 1..Len(emitted) : \A i \in 1..Len(emitted[n]) :
          \E j \in 1..Len(emitted[n]) : emitted'[n][i] = emitted[n][j]
    BY <2>3, <2>4, <2>5
  <2> QED
    BY <2>5, <2>6, OriginsFrom
<1>4. ASSUME NEW p \in Goroutines, FilterEnds(p) PROVE Origins'
  <2>1. /\ pc[p] = "filter"
        /\ emitted' = [emitted EXCEPT ![p[1]] =
                         [i \in DOMAIN @ |-> IF i < kept[p] THEN @[i] ELSE None]]
    BY <1>4 DEF FilterEnds
  <2>2. p[1] \in 1..Len(emitted) /\ emitted[p[1]] \in Seq(Cells)
    BY <2>1, FilterPlace
  <2> DEFINE slice == [i \in DOMAIN emitted[p[1]] |->
                         IF i < kept[p] THEN emitted[p[1]][i] ELSE None]
  <2>3. emitted'[p[1]] = slice
    <3>1. emitted' = [emitted EXCEPT ![p[1]] = slice]
      BY <2>1
    <3> HIDE DEF slice
    <3> QED
      BY <2>2, <3>1 DEF PipelineInv, Globals
  <2>4. \A i \in 1..Len(emitted[p[1]]) : \/ emitted'[p[1]][i] = emitted[p[1]][i]
                                         \/ emitted'[p[1]][i] = None
    BY <2>2, <2>3
  <2>5. /\ Len(emitted') = Len(emitted)
        /\ \A n \in 1..Len(emitted) : Len(emitted'[n]) = Len(emitted[n])
        /\ \A n \in 1..Len(emitted) : n # p[1] => emitted'[n] = emitted[n]
    BY <1>4, FilterEndsEffect
  <2>6. \A n \in 1..Len(emitted) : \A i \in 1..Len(emitted[n]) :
          emitted'[n][i] = emitted[n][i] \/ emitted'[n][i] = None
    BY <2>2, <2>4, <2>5
  <2> QED
    BY <2>5, <2>6, OriginsFrom
<1> QED
  BY <1>1, <1>2, <1>3, <1>4
  DEF Next, Step, Listener, HandleEvents, Subscribe, Unsubscribe, Pend, CheckFull, Take, Apply,
      TickerEnds, vars

\* Events are appended to the cache, and to nothing that is being read.
LEMMA PendExactly ==
  ASSUME PipelineInv, NEW p \in Goroutines, Pend(p), ~overwritten'
  PROVE  /\ cached \in Nat /\ Len(Filtered(p)) \in Nat /\ cached' = cached + Len(Filtered(p))
         /\ \A i \in 1..cached : Array'[i] = Array[i]
         /\ \A j \in 1..Len(Filtered(p)) : Array'[cached + j] = Filtered(p)[j]
         /\ \A q \in Goroutines : \A i \in Unread(q) :
              arrays'[batch[q].array][i] = arrays[batch[q].array][i]
<1> DEFINE length == cached + Len(Filtered(p))
           Cell(i) == IF i > cached /\ i <= length THEN Filtered(p)[i - cached]
                      ELSE IF i <= Len(Array) THEN Array[i] ELSE None
<1>1. pc[p] = "pend" /\ cached' = length
  BY DEF Pend
<1>2. Len(Filtered(p)) \in Nat /\ Len(Filtered(p)) > 0
  BY <1>1, FilteredType DEF PipelineInv
<1>3. /\ Array \in Seq(Cells) /\ Len(Array) \in Nat /\ cached \in Nat /\ cached <= Len(Array)
      /\ Len(arrays) \in Nat /\ arrays \in Seq(Seq(Cells))
      /\ Len(Array) > 0 => Len(arrays) \in DOMAIN arrays /\ Array = arrays[Len(arrays)]
  BY ArrayType DEF PipelineInv, Globals
<1>4. /\ \A i \in 1..cached : Cell(i) = Array[i]
      /\ \A j \in 1..Len(Filtered(p)) : Cell(cached + j) = Filtered(p)[j]
      /\ \A i \in 1..Len(Array) : i \in (cached + 1)..length \/ Cell(i) = Array[i]
  BY <1>2, <1>3
<1>5. /\ length \in Nat /\ length > cached /\ length = cached + Len(Filtered(p))
      /\ \A i \in 1..cached : i \in 1..length
  BY <1>2, <1>3
<1>6. \A q \in Goroutines : \A i \in Unread(q) :
        batch[q].array \in 1..Len(arrays) /\ i \in 1..Len(arrays[batch[q].array])
  <2> SUFFICES ASSUME NEW q \in Goroutines, NEW i \in Unread(q)
               PROVE  batch[q].array \in 1..Len(arrays) /\ i \in 1..Len(arrays[batch[q].array])
    OBVIOUS
  <2>1. pc[q] = "apply" /\ i \in at[q]..batch[q].length
    BY DEF Unread
  <2>2. /\ batch[q].array \in 1..Len(arrays) /\ batch[q].length \in Nat /\ at[q] \in Nat \ {0}
        /\ batch[q].length <= Len(arrays[batch[q].array])
        /\ Len(arrays[batch[q].array]) \in Nat
    BY SMTT(30), <2>1 DEF PipelineInv, BatchOK, Locals, Batches, Globals
  <2> QED
    BY <2>1, <2>2
<1>7. cached' = cached + Len(Filtered(p))
  BY <1>1
<1>8. CASE length <= Len(Array)
  <2>1. /\ arrays' = [arrays EXCEPT ![Len(arrays)] = [i \in DOMAIN @ |-> Cell(i)]]
        /\ \A q \in Goroutines : batch[q].array = Len(arrays) =>
             Unread(q) \cap ((cached + 1)..length) = {}
    BY <1>8 DEF Pend
  <2> DEFINE cells == [i \in 1..Len(Array) |-> Cell(i)]
  <2>2. Len(arrays) \in 1..Len(arrays) /\ Array = arrays[Len(arrays)] /\ arrays # <<>>
        /\ DOMAIN Array = 1..Len(Array)
    BY <1>3, <1>5, <1>8
  <2>3. arrays' = [arrays EXCEPT ![Len(arrays)] = cells]
    BY <2>1, <2>2
  <2>4. \A i \in 1..Len(Array) : cells[i] = Cell(i)
    OBVIOUS
  <2> HIDE DEF cells
  <2>5. /\ Len(arrays') = Len(arrays) /\ arrays'[Len(arrays)] = cells
        /\ \A a \in 1..Len(arrays) : a # Len(arrays) => arrays'[a] = arrays[a]
    BY <1>3, <2>2, <2>3
  <2>6. Array' = cells
    BY <2>2, <2>5 DEF Array
  <2>7. \A i \in 1..length : i \in 1..Len(Array) /\ cells[i] = Cell(i)
    <3>1. \A i \in 1..length : i \in 1..Len(Array)
      BY <1>3, <1>5, <1>8
    <3> QED
      BY <2>4, <3>1
  <2> HIDE DEF Cell, length
  <2>8. /\ \A i \in 1..cached : Array'[i] = Array[i]
        /\ \A j \in 1..Len(Filtered(p)) : Array'[cached + j] = Filtered(p)[j]
    <3>1. \A i \in 1..cached : Array'[i] = Array[i]
      BY <1>4, <1>5, <2>6, <2>7
    <3>2. ASSUME NEW j \in 1..Len(Filtered(p)) PROVE Array'[cached + j] = Filtered(p)[j]
      <4>1. cached + j \in 1..length
        BY <1>2, <1>3, <1>5, <3>2
      <4>3. Cell(cached + j) = Filtered(p)[j]
        BY <1>4, <3>2
      <4>2. cells[cached + j] = Cell(cached + j)
        BY <4>1, <2>7
      <4> QED
        BY <4>1, <4>3, <4>2, <2>6
    <3> QED
      BY <3>1, <3>2
  <2>9. ASSUME NEW q \in Goroutines, NEW i \in Unread(q)
        PROVE  arrays'[batch[q].array][i] = arrays[batch[q].array][i]
    <3>1. CASE batch[q].array = Len(arrays)
      <4>1. i \in 1..Len(Array) /\ i \notin (cached + 1)..length
        BY <1>6, <2>1, <2>2, <2>9, <3>1
      <4> QED
        BY <1>4, <2>2, <2>4, <2>5, <3>1, <4>1
    <3>2. CASE batch[q].array # Len(arrays)
      BY <1>6, <2>5, <2>9, <3>2
    <3> QED
      BY <3>1, <3>2
  <2> QED
    BY <1>7, <1>2, <1>3, <2>8, <2>9
<1>9. CASE ~(length <= Len(Array))
  <2> DEFINE size == Capacity(length, Len(Array))
             cells == [i \in 1..size |-> Cell(i)]
  <2>1. arrays' = Append(arrays, cells)
    BY <1>9 DEF Pend
  <2>2. size \in Nat /\ size >= length
    BY <1>3, <1>5, CapacityIsEnough
  <2>3. \A i \in 1..size : cells[i] = Cell(i)
    OBVIOUS
  <2> HIDE DEF cells, size
  <2>4. /\ Len(arrays') = Len(arrays) + 1 /\ arrays'[Len(arrays) + 1] = cells
        /\ \A a \in 1..Len(arrays) : arrays'[a] = arrays[a]
    BY <1>3, <2>1
  <2>5. Array' = cells
    <3>1. arrays' # <<>>
      BY <1>3, <2>1, <2>4
    <3> QED
      BY <2>4, <3>1 DEF Array
  <2>6. \A i \in 1..length : cells[i] = Cell(i)
    <3>1. \A i \in 1..length : i \in 1..size
      BY <1>5, <2>2
    <3> QED
      BY <2>3, <3>1
  <2> HIDE DEF Cell, length
  <2>7. /\ \A i \in 1..cached : Array'[i] = Array[i]
        /\ \A j \in 1..Len(Filtered(p)) : Array'[cached + j] = Filtered(p)[j]
    <3>1. \A i \in 1..cached : Array'[i] = Array[i]
      BY <1>4, <1>5, <2>5, <2>6
    <3>2. ASSUME NEW j \in 1..Len(Filtered(p)) PROVE Array'[cached + j] = Filtered(p)[j]
      <4>1. cached + j \in 1..length
        BY <1>2, <1>3, <1>5, <3>2
      <4>3. Cell(cached + j) = Filtered(p)[j]
        BY <1>4, <3>2
      <4>2. cells[cached + j] = Cell(cached + j)
        BY <4>1, <2>6
      <4> QED
        BY <4>1, <4>3, <4>2, <2>5
    <3> QED
      BY <3>1, <3>2
  <2> QED
    BY <1>7, <1>2, <1>3, <1>6, <2>4, <2>7
<1> QED
  BY <1>8, <1>9

LEMMA OnceAfterOther ==
  ASSUME PipelineInv, AllTracked, listeners' <= 1,
         \/ Subscribe \/ Unsubscribe
         \/ \E p \in Goroutines : CheckFull(p) \/ TickerEnds(p)
  PROVE  AllTracked'
<1>1. UNCHANGED <<emitted, cacheVars, readVars, handled>>
  BY DEF Subscribe, Unsubscribe, CheckFull, TickerEnds
<1>2. \A q \in Goroutines :
        \/ pc'[q] = pc[q]
        \/ q \notin Callbacks /\ pc[q] # "apply" /\ pc'[q] # "apply"
        \/ pc[q] \in {"check", "wait"} /\ pc'[q] \in {"take", "done"}
  <2>1. ASSUME Subscribe, NEW q \in Goroutines
        PROVE  pc'[q] = pc[q] \/ (q \notin Callbacks /\ pc[q] # "apply" /\ pc'[q] # "apply")
    <3> DEFINE t == <<0, listeners + 1>>
    <3>1. pc' = [pc EXCEPT ![t] = "wait"] /\ listeners < MaxListeners /\ listeners \in Nat
      BY <2>1, GoroutineType DEF Subscribe, PipelineInv, Globals
    <3>2. t \in Tickers /\ t \in Goroutines
      BY <3>1, GoroutineType DEF Tickers, Goroutines
    <3>3. pc[t] = "idle" /\ t \notin Callbacks
      BY <3>1, <3>2, GoroutineType DEF PipelineInv, Sound
    <3> HIDE DEF t
    <3>4. CASE q = t
      BY <3>1, <3>3, <3>4 DEF PipelineInv, Locals
    <3>5. CASE q # t
      BY <3>1, <3>5 DEF PipelineInv, Locals
    <3> QED
      BY <3>4, <3>5
  <2>2. ASSUME NEW p \in Goroutines, CheckFull(p) \/ TickerEnds(p), NEW q \in Goroutines
        PROVE  pc'[q] = pc[q] \/ (pc[q] \in {"check", "wait"} /\ pc'[q] \in {"take", "done"})
    BY <2>2 DEF CheckFull, TickerEnds, PipelineInv, Locals
  <2>3. ASSUME Unsubscribe PROVE pc' = pc
    BY <2>3 DEF Unsubscribe
  <2> QED
    BY <2>1, <2>2, <2>3
<1>3. \A q \in Goroutines : Unread(q)' = Unread(q) /\ (Unread(q) # {} => batch'[q] = batch[q])
  BY <1>1, <1>2, UnreadSame DEF readVars
<1>4. ASSUME NEW r \in Callbacks, NEW e \in OrderEvents, r[2] = 1,
             Times(e, Transactions[r[1]]) = 1
      PROVE  Tracked(r, e)'
  <2>1. Nowhere(e)' = Nowhere(e) /\ SomewhereOnce(e)' = SomewhereOnce(e)
    BY <1>1, <1>3, PlacesSame DEF cacheVars
  <2>2. r \in Goroutines
    BY DEF Goroutines
  <2>3. pc'[r] = pc[r] => HeldOnce(r, e)' = HeldOnce(r, e)
    BY <1>1, <2>2, HeldSame DEF readVars
  <2>4. \/ pc'[r] = pc[r]
        \/ pc[r] \notin {"idle", "filter", "pend"} /\ pc'[r] \notin {"idle", "filter", "pend"}
    BY <1>2, <2>2
  <2> QED
    BY <1>4, <2>1, <2>3, <2>4, TrackedNow, TrackedSame
<1> QED
  BY <1>4, TrackedNext

LEMMA OnceAfterHandleTxLogs ==
  ASSUME PipelineInv, AllTracked, listeners <= 1, HandleTxLogs
  PROVE  AllTracked'
<1> DEFINE n == Len(emitted) + 1
<1>1. /\ n \in Emissions /\ emitted' = Append(emitted, Transactions[n])
      /\ pc' = [q \in Goroutines |-> IF q[1] = n /\ q[2] <= listeners THEN "filter" ELSE pc[q]]
      /\ UNCHANGED <<cacheVars, readVars, handled>>
  BY DEF HandleTxLogs
<1>2. /\ Len(emitted) \in Nat /\ emitted'[n] = Transactions[n]
      /\ \A m \in 1..Len(emitted) : emitted'[m] = emitted[m]
  BY <1>1 DEF PipelineInv, Globals
<1>3. \A q \in Goroutines : q[1] = n => pc[q] = "idle"
  BY <1>2, GoroutineType DEF PipelineInv, Sound
<1>4. \A q \in Goroutines : pc'[q] = pc[q] \/ (pc[q] # "apply" /\ pc'[q] # "apply")
  BY <1>1, <1>3
<1>5. \A q \in Goroutines : Unread(q)' = Unread(q) /\ (Unread(q) # {} => batch'[q] = batch[q])
  BY <1>1, <1>4, UnreadSame DEF readVars
<1> HIDE DEF n
<1>6. ASSUME NEW r \in Callbacks, NEW e \in OrderEvents, r[2] = 1,
             Times(e, Transactions[r[1]]) = 1
      PROVE  Tracked(r, e)'
  <2>1. Nowhere(e)' = Nowhere(e) /\ SomewhereOnce(e)' = SomewhereOnce(e)
    BY <1>1, <1>5, PlacesSame DEF cacheVars
  <2>2. r \in Goroutines /\ Tracked(r, e)
    BY <1>6, TrackedNow DEF Goroutines
  <2>3. CASE r[1] = n /\ r[2] <= listeners
    <3>1. pc[r] = "idle" /\ pc'[r] = "filter"
      BY <1>1, <1>3, <2>2, <2>3
    <3>2. at'[r] = 1 /\ kept'[r] = 1
      BY <1>1, <2>2, <3>1 DEF PipelineInv, Sound, readVars
    <3>3. PICK i \in 1..Len(Transactions[n]) :
            /\ Transactions[n][i] = e
            /\ \A j \in 1..Len(Transactions[n]) : Transactions[n][j] = e => j = i
      BY <1>1, <1>6, <2>3, LoggedOnce
    <3>4. Held(r)' = 1..Len(Transactions[n])
      BY <1>2, <2>3, <3>1, <3>2 DEF Held
    <3>5. HeldOnce(r, e)'
      BY <1>2, <2>3, <3>3, <3>4 DEF HeldOnce
    <3>6. Nowhere(e)
      BY <2>2, <3>1 DEF Tracked
    <3> QED
      BY <2>1, <3>1, <3>5, <3>6 DEF Tracked
  <2>4. CASE ~(r[1] = n /\ r[2] <= listeners)
    <3>1. pc'[r] = pc[r]
      BY <1>1, <2>2, <2>4
    <3>2. pc[r] \in {"filter", "pend"} => r[1] \in 1..Len(emitted)
      BY <2>2, BusyIsEmitted
    <3>3. pc[r] \in {"filter", "pend"} => HeldOnce(r, e)' = HeldOnce(r, e)
      BY <1>1, <1>2, <2>2, <3>1, <3>2, HeldSame DEF readVars
    <3> QED
      BY <2>1, <2>2, <3>1, <3>3, TrackedSame
  <2> QED
    BY <2>3, <2>4
<1> QED
  BY <1>6, TrackedNext

\* A callback that filters changes no slice but its own.
LEMMA OthersAfterFilter ==
  ASSUME PipelineInv, listeners <= 1, NEW p \in Goroutines, FilterCell(p) \/ FilterEnds(p),
         NEW r \in Callbacks, r # p, NEW e, Tracked(r, e)
  PROVE  Tracked(r, e)'
<1>1. pc[p] = "filter" /\ UNCHANGED <<cacheVars, batch, handled>>
  BY DEF FilterCell, FilterEnds
<1>2. \A q \in Goroutines : /\ q # p => pc'[q] = pc[q] /\ at'[q] = at[q] /\ kept'[q] = kept[q]
                            /\ pc'[p] # "apply"
  BY <1>1 DEF FilterCell, FilterEnds, PipelineInv, Locals
<1>3. \A q \in Goroutines : Unread(q)' = Unread(q) /\ (Unread(q) # {} => batch'[q] = batch[q])
  BY <1>1, <1>2, UnreadSame
<1>4. Nowhere(e)' = Nowhere(e) /\ SomewhereOnce(e)' = SomewhereOnce(e)
  BY <1>1, <1>3, PlacesSame DEF cacheVars
<1>5. r \in Goroutines
  BY DEF Goroutines
<1>6. pc[r] \in {"filter", "pend"} => HeldOnce(r, e)' = HeldOnce(r, e)
  <2>1. SUFFICES ASSUME pc[r] \in {"filter", "pend"} PROVE HeldOnce(r, e)' = HeldOnce(r, e)
    OBVIOUS
  <2>a. r[1] \in 1..Len(emitted)
    BY <1>5, <2>1, BusyIsEmitted
  <2>2. r[1] # p[1]
    BY <1>1, <1>5, <2>1, OneCallback
  <2>3. emitted'[r[1]] = emitted[r[1]]
    BY <2>a, <2>2, FilterCellEffect, FilterEndsEffect
  <2> QED
    BY <1>2, <1>5, <2>3, HeldSame
<1> QED
  BY <1>2, <1>4, <1>5, <1>6, TrackedSame

LEMMA PlacesAfterFilter ==
  ASSUME PipelineInv, NEW p \in Goroutines, FilterCell(p) \/ FilterEnds(p), NEW e
  PROVE  Nowhere(e)' = Nowhere(e)
<1>1. pc[p] = "filter" /\ UNCHANGED <<cacheVars, batch, handled>>
  BY DEF FilterCell, FilterEnds
<1>2. \A q \in Goroutines : q # p => pc'[q] = pc[q] /\ at'[q] = at[q]
  BY <1>1 DEF FilterCell, FilterEnds, PipelineInv, Locals
<1>3. pc'[p] # "apply"
  BY <1>1 DEF FilterCell, FilterEnds, PipelineInv, Locals
<1>4. \A q \in Goroutines : Unread(q)' = Unread(q) /\ (Unread(q) # {} => batch'[q] = batch[q])
  BY <1>1, <1>2, <1>3, UnreadSame
<1> QED
  BY <1>1, <1>4, PlacesSame DEF cacheVars

LEMMA OnceAfterFilterCell ==
  ASSUME PipelineInv, AllTracked, listeners <= 1, ~crashed',
         NEW p \in Goroutines, FilterCell(p)
  PROVE  AllTracked'
<1>1. ASSUME NEW e \in OrderEvents, p \in Callbacks, Tracked(p, e) PROVE Tracked(p, e)'
  <2>1. pc[p] = "filter" /\ pc'[p] = "filter" /\ at[p] <= Len(emitted[p[1]])
    BY DEF FilterCell
  <2>2. /\ at[p] \in 1..Len(emitted[p[1]]) /\ kept[p] \in Nat \ {0} /\ kept[p] <= at[p]
        /\ Len(emitted[p[1]]) \in Nat
    BY <2>1, FilterPlace
  <2>3. Nowhere(e)'
    BY <1>1, <2>1, PlacesAfterFilter DEF Tracked
  <2>4. PICK i \in Held(p) :
          emitted[p[1]][i] = e /\ \A j \in Held(p) : emitted[p[1]][j] = e => j = i
    BY <1>1, <2>1 DEF Tracked, HeldOnce
  <2>5. at'[p] = at[p] + 1
    BY FilterCellExactly
  <2>6. Held(p) = {j \in 1..Len(emitted[p[1]]) : j < kept[p] \/ j >= at[p]}
    BY <2>1 DEF Held
  <2>7. CASE emitted[p[1]][at[p]] \notin OrderEvents /\ emitted' = emitted /\ kept' = kept
    <3>1. i # at[p]
      BY <2>4, <2>7
    <3>2. Held(p)' = {j \in 1..Len(emitted[p[1]]) : j < kept[p] \/ j >= at[p] + 1}
      BY <2>1, <2>5, <2>7 DEF Held
    <3>3. i \in Held(p)' /\ Held(p)' \subseteq Held(p)
      BY <2>2, <2>6, <3>1, <3>2
    <3>4. HeldOnce(p, e)'
      BY <2>4, <2>7, <3>3 DEF HeldOnce
    <3> QED
      BY <2>1, <2>3, <3>4 DEF Tracked
  <2>8. CASE /\ kept'[p] = kept[p] + 1
             /\ Len(emitted'[p[1]]) = Len(emitted[p[1]])
             /\ \A j \in 1..Len(emitted[p[1]]) :
                  emitted'[p[1]][j] = IF j = kept[p] THEN emitted[p[1]][at[p]]
                                      ELSE emitted[p[1]][j]
    <3>1. Held(p)' = {j \in 1..Len(emitted[p[1]]) : j < kept[p] + 1 \/ j >= at[p] + 1}
      BY <2>1, <2>5, <2>8 DEF Held
    <3>2. kept[p] \in Held(p)' /\ kept[p] \in 1..Len(emitted[p[1]]) /\ at[p] \in Held(p)
      BY <2>2, <2>6, <3>1
    <3>3. \A j \in Held(p)' : j # kept[p] => j \in Held(p) /\ j # at[p]
      BY <2>2, <2>6, <3>1
    <3>4. \A j \in Held(p) : j # at[p] => j \in Held(p)' /\ j # kept[p]
      BY <2>2, <2>6, <3>1
    <3>5. /\ emitted'[p[1]][kept[p]] = emitted[p[1]][at[p]]
          /\ \A j \in Held(p)' : j # kept[p] => emitted'[p[1]][j] = emitted[p[1]][j]
      BY <2>8, <3>1, <3>2
    <3>6. HeldOnce(p, e)'
      <4>1. CASE i = at[p]
        BY <2>4, <3>2, <3>3, <3>5, <4>1 DEF HeldOnce
      <4>2. CASE i # at[p]
        BY <2>4, <3>2, <3>3, <3>4, <3>5, <4>2 DEF HeldOnce
      <4> QED
        BY <4>1, <4>2
    <3> QED
      BY <2>1, <2>3, <3>6 DEF Tracked
  <2> QED
    BY <2>7, <2>8, FilterCellExactly
<1> QED
  BY <1>1, OthersAfterFilter, TrackedNow, TrackedNext

LEMMA OnceAfterFilterEnds ==
  ASSUME PipelineInv, AllTracked, listeners <= 1, NEW p \in Goroutines, FilterEnds(p)
  PROVE  AllTracked'
<1>1. ASSUME NEW e \in OrderEvents, p \in Callbacks, Tracked(p, e) PROVE Tracked(p, e)'
  <2>1. /\ pc[p] = "filter" /\ at[p] > Len(emitted[p[1]]) /\ kept' = kept
        /\ pc'[p] = IF kept[p] > 1 THEN "pend" ELSE "done"
    BY DEF FilterEnds, PipelineInv, Locals
  <2>2. /\ kept[p] \in Nat \ {0} /\ Len(emitted[p[1]]) \in Nat /\ at[p] \in Nat
        /\ Len(emitted'[p[1]]) = Len(emitted[p[1]])
        /\ \A j \in 1..(kept[p] - 1) : emitted'[p[1]][j] = emitted[p[1]][j]
    BY <2>1, FilterPlace, FilterEndsEffect
  <2>3. Nowhere(e)'
    BY <1>1, <2>1, PlacesAfterFilter DEF Tracked
  <2>4. PICK i \in Held(p) :
          emitted[p[1]][i] = e /\ \A j \in Held(p) : emitted[p[1]][j] = e => j = i
    BY <1>1, <2>1 DEF Tracked, HeldOnce
  <2>5. Held(p) = {j \in 1..Len(emitted[p[1]]) : j < kept[p]}
    BY <2>1, <2>2 DEF Held
  <2>6. pc'[p] = "pend"
    BY <2>1, <2>2, <2>4, <2>5
  <2>7. Held(p)' = Held(p)
    BY <2>1, <2>2, <2>5, <2>6 DEF Held
  <2>8. \A j \in Held(p) : emitted'[p[1]][j] = emitted[p[1]][j]
    BY <2>2, <2>5
  <2>9. HeldOnce(p, e)'
    BY <2>4, <2>7, <2>8 DEF HeldOnce
  <2> QED
    BY <2>3, <2>6, <2>9 DEF Tracked
<1> QED
  BY <1>1, OthersAfterFilter, TrackedNow, TrackedNext

\* The first listener's callbacks append events of their own transactions.
LEMMA AppendsOwn ==
  ASSUME EventsApart, PipelineInv, Origins, NEW p \in Callbacks, pc[p] = "pend",
         NEW n \in Emissions, n # p[1], NEW e, Times(e, Transactions[n]) = 1
  PROVE  \A j \in 1..Len(Filtered(p)) : Filtered(p)[j] # e
<1>1. /\ Transactions[n] \in Seq(Events) /\ Len(Transactions[n]) \in Nat
      /\ \E k \in 1..Len(Transactions[n]) :
           /\ Transactions[n][k] = e
           /\ \A i \in 1..Len(Transactions[n]) : Transactions[n][i] = e => i = k
  BY LoggedOnce
<1> SUFFICES ASSUME NEW j \in 1..Len(Filtered(p)), Filtered(p)[j] = e PROVE FALSE
  OBVIOUS
<1>2. p \in Goroutines /\ p[1] \in 1..Len(emitted) /\ p[1] \in Emissions
  BY GoroutineType DEF PipelineInv, Sound, Globals, Goroutines
<1>3. PICK k \in DOMAIN Transactions[n] : Transactions[n][k] = e /\ e \in Events
  BY <1>1
<1>4. /\ Len(Filtered(p)) = kept[p] - 1 /\ emitted[p[1]][j] = e
      /\ kept[p] <= Len(emitted[p[1]]) + 1 /\ kept[p] \in Nat
  BY <1>2, FilteredType DEF PipelineInv, Sound, Locals
<1>5. j \in 1..Len(emitted[p[1]])
  <2>1. Len(emitted[p[1]]) \in Nat
    BY <1>2 DEF PipelineInv, Globals
  <2> QED
    BY <1>4, <2>1
<1>6. e = None \/ \E i \in DOMAIN Transactions[p[1]] : e = Transactions[p[1]][i]
  BY <1>2, <1>4, <1>5 DEF Origins
<1>7. e # None
  BY <1>3, PipelineAssumption DEF PipelineAssumption
<1> QED
  BY <1>2, <1>3, <1>6, <1>7 DEF EventsApart

LEMMA OnceAfterPend ==
  ASSUME EventsApart, PipelineInv, Origins, AllTracked, listeners <= 1, ~overwritten',
         NEW p \in Goroutines, Pend(p)
  PROVE  AllTracked'
<1>1. /\ pc[p] = "pend" /\ pc' = [pc EXCEPT ![p] = "check"]
      /\ UNCHANGED <<emitted, readVars, handled>>
  BY DEF Pend
<1>2. pc'[p] = "check" /\ \A q \in Goroutines : q # p => pc'[q] = pc[q]
  BY <1>1 DEF PipelineInv, Locals
<1>3. \A q \in Goroutines : Unread(q)' = Unread(q)
  BY <1>1, <1>2, UnreadSame DEF readVars
<1>4. p \in Callbacks /\ p[2] = 1 /\ p[1] \in Emissions
  BY <1>1, FirstListener
<1>5. /\ cached \in Nat /\ Len(Filtered(p)) \in Nat /\ cached' = cached + Len(Filtered(p))
      /\ \A i \in 1..cached : Array'[i] = Array[i]
      /\ \A j \in 1..Len(Filtered(p)) : Array'[cached + j] = Filtered(p)[j]
      /\ \A q \in Goroutines : \A i \in Unread(q) :
           arrays'[batch[q].array][i] = arrays[batch[q].array][i]
  BY PendExactly
<1>6. \A i \in 1..cached' : i \in 1..cached \/ i - cached \in 1..Len(Filtered(p))
  BY <1>5
<1>7. \A i \in 1..cached : i \in 1..cached'
  BY <1>5
<1>8. \A e : NotInBatch(e)' <=> NotInBatch(e)
  BY <1>1, <1>3, <1>5 DEF NotInBatch, readVars
<1>9. ASSUME NEW r \in Callbacks, NEW e \in OrderEvents, r[2] = 1,
             Times(e, Transactions[r[1]]) = 1
      PROVE  Tracked(r, e)'
  <2>1. r \in Goroutines /\ Tracked(r, e) /\ r[1] \in Emissions
    BY <1>9, TrackedNow, GoroutineType DEF Goroutines
  <2>2. CASE r = p
    <3>1. Nowhere(e) /\ HeldOnce(p, e)
      BY <1>1, <2>1, <2>2 DEF Tracked
    <3>2. PICK i \in Held(p) :
            emitted[p[1]][i] = e /\ \A j \in Held(p) : emitted[p[1]][j] = e => j = i
      BY <3>1 DEF HeldOnce
    <3>3. /\ Len(Filtered(p)) = kept[p] - 1
          /\ \A j \in 1..Len(Filtered(p)) : Filtered(p)[j] = emitted[p[1]][j]
      BY <1>1, FilteredType DEF PipelineInv
    <3>4. Held(p) = 1..Len(Filtered(p))
      <4>1. p[1] \in 1..Len(emitted) /\ emitted[p[1]] \in Seq(Cells)
        BY <1>1, BusyIsEmitted
      <4>2. kept[p] <= Len(emitted[p[1]]) + 1 /\ kept[p] \in Nat /\ Len(emitted[p[1]]) \in Nat
        BY <1>1, <4>1 DEF PipelineInv, Sound, Locals
      <4> QED
        BY <1>1, <3>3, <4>2 DEF Held
    <3>5. cached + i \in 1..cached' /\ Array'[cached + i] = e
      BY <1>5, <3>2, <3>3, <3>4
    <3>6. ASSUME NEW j \in 1..cached', Array'[j] = e PROVE j = cached + i
      <4>1. CASE j \in 1..cached
        BY <1>5, <3>1, <3>6, <4>1 DEF Nowhere, NotCached
      <4>2. CASE j - cached \in 1..Len(Filtered(p))
        <5>1. Array'[cached + (j - cached)] = Filtered(p)[j - cached] /\ cached + (j - cached) = j
          BY <1>5, <3>6, <4>2
        <5>2. emitted[p[1]][j - cached] = e
          BY <3>3, <3>6, <4>2, <5>1
        <5>3. j - cached = i
          BY <3>2, <3>4, <4>2, <5>2
        <5> QED
          BY <1>5, <3>6, <5>3
      <4> QED
        BY <1>6, <3>6, <4>1, <4>2
    <3>7. NotInBatch(e)' /\ handled'[e] = 0
      BY <1>1, <1>8, <3>1 DEF Nowhere
    <3>8. CachedOnce(e)'
      BY <3>5, <3>6, <3>7 DEF CachedOnce
    <3> QED
      BY <1>2, <2>2, <3>8 DEF Tracked, SomewhereOnce
  <2>3. CASE r # p
    <3>1. r[1] # p[1]
      BY <1>4, <1>9, <2>3, GoroutineType
    <3>2. \A j \in 1..Len(Filtered(p)) : Filtered(p)[j] # e
      BY <1>1, <1>4, <1>9, <2>1, <3>1, AppendsOwn
    <3>3. \A i \in 1..cached' : Array'[i] = e => i \in 1..cached /\ Array[i] = e
      <4> SUFFICES ASSUME NEW i \in 1..cached', Array'[i] = e PROVE i \in 1..cached /\ Array[i] = e
        OBVIOUS
      <4>1. CASE i \in 1..cached
        BY <1>5, <4>1
      <4>2. CASE i - cached \in 1..Len(Filtered(p))
        <5>1. Array'[cached + (i - cached)] = Filtered(p)[i - cached] /\ cached + (i - cached) = i
          BY <1>5, <4>2
        <5> QED
          BY <3>2, <4>2, <5>1
      <4> QED
        BY <1>6, <4>1, <4>2
    <3>4. NotCached(e)' <=> NotCached(e)
      BY <1>5, <1>7, <3>3 DEF NotCached
    <3>5. CachedOnce(e) => CachedOnce(e)'
      BY <1>1, <1>5, <1>7, <1>8, <3>3 DEF CachedOnce
    <3>6. InBatchOnce(e) => InBatchOnce(e)'
      BY <1>1, <1>3, <1>5, <3>4 DEF InBatchOnce, readVars
    <3>7. (Nowhere(e) => Nowhere(e)') /\ (SomewhereOnce(e) => SomewhereOnce(e)')
      BY <1>1, <1>8, <3>4, <3>5, <3>6 DEF Nowhere, SomewhereOnce, GivenOnce
    <3>8. pc'[r] = pc[r] /\ HeldOnce(r, e)' = HeldOnce(r, e)
      BY <1>1, <1>2, <2>1, <2>3, HeldSame DEF readVars
    <3> QED
      BY <2>1, <3>7, <3>8 DEF Tracked
  <2> QED
    BY <2>2, <2>3
<1> QED
  BY <1>9, TrackedNext

\* A goroutine that is not filtering keeps an event's places: what is left to show.
LEMMA TrackedMoves ==
  ASSUME AllTracked, UNCHANGED <<emitted, kept>>, NEW p \in Goroutines,
         pc[p] \in {"take", "wait", "apply"}, pc'[p] \in {"wait", "done", "apply"},
         \A q \in Goroutines : q # p => pc'[q] = pc[q] /\ at'[q] = at[q],
         \A e \in OrderEvents : /\ Nowhere(e) => Nowhere(e)'
                                /\ SomewhereOnce(e) => SomewhereOnce(e)'
  PROVE  AllTracked'
<1>1. ASSUME NEW r \in Callbacks, NEW e \in OrderEvents, r[2] = 1,
             Times(e, Transactions[r[1]]) = 1
      PROVE  Tracked(r, e)'
  <2>1. r \in Goroutines /\ Tracked(r, e)
    BY <1>1, TrackedNow DEF Goroutines
  <2>2. CASE r = p
    BY <2>1, <2>2 DEF Tracked
  <2>3. CASE r # p
    <3>1. pc'[r] = pc[r] /\ HeldOnce(r, e)' = HeldOnce(r, e)
      BY <2>1, <2>3, HeldSame
    <3> QED
      BY <2>1, <3>1 DEF Tracked
  <2> QED
    BY <2>2, <2>3
<1> QED
  BY <1>1, TrackedNext

LEMMA OnceAfterTake ==
  ASSUME PipelineInv, AllTracked, NEW p \in Goroutines, Take(p)
  PROVE  AllTracked'
<1>1. /\ pc[p] \in {"take", "wait"} /\ UNCHANGED <<emitted, arrays, at, kept, handled>>
      /\ \/ pc' = [pc EXCEPT ![p] = Rest(p)] /\ UNCHANGED <<batch, cached>>
         \/ /\ cached # 0 /\ cached' = 0 /\ pc' = [pc EXCEPT ![p] = "apply"]
            /\ batch' = [batch EXCEPT ![p] = [array |-> Len(arrays), length |-> cached]]
  BY DEF Take
<1>2. /\ pc'[p] \in {"wait", "done", "apply"}
      /\ \A q \in Goroutines : q # p => pc'[q] = pc[q] /\ at'[q] = at[q] /\ batch'[q] = batch[q]
  BY <1>1 DEF PipelineInv, Locals, Rest
<1>3. Array' = Array
  BY <1>1 DEF Array
<1>4. ASSUME pc' = [pc EXCEPT ![p] = Rest(p)], UNCHANGED <<batch, cached>>, NEW e
      PROVE  Nowhere(e)' = Nowhere(e) /\ SomewhereOnce(e)' = SomewhereOnce(e)
  <2>1. pc'[p] # "apply"
    BY <1>4 DEF PipelineInv, Locals, Rest
  <2>2. \A q \in Goroutines : Unread(q)' = Unread(q) /\ (Unread(q) # {} => batch'[q] = batch[q])
    BY <1>1, <1>2, <1>4, <2>1, UnreadSame
  <2> QED
    BY <1>1, <1>4, <2>2, PlacesSame
<1>5. ASSUME cached # 0, cached' = 0, pc' = [pc EXCEPT ![p] = "apply"],
             batch' = [batch EXCEPT ![p] = [array |-> Len(arrays), length |-> cached]], NEW e
      PROVE  (Nowhere(e) => Nowhere(e)') /\ (SomewhereOnce(e) => SomewhereOnce(e)')
  <2>1. /\ pc'[p] = "apply" /\ at'[p] = 1
        /\ batch'[p].array = Len(arrays) /\ batch'[p].length = cached
    BY <1>1, <1>5 DEF PipelineInv, Locals, Sound
  <2>2. Unread(p) = {} /\ Unread(p)' = 1..cached
    BY <1>1, <2>1 DEF Unread
  <2>3. Array = arrays[Len(arrays)]
    BY <1>5, ArrayType DEF PipelineInv
  <2>4. \A i \in Unread(p)' : arrays'[batch'[p].array][i] = Array[i]
    BY <1>1, <2>1, <2>3
  <2>5. \A q \in Goroutines : q # p => Unread(q)' = Unread(q)
    BY <1>2, UnreadSame
  <2>6. \A q \in Goroutines : q # p => \A i \in Unread(q) :
          arrays'[batch'[q].array][i] = arrays[batch[q].array][i]
    BY <1>1, <1>2
  <2>7. NotCached(e)'
    BY <1>5 DEF NotCached
  <2>8. NotCached(e) /\ NotInBatch(e) => NotInBatch(e)'
    <3> SUFFICES ASSUME NotCached(e), NotInBatch(e), NEW q \in Goroutines, NEW i \in Unread(q)'
                 PROVE  arrays'[batch'[q].array][i] # e
      BY DEF NotInBatch
    <3>1. CASE q = p
      <4>1. \A j \in Unread(p)' : arrays'[batch'[p].array][j] # e
        BY <2>2, <2>4 DEF NotCached
      <4> QED
        BY <3>1, <4>1
    <3>2. CASE q # p
      <4>1. i \in Unread(q)
        BY <2>5, <3>2
      <4> QED
        BY <2>6, <3>2, <4>1 DEF NotInBatch
    <3> QED
      BY <3>1, <3>2
  <2>9. CachedOnce(e) => InBatchOnce(e)'
    <3> SUFFICES ASSUME CachedOnce(e) PROVE InBatchOnce(e)'
      OBVIOUS
    <3>1. PICK i \in 1..cached : Array[i] = e /\ \A j \in 1..cached : Array[j] = e => j = i
      BY DEF CachedOnce
    <3>2. i \in Unread(p)' /\ arrays'[batch'[p].array][i] = e
      BY <2>2, <2>4, <3>1
    <3>3. ASSUME NEW q \in Goroutines, NEW j \in Unread(q)', arrays'[batch'[q].array][j] = e
          PROVE  q = p /\ j = i
      <4>1. CASE q = p
        BY <2>2, <2>4, <3>1, <3>3, <4>1
      <4>2. CASE q # p
        BY <2>5, <2>6, <3>3, <4>2 DEF CachedOnce, NotInBatch
      <4> QED
        BY <4>1, <4>2
    <3>4. handled'[e] = 0
      BY <1>1 DEF CachedOnce
    <3> QED
      BY <2>7, <3>2, <3>3, <3>4 DEF InBatchOnce
  <2>10. InBatchOnce(e) => InBatchOnce(e)'
    <3> SUFFICES ASSUME InBatchOnce(e) PROVE InBatchOnce(e)'
      OBVIOUS
    <3>1. PICK o \in Goroutines : \E i \in Unread(o) :
            /\ arrays[batch[o].array][i] = e
            /\ \A q \in Goroutines : \A j \in Unread(q) :
                 arrays[batch[q].array][j] = e => q = o /\ j = i
      BY DEF InBatchOnce
    <3>2. PICK i \in Unread(o) :
            /\ arrays[batch[o].array][i] = e
            /\ \A q \in Goroutines : \A j \in Unread(q) :
                 arrays[batch[q].array][j] = e => q = o /\ j = i
      BY <3>1
    <3>3. o # p /\ i \in Unread(o)' /\ arrays'[batch'[o].array][i] = e
      BY <2>2, <2>5, <2>6, <3>2
    <3>4. ASSUME NEW q \in Goroutines, NEW j \in Unread(q)', arrays'[batch'[q].array][j] = e
          PROVE  q = o /\ j = i
      <4>1. CASE q = p
        BY <2>2, <2>4, <3>4, <4>1 DEF InBatchOnce, NotCached
      <4>2. CASE q # p
        BY <2>5, <2>6, <3>2, <3>4, <4>2
      <4> QED
        BY <4>1, <4>2
    <3>5. handled'[e] = 0
      BY <1>1 DEF InBatchOnce
    <3> QED
      BY <2>7, <3>3, <3>4, <3>5 DEF InBatchOnce
  <2> QED
    BY <1>1, <2>7, <2>8, <2>9, <2>10 DEF Nowhere, SomewhereOnce, GivenOnce
<1>6. \A e \in OrderEvents : (Nowhere(e) => Nowhere(e)') /\ (SomewhereOnce(e) => SomewhereOnce(e)')
  BY <1>1, <1>4, <1>5
<1> QED
  BY <1>1, <1>2, <1>6, TrackedMoves

LEMMA OnceAfterApply ==
  ASSUME PipelineInv, AllTracked, ~crashed', NEW p \in Goroutines, Apply(p)
  PROVE  AllTracked'
<1> DEFINE event == arrays[batch[p].array][at[p]]
           last == at[p] = batch[p].length
<1>1. /\ pc[p] = "apply" /\ UNCHANGED <<emitted, cached, kept, arrays>>
      /\ event # None
      /\ handled' = [handled EXCEPT ![event] = @ + 1]
      /\ at' = [at EXCEPT ![p] = IF last THEN 1 ELSE @ + 1]
      /\ pc' = [pc EXCEPT ![p] = IF last THEN Rest(p) ELSE @]
      /\ batch' = [batch EXCEPT ![p] = IF last THEN NoBatch ELSE @]
  BY DEF Apply, cacheVars
<1>2. /\ at[p] \in Nat \ {0} /\ batch[p].length \in Nat /\ at[p] <= batch[p].length
      /\ event \in Cells
  <2>1. /\ batch[p].array \in DOMAIN arrays /\ at[p] \in Nat \ {0} /\ batch[p].length \in Nat
        /\ at[p] <= batch[p].length /\ batch[p].length <= Len(arrays[batch[p].array])
        /\ arrays \in Seq(Seq(Cells))
    BY <1>1 DEF PipelineInv, BatchOK, Locals, Batches, Globals
  <2>2. arrays[batch[p].array] \in Seq(Cells)
    BY <2>1
  <2>3. at[p] \in 1..Len(arrays[batch[p].array])
    BY <2>1, <2>2
  <2> QED
    BY <2>1, <2>2, <2>3
<1>3. event \in Events
  BY <1>1, <1>2 DEF Cells
<1>4. /\ pc'[p] \in {"wait", "done", "apply"}
      /\ IF last THEN pc'[p] # "apply"
                 ELSE pc'[p] = "apply" /\ at'[p] = at[p] + 1 /\ batch'[p] = batch[p]
      /\ \A q \in Goroutines : q # p => pc'[q] = pc[q] /\ at'[q] = at[q] /\ batch'[q] = batch[q]
  BY <1>1 DEF PipelineInv, Locals, Rest
<1>5. at[p] \in Unread(p)
  BY <1>1, <1>2 DEF Unread
<1>6. Unread(p)' = Unread(p) \ {at[p]} /\ (Unread(p)' # {} => batch'[p] = batch[p])
  BY <1>1, <1>2, <1>4 DEF Unread
<1>7. \A q \in Goroutines : q # p => Unread(q)' = Unread(q)
  BY <1>4, UnreadSame
<1>8. /\ \A q \in Goroutines : Unread(q)' \subseteq Unread(q)
      /\ \A q \in Goroutines : \A i \in Unread(q)' :
           /\ arrays'[batch'[q].array][i] = arrays[batch[q].array][i]
           /\ q # p \/ i # at[p]
      /\ \A q \in Goroutines : \A i \in Unread(q) : i \in Unread(q)' \/ (q = p /\ i = at[p])
  BY <1>1, <1>4, <1>6, <1>7
<1>9. arrays[batch[p].array][at[p]] = event
  OBVIOUS
<1>10. /\ handled'[event] = handled[event] + 1
       /\ \A e \in Events : e # event => handled'[e] = handled[e]
  BY <1>1, <1>3 DEF PipelineInv, Globals
<1> HIDE DEF event, last
<1>11. ASSUME NEW e \in OrderEvents
       PROVE  (Nowhere(e) => Nowhere(e)') /\ (SomewhereOnce(e) => SomewhereOnce(e)')
  <2>1. e \in Events
    BY PipelineAssumption DEF PipelineAssumption
  <2>2. NotCached(e)' <=> NotCached(e)
    BY <1>1 DEF NotCached, Array
  <2>3. NotInBatch(e) => NotInBatch(e)'
    BY <1>8 DEF NotInBatch
  <2>4. NotInBatch(e) => e # event
    BY <1>5, <1>9 DEF NotInBatch
  <2>5. NotInBatch(e) => handled'[e] = handled[e]
    BY <1>10, <2>1, <2>4
  <2>6. CachedOnce(e) => CachedOnce(e)'
    BY <1>1, <2>3, <2>5 DEF CachedOnce, Array
  <2>7. InBatchOnce(e) => SomewhereOnce(e)'
    <3> SUFFICES ASSUME InBatchOnce(e) PROVE SomewhereOnce(e)'
      OBVIOUS
    <3>1. PICK o \in Goroutines : \E i \in Unread(o) :
            /\ arrays[batch[o].array][i] = e
            /\ \A q \in Goroutines : \A j \in Unread(q) :
                 arrays[batch[q].array][j] = e => q = o /\ j = i
      BY DEF InBatchOnce
    <3>2. PICK i \in Unread(o) :
            /\ arrays[batch[o].array][i] = e
            /\ \A q \in Goroutines : \A j \in Unread(q) :
                 arrays[batch[q].array][j] = e => q = o /\ j = i
      BY <3>1
    <3>3. NotCached(e)' /\ handled[e] = 0
      BY <2>2 DEF InBatchOnce
    <3>4. CASE e = event
      <4>1. o = p /\ i = at[p]
        BY <1>5, <1>9, <3>2, <3>4
      <4>2. NotInBatch(e)'
        BY <1>8, <3>2, <4>1 DEF NotInBatch
      <4>3. handled'[e] = 1
        BY <1>10, <3>3, <3>4
      <4> QED
        BY <3>3, <4>2, <4>3 DEF SomewhereOnce, GivenOnce
    <3>5. CASE e # event
      <4>1. i \in Unread(o)' /\ arrays'[batch'[o].array][i] = e
        BY <1>8, <1>9, <3>2, <3>5
      <4>2. \A q \in Goroutines : \A j \in Unread(q)' :
              arrays'[batch'[q].array][j] = e => q = o /\ j = i
        BY <1>8, <3>2
      <4>3. handled'[e] = 0
        BY <1>10, <2>1, <3>3, <3>5
      <4>4. InBatchOnce(e)'
        BY <3>3, <4>1, <4>2, <4>3 DEF InBatchOnce
      <4> QED
        BY <4>4 DEF SomewhereOnce
    <3> QED
      BY <3>4, <3>5
  <2> QED
    BY <2>2, <2>3, <2>5, <2>6, <2>7 DEF Nowhere, SomewhereOnce, GivenOnce
<1> QED
  BY <1>1, <1>4, <1>11, TrackedMoves

LEMMA OnceInitially == Init => OnceInv
<1> SUFFICES ASSUME Init PROVE OnceInv
  OBVIOUS
<1>1. Origins
  BY DEF Init, Origins
<1>2. \A e \in Events : Nowhere(e)
  BY DEF Init, Nowhere, NotCached, NotInBatch, Unread
<1>3. OrderEvents \subseteq Events
  BY PipelineAssumption DEF PipelineAssumption
<1>4. \A p \in Callbacks : pc[p] = "idle"
  BY DEF Init, Goroutines
<1>5. AllTracked
  BY <1>2, <1>3, <1>4 DEF AllTracked, Called, Tracked
<1> QED
  BY <1>1, <1>5 DEF OnceInv

\* Nothing revives the program, removes a listener or undoes an overwriting.
LEMMA NoWayBack ==
  ASSUME PipelineInv, [Next]_vars
  PROVE  (crashed => crashed') /\ (overwritten => overwritten') /\ listeners \in Nat
         /\ (listeners' = listeners \/ listeners' = listeners + 1)
<1>1. listeners \in Nat /\ crashed \in BOOLEAN /\ overwritten \in BOOLEAN
  BY GoroutineType DEF PipelineInv, Globals
<1>2. CASE UNCHANGED vars
  BY <1>1, <1>2 DEF vars, cacheVars
<1>3. CASE Subscribe \/ Unsubscribe \/ HandleTxLogs
  BY <1>1, <1>3 DEF Subscribe, Unsubscribe, HandleTxLogs, cacheVars
<1>4. ASSUME NEW p \in Goroutines, FilterCell(p) \/ FilterEnds(p) \/ Pend(p) \/ CheckFull(p)
                                   \/ Take(p) \/ Apply(p) \/ TickerEnds(p)
      PROVE  /\ (crashed => crashed') /\ (overwritten => overwritten')
             /\ listeners' = listeners
  BY <1>1, <1>4 DEF FilterCell, FilterEnds, Pend, CheckFull, Take, Apply, TickerEnds, cacheVars
<1> QED
  BY <1>1, <1>2, <1>3, <1>4 DEF Next, Step, Listener, HandleEvents

LEMMA OnceKept ==
  ASSUME EventsApart, PipelineInv, OnceInv, [Next]_vars
  PROVE  OnceInv'
<1>1. Origins'
  BY OriginsKept DEF OnceInv
<1> SUFFICES ASSUME Alive', listeners' <= 1, ~overwritten' PROVE AllTracked'
  BY <1>1 DEF OnceInv
<1>2. ~crashed' /\ listeners <= 1 /\ Origins /\ AllTracked
  BY NoWayBack DEF OnceInv, Alive
<1>3. CASE UNCHANGED vars
  BY <1>2, <1>3
  DEF AllTracked, Called, Tracked, Nowhere, SomewhereOnce, CachedOnce, InBatchOnce, GivenOnce,
      NotCached, NotInBatch, HeldOnce, Held, Unread, Array, vars, cacheVars, readVars
<1> QED
  BY <1>2, <1>3, OnceAfterOther, OnceAfterHandleTxLogs, OnceAfterFilterCell, OnceAfterFilterEnds,
     OnceAfterPend, OnceAfterTake, OnceAfterApply
  DEF Next, Step, Listener, HandleEvents

\* An order event goes from the callback to the cache, from the cache to one batch
\* and from there to the book, and is never in two of these places nor in none, as
\* long as one listener is registered and no append has written into a batch that
\* was being read: whatever the goroutines' order, the growth of eventCache's array
\* and the sizes.  Events are pointers, so no two transactions log the same one.
THEOREM EventsAreInOnePlace ==
  ASSUME EventsApart
  PROVE  Spec => []OnceUnlessOverwritten
<1>1. PipelineInv /\ OnceInv /\ [Next]_vars => OnceInv'
  BY OnceKept
<1>2. PipelineInv /\ OnceInv => OnceUnlessOverwritten
  BY OnceInvMeans
<1> QED
  BY <1>1, <1>2, OnceInitially, PipelineInvAlways, PTL DEF Spec
=============================================================================
