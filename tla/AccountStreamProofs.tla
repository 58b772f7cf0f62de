------------------------- MODULE AccountStreamProofs -------------------------
(***************************************************************************)
(* Proofs about AccountStream, for any number of streams, writes and       *)
(* deaths: the state is well-typed, and no stream stays open unattended.   *)
(*                                                                         *)
(* The second rests on a count.  A ticker nobody cancelled, and a process  *)
(* between Cancel and the end of Arm, are responsible.  A Cancel makes one *)
(* that was responsible stop being it and its own process start; an Arm    *)
(* does the reverse; so two stay two, and with one only the processes have *)
(* never overlapped and nothing but the subscription can be open.  The     *)
(* program's Unsubscribe takes one away, once.                             *)
(***************************************************************************)
EXTENDS AccountStream, FiniteSetTheorems, TLAPS

-----------------------------------------------------------------------------
(* The invariant.                                                          *)

ProgramAt == {"new", "arm", "subscribed", "close", "unsubscribed"}
TickerAt == {"none", "wait", "timeout", "close", "asleep", "arm", "stopped"}

\* Where the program and the tickers can be, and that cancel is up to date.
Shape ==
  /\ pc[Program] \in ProgramAt
  /\ \A t \in Tickers : pc[t] \in TickerAt
  /\ \A t \in Tickers : pc[t] = "stopped" => t \in cancelled
  /\ cancel \notin cancelled

\* Every stream has a ticker, or a process that is about to start one.
Arming == {p \in Processes : pc[p] = "arm"}
ArmCount == Cardinality(Arming) = opened - armed

Live == (1..armed) \ cancelled
Busy == {t \in Tickers : pc[t] \in {"close", "asleep", "arm"}}
          \cup {p \in {Program} : pc[p] = "arm"}

One == Live # {} \/ Busy # {}
Two == \/ \E a, b \in Live : a # b
       \/ \E a, b \in Busy : a # b
       \/ Live # {} /\ Busy # {}

\* The only one responsible, and what is open then.
Alone ==
  /\ open \subseteq {stream}
  /\ \/ Live = {cancel} /\ Busy = {}
     \/ /\ Live = {} /\ cancel = 0
        /\ \E p \in Busy : Busy = {p} /\ (pc[p] = "asleep" => open = {})

Responsible ==
  /\ pc[Program] = "new" => /\ open = {} /\ cancel = 0 /\ opened = 0
                            /\ \A t \in Tickers : pc[t] = "none"
  /\ pc[Program] \in {"arm", "subscribed"} => Two \/ Alone
  /\ pc[Program] = "close" => One \/ open \subseteq {stream}
  /\ pc[Program] = "unsubscribed" => One \/ open = {}

StreamInv == StreamTypeOK /\ Shape /\ ArmCount /\ Responsible

-----------------------------------------------------------------------------
(* Sets.                                                                   *)

LEMMA ProcessesAreFinite == IsFiniteSet(Processes) /\ Processes = 0..MaxStreams
<1>1. Processes = 0..MaxStreams
  BY StreamAssumption DEF StreamAssumption, Processes, Program, Tickers
<1>2. IsFiniteSet(0..MaxStreams)
  BY StreamAssumption, FS_Interval DEF StreamAssumption
<1> QED
  BY <1>1, <1>2

\* As long as somebody arms, there is a ticker left to start.
LEMMA RoomToArm ==
  ASSUME StreamTypeOK, ArmCount, NEW p \in Processes, pc[p] = "arm"
  PROVE  armed < opened /\ armed + 1 \in Tickers
<1>1. IsFiniteSet(Arming)
  BY ProcessesAreFinite, FS_Subset DEF Arming
<1>2. Arming # {}
  BY DEF Arming
<1>3. Cardinality(Arming) \in Nat /\ Cardinality(Arming) # 0
  BY <1>1, <1>2, FS_CardinalityType, FS_EmptySet
<1> QED
  BY <1>3, StreamAssumption DEF ArmCount, StreamTypeOK, StreamAssumption, Tickers

-----------------------------------------------------------------------------
(* Types.                                                                  *)

\* The steps of the processes, and the steps that leave them alone.
ProcessStep == \E p \in Processes : Open(p) \/ Arm(p) \/ Cancel(p) \/ Close(p)
TickerStep == \E t \in Tickers : Tick(t) \/ Stop(t)
ReaderStep == \E s \in Streams : Receive(s) \/ Filter(s) \/ Store(s) \/ OnChange(s)
FeedStep == Write \/ \E s \in Streams : Die(s)

LEMMA StepsOfNext ==
  ASSUME [Next]_feedVars
  PROVE  ProcessStep \/ TickerStep \/ ReaderStep \/ FeedStep \/ UNCHANGED feedVars
BY DEF Next, StreamNext, Continue, Reader, Ticker, ProcessStep, TickerStep, ReaderStep,
   FeedStep, Processes

\* Types are kept by the chain and by the readers.
LEMMA TypeKeptByReaders ==
  ASSUME StreamTypeOK, ReaderStep \/ FeedStep
  PROVE  StreamTypeOK'
<1> USE StreamAssumption DEF StreamTypeOK, tickerVars, readerVars, streamVars, StreamAssumption
<1>1. CASE Write
  <2>1. PICK u \in Updates : written' = Append(written, u)
    BY <1>1 DEF Write
  <2>2. written' \in Seq(Updates) /\ Len(written') = Len(written) + 1 /\ Len(written') <= MaxWrites
    BY <1>1, <2>1 DEF Write
  <2>3. read' \in [Streams -> 0..Len(written')]
    BY <1>1, <2>2 DEF Write
  <2> QED
    BY <1>1, <2>2, <2>3 DEF Write
<1>2. CASE \E s \in Streams : Die(s)
  BY <1>2 DEF Die
<1>3. ASSUME NEW s \in Streams, Receive(s) PROVE StreamTypeOK'
  <2>1. read[s] + 1 \in 1..Len(written) /\ written[read[s] + 1] \in Updates
    BY <1>3 DEF Receive
  <2>2. read' \in [Streams -> 0..Len(written)] /\ hand' \in [Streams -> Updates \cup {None}]
    BY SMTT(30), <1>3, <2>1 DEF Receive
  <2>3. \A x \in Streams : hand'[x] = None <=> at'[x] = "recv"
    BY <1>3, <2>1 DEF Receive
  <2> QED
    BY <1>3, <2>2, <2>3 DEF Receive
<1>4. ASSUME NEW s \in Streams, Filter(s) PROVE StreamTypeOK'
  BY <1>4 DEF Filter
<1>5. ASSUME NEW s \in Streams, Store(s) PROVE StreamTypeOK'
  BY <1>5 DEF Store
<1>6. ASSUME NEW s \in Streams, OnChange(s) PROVE StreamTypeOK'
  BY <1>6 DEF OnChange
<1> QED
  BY <1>1, <1>2, <1>3, <1>4, <1>5, <1>6 DEF ReaderStep, FeedStep

\* ... and by the processes, which start no more tickers than streams.
LEMMA TypeKeptByProcesses ==
  ASSUME StreamTypeOK, Shape, ArmCount, ProcessStep \/ TickerStep
  PROVE  StreamTypeOK' /\ Shape'
<1> USE StreamAssumption DEF StreamTypeOK, Shape, tickerVars, readerVars, streamVars,
        StreamAssumption, Processes, Tickers, Streams, Program, ProgramAt, TickerAt
<1>1. ASSUME NEW p \in Processes, Open(p) PROVE StreamTypeOK' /\ Shape'
  <2>1. opened' = opened + 1 /\ opened' \in 1..MaxStreams /\ stream' = opened'
    BY <1>1 DEF Open
  <2>2. read' \in [Streams -> 0..Len(written)]
    BY <1>1 DEF Open
  <2>3. pc' = [pc EXCEPT ![p] = "arm"] /\ pc[p] \notin {"none", "stopped"}
    BY <1>1 DEF Open
  <2> QED
    BY SMTT(30), <1>1, <2>1, <2>2, <2>3 DEF Open
<1>2. ASSUME NEW p \in Processes, Arm(p) PROVE StreamTypeOK' /\ Shape'
  <2>1. armed < opened /\ armed + 1 \in Tickers
    BY <1>2, RoomToArm DEF Arm
  <2>2. pc[armed + 1] = "none" /\ armed + 1 # p
    BY <1>2, <2>1 DEF Arm
  <2>3. \A q \in Processes : pc'[q] = IF q = armed + 1 THEN "wait"
                                       ELSE IF q = p THEN IF p = Program THEN "subscribed"
                                                          ELSE "wait"
                                       ELSE pc[q]
    BY <1>2, <2>1, <2>2 DEF Arm
  <2>4. pc' \in [Processes -> ProgramAt \cup TickerAt]
    BY <1>2 DEF Arm
  <2>5. cancelled' = cancelled /\ armed' = armed + 1 /\ cancel' = armed + 1
    BY <1>2 DEF Arm
  <2>6. ASSUME NEW t \in Tickers
        PROVE  /\ pc'[t] = "none" <=> t > armed'
               /\ pc'[t] \in TickerAt
               /\ pc'[t] = "stopped" => t \in cancelled'
    <3>1. CASE t = armed + 1
      BY <3>1, <2>1, <2>3, <2>5
    <3>2. CASE t # armed + 1 /\ t = p
      <4>1. t \in Processes /\ t # Program /\ pc[t] = "arm"
        BY <3>2, <1>2 DEF Arm
      <4>2. pc'[t] = "wait"
        BY <3>2, <4>1, <2>3
      <4> QED
        BY <3>2, <4>1, <4>2, <2>1, <2>5
    <3>3. CASE t # armed + 1 /\ t # p
      <4>1. pc'[t] = pc[t]
        BY <3>3, <2>3
      <4> QED
        BY <3>3, <4>1, <2>5
    <3> QED
      BY <3>1, <3>2, <3>3
  <2>7. pc'[Program] \in ProgramAt
    BY <2>1, <2>3
  <2>8. cancel' \notin cancelled'
    BY <2>5
  <2>9. UNCHANGED <<written, stream, unsubscribing, readerVars, streamVars>>
    BY <1>2 DEF Arm
  <2>10. Shape'
    BY <2>6, <2>7, <2>8
  <2>11. cancelled' \subseteq 1..armed' /\ cancel' \in 0..armed' /\ armed' \in 0..opened'
    BY <2>1, <2>5, <2>9
  <2> QED
    BY <2>4, <2>6, <2>9, <2>10, <2>11
<1>3. ASSUME NEW p \in Processes, Cancel(p) PROVE StreamTypeOK' /\ Shape'
  BY <1>3 DEF Cancel
<1>4. ASSUME NEW p \in Processes, Close(p) PROVE StreamTypeOK' /\ Shape'
  <2>1. pc' = [pc EXCEPT ![p] = IF p = Program THEN "unsubscribed" ELSE "asleep"]
    BY <1>4 DEF Close
  <2>2. \A q \in Processes : q # p => pc'[q] = pc[q]
    BY <2>1
  <2>3. pc[p] = "close" /\ pc'[p] = IF p = Program THEN "unsubscribed" ELSE "asleep"
    BY <1>4, <2>1 DEF Close
  <2>4. pc' \in [Processes -> ProgramAt \cup TickerAt]
    BY <2>1
  <2>5. UNCHANGED <<written, stream, cancel, armed, cancelled, received, buffer, hand, at,
                    opened, dead, read>> /\ open' \subseteq open /\ unsubscribing' = FALSE
    BY <1>4 DEF Close
  <2>6. ASSUME NEW t \in Tickers
        PROVE  /\ pc'[t] = "none" <=> t > armed'
               /\ pc'[t] \in TickerAt
               /\ pc'[t] = "stopped" => t \in cancelled'
    BY <2>2, <2>3, <2>5
  <2>7. pc'[Program] \in ProgramAt
    BY <2>2, <2>3
  <2> QED
    BY <2>4, <2>5, <2>6, <2>7
<1>5. ASSUME NEW t \in Tickers, Tick(t) PROVE StreamTypeOK' /\ Shape'
  BY <1>5 DEF Tick
<1>6. ASSUME NEW t \in Tickers, Stop(t) PROVE StreamTypeOK' /\ Shape'
  BY <1>6 DEF Stop
<1> QED
  BY <1>1, <1>2, <1>3, <1>4, <1>5, <1>6 DEF ProcessStep, TickerStep

-----------------------------------------------------------------------------
(* The count of those about to start a ticker.                             *)

LEMMA ArmCountKept ==
  ASSUME StreamInv, [Next]_feedVars
  PROVE  ArmCount'
<1> USE DEF StreamInv, StreamTypeOK, tickerVars, streamVars, readerVars
<1>1. IsFiniteSet(Arming) /\ opened \in Nat /\ armed \in Nat
  BY ProcessesAreFinite, FS_Subset, StreamAssumption DEF Arming, StreamAssumption
<1>2. ASSUME NEW p \in Processes, Open(p) PROVE ArmCount'
  <2>1. Arming' = Arming \cup {p} /\ p \notin Arming
    BY <1>2 DEF Open, Arming
  <2>2. opened' = opened + 1 /\ armed' = armed
    BY <1>2 DEF Open
  <2>3. Cardinality(Arming') = Cardinality(Arming) + 1
    BY <1>1, <2>1, FS_AddElement
  <2> QED
    BY <1>1, <2>2, <2>3 DEF ArmCount
<1>3. ASSUME NEW p \in Processes, Arm(p) PROVE ArmCount'
  <2>1. armed + 1 \in Tickers /\ armed + 1 \in Processes
    BY <1>3, RoomToArm DEF Arm, Processes
  <2>2. pc[armed + 1] = "none"
    BY <1>1, <2>1
  <2>3. Arming' = Arming \ {p} /\ p \in Arming
    BY <1>3, <2>1, <2>2 DEF Arm, Arming
  <2>4. armed' = armed + 1 /\ opened' = opened
    BY <1>3 DEF Arm
  <2>5. Cardinality(Arming') = Cardinality(Arming) - 1
    BY <1>1, <2>3, FS_RemoveElement
  <2> QED
    BY <1>1, <2>4, <2>5 DEF ArmCount
<1>4. ASSUME NEW p \in Processes, Cancel(p) \/ Close(p) PROVE ArmCount'
  <2>1. Arming' = Arming
    BY <1>4 DEF Cancel, Close, Arming
  <2> QED
    BY <1>4, <2>1 DEF Cancel, Close, ArmCount
<1>5. CASE TickerStep
  <2>1. Arming' = Arming
    BY <1>5 DEF TickerStep, Tick, Stop, Arming
  <2> QED
    BY <1>5, <2>1 DEF TickerStep, Tick, Stop, ArmCount
<1>6. CASE ReaderStep \/ FeedStep \/ UNCHANGED feedVars
  <2>1. UNCHANGED <<pc, opened, armed>>
    BY <1>6 DEF ReaderStep, FeedStep, Receive, Filter, Store, OnChange, Write, Die, feedVars
  <2> QED
    BY <2>1 DEF ArmCount, Arming
<1> QED
  BY <1>2, <1>3, <1>4, <1>5, <1>6, StepsOfNext DEF ProcessStep

-----------------------------------------------------------------------------
(* Who is responsible after a step.                                        *)

\* What cancel would stop is live.
LEMMA CancelIsLive ==
  ASSUME StreamTypeOK, Shape
  PROVE  cancel \in 0..armed /\ (cancel # 0 => cancel \in Live)
BY StreamAssumption DEF StreamTypeOK, Shape, Live, StreamAssumption

\* Cancel: whoever cancel would stop is live no more, a ticker is busy.
LEMMA AfterCancel ==
  ASSUME StreamTypeOK, NEW p \in Processes, Cancel(p)
  PROVE  /\ Live' = Live \ {cancel}
         /\ Busy' = Busy \cup ({p} \ {Program})
         /\ p \notin Busy
         /\ pc'[p] = "close" /\ \A q \in Processes : q # p => pc'[q] = pc[q]
         /\ UNCHANGED <<open, stream, opened>> /\ cancel' = 0
<1> USE DEF StreamTypeOK, Cancel, streamVars, Processes, Tickers, Program
<1>1. Live' = Live \ {cancel}
  BY StreamAssumption DEF Live, StreamAssumption
<1>2. pc' = [pc EXCEPT ![p] = "close"]
  OBVIOUS
<1>3. p \notin Busy
  BY DEF Busy
<1>4. Busy' = Busy \cup ({p} \ {Program})
  BY <1>2 DEF Busy
<1> QED
  BY <1>1, <1>2, <1>3, <1>4

LEMMA ResponsibleAfterCancel ==
  ASSUME StreamInv, NEW p \in Processes, Cancel(p)
  PROVE  Responsible'
<1> USE DEF StreamInv
<1>1. /\ Live' = Live \ {cancel}
      /\ Busy' = Busy \cup ({p} \ {Program})
      /\ p \notin Busy
      /\ pc'[p] = "close" /\ \A q \in Processes : q # p => pc'[q] = pc[q]
      /\ UNCHANGED <<open, stream, opened>> /\ cancel' = 0
  BY AfterCancel
<1>2. Program \in Processes /\ (p # Program => p \in Tickers)
  BY DEF Processes
<1>3. p = Program => pc[p] = "subscribed"
  BY DEF Cancel, Shape, ProgramAt
<1>4. p # Program => pc[p] = "timeout"
  BY <1>2 DEF Cancel, Shape, TickerAt
<1>5. CASE p = Program
  <2>1. pc'[Program] = "close" /\ (Two \/ Alone)
    BY <1>1, <1>3, <1>5 DEF Responsible
  <2>2. Two => One'
    BY <1>1, <1>5 DEF Two, One
  <2>3. Alone => open' \subseteq {stream'}
    BY <1>1 DEF Alone
  <2> QED
    BY <2>1, <2>2, <2>3 DEF Responsible
<1>6. CASE p # Program
  <2>1. pc'[Program] = pc[Program] /\ Busy' = Busy \cup {p}
    BY <1>1, <1>2, <1>6
  <2>2. One'
    BY <2>1 DEF One
  <2>3. pc[Program] # "new"
    BY <1>2, <1>4, <1>6 DEF Responsible
  <2>4. Two => Two'
    BY <1>1, <2>1 DEF Two
  <2>5. Alone => Two' \/ Alone'
    <3>1. CASE Live = {cancel} /\ Busy = {} /\ open \subseteq {stream}
      <4>1. Live' = {} /\ Busy' = {p} /\ cancel' = 0 /\ open' \subseteq {stream'}
        BY <3>1, <1>1, <2>1
      <4> QED
        BY <4>1, <1>1 DEF Alone
    <3>2. CASE \E q \in Busy : Busy = {q}
      BY <3>2, <1>1, <2>1 DEF Two
    <3> QED
      BY <3>1, <3>2 DEF Alone
  <2> QED
    BY <2>1, <2>2, <2>3, <2>4, <2>5 DEF Responsible
<1> QED
  BY <1>5, <1>6

\* Close: nothing is open but what was, and not the subscription.
LEMMA ResponsibleAfterClose ==
  ASSUME StreamInv, NEW p \in Processes, Close(p)
  PROVE  Responsible'
<1> USE DEF StreamInv
<1>1. /\ pc[p] = "close" /\ pc'[p] = IF p = Program THEN "unsubscribed" ELSE "asleep"
      /\ \A q \in Processes : q # p => pc'[q] = pc[q]
      /\ UNCHANGED <<cancel, stream, armed, cancelled, opened>> /\ open' = open \ {stream}
  BY DEF Close, StreamTypeOK
<1>2. Program \in Processes /\ (p # Program => p \in Tickers) /\ Tickers \subseteq Processes
      /\ Program \notin Tickers
  BY StreamAssumption DEF Processes, Program, Tickers
<1>3. Live' = Live
  BY <1>1 DEF Live
<1>4. Busy' = Busy
  BY <1>1, <1>2 DEF Busy
<1>5. (Two => Two') /\ (One <=> One')
  BY <1>3, <1>4 DEF Two, One
<1>6. CASE p = Program
  <2>1. pc'[Program] = "unsubscribed" /\ (One \/ open \subseteq {stream})
    BY <1>1, <1>6 DEF Responsible
  <2> QED
    BY <2>1, <1>1, <1>5 DEF Responsible
<1>7. CASE p # Program
  <2>1. p \in Busy /\ pc'[Program] = pc[Program] /\ pc'[p] = "asleep"
    BY <1>1, <1>2, <1>7 DEF Busy
  <2>2. pc[Program] # "new"
    BY <1>1, <1>2, <1>7 DEF Responsible
  <2>3. Alone => Alone'
    <3> SUFFICES ASSUME Alone PROVE Alone'
      OBVIOUS
    <3>1. Busy' = {p} /\ Live' = {} /\ cancel' = 0 /\ open \subseteq {stream}
      BY <2>1, <1>1, <1>3, <1>4 DEF Alone
    <3>2. open' = {}
      BY <3>1, <1>1
    <3> QED
      BY <3>1, <3>2 DEF Alone
  <2> QED
    BY <2>1, <2>2, <2>3, <1>1, <1>5 DEF Responsible, One
<1> QED
  BY <1>6, <1>7

\* Open: if somebody else was responsible for nothing, nothing else is open.
LEMMA ResponsibleAfterOpen ==
  ASSUME StreamInv, NEW p \in Processes, Open(p)
  PROVE  Responsible'
<1> USE DEF StreamInv
<1>1. /\ pc[p] \in {"new", "asleep"} /\ pc'[p] = "arm"
      /\ \A q \in Processes : q # p => pc'[q] = pc[q]
      /\ UNCHANGED <<cancel, armed, cancelled>> /\ open' = open \cup {stream'}
  BY DEF Open, StreamTypeOK
<1>2. Program \in Processes /\ (p # Program => p \in Tickers) /\ Tickers \subseteq Processes
      /\ Program \notin Tickers
  BY StreamAssumption DEF Processes, Program, Tickers
<1>3. Live' = Live
  BY <1>1 DEF Live
<1>4. CASE p = Program
  <2>1. pc[Program] = "new" /\ pc'[Program] = "arm"
    BY <1>1, <1>4 DEF Shape, ProgramAt
  <2>2. open = {} /\ cancel = 0 /\ opened = 0 /\ \A t \in Tickers : pc[t] = "none"
    BY <2>1 DEF Responsible
  <2>3. Live' = {}
    BY <2>2, <1>3 DEF Live, StreamTypeOK
  <2>4. Busy' = {Program}
    BY <2>1, <2>2, <1>1, <1>2, <1>4 DEF Busy
  <2>5. Alone'
    BY <2>1, <2>2, <2>3, <2>4, <1>1 DEF Alone
  <2> QED
    BY <2>1, <2>5 DEF Responsible
<1>5. CASE p # Program
  <2>1. pc[p] = "asleep" /\ p \in Tickers /\ pc'[Program] = pc[Program]
    BY <1>1, <1>2, <1>5 DEF Shape, TickerAt
  <2>2. Busy' = Busy /\ p \in Busy
    BY <2>1, <1>1, <1>2 DEF Busy
  <2>3. pc[Program] # "new"
    BY <2>1 DEF Responsible
  <2>4. Two => Two'
    BY <1>3, <2>2 DEF Two
  <2>5. Alone => Alone'
    BY <1>1, <1>3, <2>1, <2>2 DEF Alone
  <2> QED
    BY <2>1, <2>2, <2>3, <2>4, <2>5 DEF Responsible, One
<1> QED
  BY <1>4, <1>5

\* Arm: whoever was busy has become a ticker, which cancel would stop.
LEMMA ResponsibleAfterArm ==
  ASSUME StreamInv, NEW p \in Processes, Arm(p)
  PROVE  Responsible'
<1> USE DEF StreamInv
<1>0. armed + 1 \in Tickers /\ armed \in Nat
  BY RoomToArm, StreamAssumption DEF Arm, StreamTypeOK, StreamAssumption
<1>1. Program \in Processes /\ (p # Program => p \in Tickers) /\ Tickers \subseteq Processes
      /\ Program \notin Tickers
  BY StreamAssumption DEF Processes, Program, Tickers
<1>2. pc[armed + 1] = "none" /\ armed + 1 # p /\ pc[p] = "arm"
  BY <1>0 DEF Arm, StreamTypeOK
<1>3. /\ pc'[p] = IF p = Program THEN "subscribed" ELSE "wait"
      /\ pc'[armed + 1] = "wait"
      /\ \A q \in Processes : q # p /\ q # armed + 1 => pc'[q] = pc[q]
      /\ UNCHANGED <<open, stream, opened, cancelled>>
      /\ armed' = armed + 1 /\ cancel' = armed + 1
  BY <1>0, <1>1, <1>2 DEF Arm, StreamTypeOK, streamVars
<1>4. Live' = Live \cup {armed + 1} /\ armed + 1 \notin Live
  BY <1>0, <1>3 DEF Live, StreamTypeOK
<1>5. Busy' = Busy \ {p} /\ p \in Busy
  BY <1>0, <1>1, <1>2, <1>3 DEF Busy
<1>6. One'
  BY <1>4 DEF One
<1>7. Two => Two'
  BY <1>4, <1>5 DEF Two
<1>8. Alone => Alone'
  BY <1>3, <1>4, <1>5 DEF Alone
<1>9. pc[Program] # "new"
  BY <1>1, <1>2 DEF Responsible
<1>10. pc'[Program] = IF p = Program THEN "subscribed" ELSE pc[Program]
  BY <1>0, <1>1, <1>3
<1> QED
  BY <1>2, <1>6, <1>7, <1>8, <1>9, <1>10 DEF Responsible

\* Nothing else touches what Responsible speaks of.
LEMMA ResponsibleAfterOthers ==
  ASSUME StreamInv, TickerStep \/ ReaderStep \/ FeedStep \/ UNCHANGED feedVars
  PROVE  Responsible'
<1> USE DEF StreamInv
<1>1. UNCHANGED <<open, stream, opened, cancel, armed, cancelled>>
  BY DEF TickerStep, Tick, Stop, ReaderStep, FeedStep, Receive, Filter, Store, OnChange, Write,
         Die, feedVars, tickerVars, streamVars
<1>2. CASE TickerStep
  <2>1. PICK t \in Tickers : Tick(t) \/ Stop(t)
    BY <1>2 DEF TickerStep
  <2>2. pc[t] = "wait" /\ pc'[t] \in {"timeout", "stopped"}
        /\ \A q \in Processes : q # t => pc'[q] = pc[q]
    BY <2>1 DEF Tick, Stop, StreamTypeOK, Processes
  <2>3. Program \in Processes /\ Tickers \subseteq Processes /\ Program \notin Tickers
    BY StreamAssumption DEF Processes, Program, Tickers
  <2>4. pc'[Program] = pc[Program] /\ Live' = Live
    BY <1>1, <2>2, <2>3 DEF Live
  <2>5. Busy' = Busy
    BY <2>2, <2>3 DEF Busy
  <2>6. t \notin Busy
    BY <2>2, <2>3 DEF Busy
  <2>7. (Two => Two') /\ (One => One')
    BY <2>4, <2>5 DEF Two, One
  <2>8. \A q \in Busy : pc'[q] = pc[q]
    BY <2>2, <2>6 DEF Busy, Processes
  <2>9. Alone => Alone'
    BY <1>1, <2>4, <2>5, <2>8 DEF Alone
  <2>10. pc[Program] # "new"
    BY <2>2 DEF Responsible
  <2> QED
    BY <1>1, <2>4, <2>7, <2>9, <2>10 DEF Responsible
<1>3. CASE ReaderStep \/ FeedStep \/ UNCHANGED feedVars
  <2>1. pc' = pc
    BY <1>3 DEF ReaderStep, FeedStep, Receive, Filter, Store, OnChange, Write, Die, feedVars,
                tickerVars
  <2> QED
    BY <1>1, <2>1 DEF Responsible, Alone, One, Two, Live, Busy
<1> QED
  BY <1>2, <1>3

-----------------------------------------------------------------------------

LEMMA StreamInvInitially == StreamInit => StreamInv
<1> SUFFICES ASSUME StreamInit PROVE StreamInv
  OBVIOUS
<1> USE StreamAssumption DEF StreamInit, StreamAssumption, Processes, Tickers, Program, Streams
<1>1. StreamTypeOK
  <2>1. written \in Seq(Updates) /\ Len(written) = 0 /\ MaxWrites \in Nat /\ MaxStreams \in Nat
    OBVIOUS
  <2>2. pc \in [Processes -> {"new", "arm", "subscribed", "unsubscribed", "none", "wait",
                              "timeout", "close", "asleep", "stopped"}]
    OBVIOUS
  <2>3. \A t \in Tickers : pc[t] = "none" <=> t > armed
    OBVIOUS
  <2>4. read \in [Streams -> 0..Len(written)]
    BY <2>1
  <2>5. hand \in [Streams -> Updates \cup {None}] /\ buffer \in Updates \cup {None}
    OBVIOUS
  <2>6. at \in [Streams -> {"recv", "filter", "store", "change"}]
    OBVIOUS
  <2>7. \A s \in Streams : hand[s] = None <=> at[s] = "recv"
    OBVIOUS
  <2>8. stream \in 0..opened /\ cancel \in 0..armed /\ armed \in 0..opened
        /\ opened \in 0..MaxStreams
    BY <2>1
  <2>9. /\ open \subseteq 1..opened /\ dead \subseteq 1..opened /\ cancelled \subseteq 1..armed
        /\ received \in BOOLEAN /\ unsubscribing \in BOOLEAN
    OBVIOUS
  <2>10. Len(written) <= MaxWrites
    BY <2>1
  <2> HIDE DEF StreamInit
  <2> QED
    BY <2>1, <2>2, <2>3, <2>4, <2>5, <2>6, <2>7, <2>8, <2>9, <2>10 DEF StreamTypeOK
<1>2. Shape
  BY DEF Shape, ProgramAt, TickerAt
<1>3. Arming = {} /\ Cardinality({}) = 0
  BY FS_EmptySet DEF Arming
<1>4. ArmCount
  BY <1>3 DEF ArmCount
<1>5. Responsible
  BY DEF Responsible
<1> QED
  BY <1>1, <1>2, <1>4, <1>5 DEF StreamInv

LEMMA StreamInvKept ==
  ASSUME StreamInv, [Next]_feedVars
  PROVE  StreamInv'
<1>1. StreamTypeOK' /\ Shape'
  <2>1. CASE ProcessStep \/ TickerStep
    BY <2>1, TypeKeptByProcesses DEF StreamInv
  <2>2. CASE ReaderStep \/ FeedStep
    <3>1. UNCHANGED <<pc, cancel, cancelled>>
      BY <2>2 DEF ReaderStep, FeedStep, Receive, Filter, Store, OnChange, Write, Die, tickerVars
    <3> QED
      BY <2>2, <3>1, TypeKeptByReaders DEF StreamInv, Shape
  <2>3. CASE UNCHANGED feedVars
    BY <2>3 DEF StreamInv, StreamTypeOK, Shape, feedVars, tickerVars, readerVars, streamVars
  <2> QED
    BY <2>1, <2>2, <2>3, StepsOfNext
<1>2. ArmCount'
  BY ArmCountKept
<1>3. Responsible'
  BY StepsOfNext, ResponsibleAfterOpen, ResponsibleAfterArm, ResponsibleAfterCancel,
     ResponsibleAfterClose, ResponsibleAfterOthers DEF ProcessStep
<1> QED
  BY <1>1, <1>2, <1>3 DEF StreamInv

LEMMA StreamInvAlways == Spec => []StreamInv
BY StreamInvInitially, StreamInvKept, PTL DEF Spec

\* The responsible watch.
LEMMA ResponsibleWatch == StreamInv => OpenIsWatched
<1> SUFFICES ASSUME StreamInv PROVE OpenIsWatched
  OBVIOUS
<1> USE DEF StreamInv
<1>1. Program \in Processes /\ Tickers \subseteq Processes /\ pc[Program] \in ProgramAt
  BY DEF Processes, Shape
<1>2. ASSUME NEW t \in Live PROVE t \in Watchers
  <2>1. t \in Tickers /\ t <= armed /\ t \notin cancelled
    BY StreamAssumption DEF Live, StreamTypeOK, StreamAssumption, Tickers
  <2>2. pc[t] \in {"wait", "timeout", "close", "asleep", "arm"}
    BY <2>1 DEF Shape, TickerAt, StreamTypeOK, Tickers
  <2> QED
    BY <1>1, <2>1, <2>2 DEF Watchers
<1>3. Busy \subseteq Watchers
  BY <1>1 DEF Busy, Watchers
<1>4. One \/ Two \/ (Alone /\ ~(Live = {} /\ Busy = {})) => Watchers # {}
  BY <1>2, <1>3 DEF One, Two
<1>5. Alone => ~(Live = {} /\ Busy = {})
  BY DEF Alone
<1>6. CASE pc[Program] = "close"
  BY <1>6, <1>1 DEF Watchers, OpenIsWatched
<1>7. CASE pc[Program] # "close"
  BY <1>7, <1>1, <1>4, <1>5 DEF Responsible, ProgramAt, OpenIsWatched
<1> QED
  BY <1>6, <1>7

\* The state is well-typed, whatever the ticks, the deaths and the order of the
\* goroutines: no more tickers than streams are started, and a reader holds an
\* update exactly while it works on one.
THEOREM StreamIsWellTyped == Spec => []StreamTypeOK
<1>1. StreamInv => StreamTypeOK
  BY DEF StreamInv
<1> QED
  BY <1>1, StreamInvAlways, PTL

\* No stream stays open unattended, for any number of tickers that time out
\* together and wherever the program's Unsubscribe falls between their steps.
THEOREM NoStreamUnattended == Spec => []OpenIsWatched
BY StreamInvAlways, ResponsibleWatch, PTL
=============================================================================
