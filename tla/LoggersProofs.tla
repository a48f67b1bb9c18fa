---------------------------- MODULE LoggersProofs ----------------------------
(***************************************************************************)
(* The loggers that write in a thread of their own, for any nodes, times   *)
(* and numbers of transitions and sessions: what they write is what they   *)
(* were notified of, in that order, and the timestamps of the database are *)
(* keys when they are absolute.                                            *)
(***************************************************************************)
EXTENDS Loggers, SequenceTheorems, FiniteSetTheorems, TLAPS

-------------------------------------------------------------------------------
(* The inductive invariant                                                 *)

\* Nodes whose change the logger has not seen yet.
Stamped == {n \in Node : change[n].at = "stamped"}

\* A change is not older than the session, nor newer than the clock.
ClockInv ==
    /\ first <= now
    /\ \A n \in Stamped : first <= change[n].time /\ change[n].time <= now

\* While the logger lives its thread runs, and no status changes once it is destroyed.
LifeInv ==
    /\ life = "alive" => loop /\ writer # "ended"
    /\ life # "alive" => \A n \in Node : change[n].at = "none"
    /\ life = "gone" => writer = "ended"

\* The callbacks exclude each other.
OneNotifies == \A n, m \in Node : change[n].at = "notify" /\ change[m].at = "notify" => n = m

\* There is room for what is on its way, and monotonic_timestamp_ is ahead of the clock by no
\* more than one for each transition.
CountInv ==
    /\ Len(written) + Len(buffer) + Len(queue) + Cardinality(Stamped) <= MaxRecords
    /\ life # "gone" => last <= MaxTime + Len(written) + Len(buffer) + Len(queue)

LoggerInv == TypeOK /\ ClockInv /\ LifeInv /\ OneNotifies /\ CountInv

\* What the logger has been notified of, in order.
Records == written \o buffer \o queue

\* Timestamps grow from record to record, and those of older sessions are older than every
\* change that is on its way.
KeyInv ==
    /\ first = 0
    /\ kind = "Sqlite" =>
        /\ \A i, j \in 1 .. Len(Records) : i < j => Records[i].stamp < Records[j].stamp
        /\ \A i \in 1 .. Len(Records) :
              \/ Records[i].stamp <= last
              \/ Records[i].stamp < now /\ \A n \in Stamped : Records[i].stamp < change[n].time

-------------------------------------------------------------------------------
(* Lemmas about sequences and the timestamp                                *)

\* What is appended to the last of three sequences is appended to the whole.
LEMMA AppendLast ==
    ASSUME NEW S, NEW a \in Seq(S), NEW b \in Seq(S), NEW q \in Seq(S), NEW t \in S
    PROVE  a \o b \o Append(q, t) = Append(a \o b \o q, t)
<1>1. a \o b \in Seq(S) /\ (a \o b) \o q \in Seq(S) /\ <<t>> \in Seq(S)
  BY ConcatProperties
<1>2. Append(q, t) = q \o <<t>>
  BY AppendIsConcat
<1>3. Append((a \o b) \o q, t) = ((a \o b) \o q) \o <<t>>
  BY <1>1, AppendIsConcat
<1>4. ((a \o b) \o q) \o <<t>> = (a \o b) \o (q \o <<t>>)
  BY <1>1, ConcatAssociative
<1>. QED
  BY <1>2, <1>3, <1>4

\* The first of the middle sequence moves to the end of the first one.
LEMMA MoveFirst ==
    ASSUME NEW S, NEW a \in Seq(S), NEW b \in Seq(S), NEW q \in Seq(S), b # <<>>
    PROVE  /\ Head(b) \in S /\ Tail(b) \in Seq(S) /\ Append(a, Head(b)) \in Seq(S)
           /\ Append(a, Head(b)) \o Tail(b) \o q = a \o b \o q
           /\ Len(Append(a, Head(b))) = Len(a) + 1 /\ Len(Tail(b)) = Len(b) - 1
<1>1. Head(b) \in S /\ Tail(b) \in Seq(S) /\ Len(Tail(b)) = Len(b) - 1
  BY HeadTailProperties
<1>2. Append(a, Head(b)) \in Seq(S) /\ Len(Append(a, Head(b))) = Len(a) + 1
  BY <1>1, AppendProperties
<1>3. /\ Append(a, Head(b)) \o Tail(b) \in Seq(S)
      /\ Len(Append(a, Head(b)) \o Tail(b)) = Len(a) + 1 + (Len(b) - 1)
      /\ \A i \in 1 .. Len(a) + 1 + (Len(b) - 1) :
           (Append(a, Head(b)) \o Tail(b))[i] =
              IF i <= Len(a) + 1 THEN Append(a, Head(b))[i] ELSE Tail(b)[i - (Len(a) + 1)]
  BY <1>1, <1>2, ConcatProperties
<1>4. /\ a \o b \in Seq(S) /\ Len(a \o b) = Len(a) + Len(b)
      /\ \A i \in 1 .. Len(a) + Len(b) : (a \o b)[i] = IF i <= Len(a) THEN a[i] ELSE b[i - Len(a)]
  BY ConcatProperties
<1>5. Append(a, Head(b)) \o Tail(b) = a \o b
  <2>1. Len(a) \in Nat /\ Len(b) \in Nat \ {0} /\ Head(b) = b[1]
    BY LenProperties, EmptySeq
  <2>2. Len(Append(a, Head(b)) \o Tail(b)) = Len(a \o b)
    BY <1>3, <1>4, <2>1
  <2>3. ASSUME NEW i \in 1 .. Len(a) + Len(b)
        PROVE  (Append(a, Head(b)) \o Tail(b))[i] = (a \o b)[i]
    <3>1. CASE i <= Len(a)
      <4>1. Append(a, Head(b))[i] = a[i]
        BY <1>1, <2>1, <3>1, AppendProperties
      <4>. QED
        BY <1>3, <1>4, <2>1, <3>1, <4>1
    <3>2. CASE i = Len(a) + 1
      <4>1. Append(a, Head(b))[i] = b[1]
        BY <1>1, <2>1, <3>2, AppendProperties
      <4>. QED
        BY <1>3, <1>4, <2>1, <3>2, <4>1
    <3>3. CASE i > Len(a) + 1
      <4>. DEFINE k == i - (Len(a) + 1)
      <4>1. k \in 1 .. Len(Tail(b)) /\ k + 1 = i - Len(a)
        BY <1>1, <2>1, <3>3
      <4>2. Tail(b)[k] = b[k + 1]
        BY <4>1, HeadTailProperties
      <4>. QED
        BY <1>3, <1>4, <2>1, <3>3, <4>1, <4>2
    <3>. QED
      BY <2>1, <3>1, <3>2, <3>3
  <2>. QED
    BY <1>3, <1>4, <2>2, <2>3, SeqEqual
<1>. QED
  BY <1>1, <1>2, <1>5

\* Swapping the queue with an empty buffer keeps the records in order.
LEMMA SwapEmpty ==
    ASSUME NEW S, NEW a \in Seq(S), NEW q \in Seq(S)
    PROVE  /\ a \o <<>> \o q = a \o q /\ a \o q \o <<>> = a \o q
           /\ a \o <<>> \o <<>> = a
<1>1. a \o q \in Seq(S) /\ a \o <<>> = a /\ a \o q \o <<>> = a \o q
  BY ConcatProperties, ConcatEmptySeq
<1>. QED
  BY <1>1

\* Monotonic() is greater than the timestamp before, and not less than the time.
LEMMA MonotonicGrows ==
    ASSUME NEW time \in Int, last \in Nat
    PROVE  /\ Monotonic(time) \in {last + 1, time}
           /\ Monotonic(time) > last /\ Monotonic(time) >= time
<1>. DEFINE m == IF time >= last + 1 THEN time ELSE last + 1
<1>1. m \in {last + 1, time} /\ \A y \in {last + 1, time} : m >= y
  OBVIOUS
<1>2. /\ Monotonic(time) \in {last + 1, time}
      /\ \A y \in {last + 1, time} : Monotonic(time) >= y
  BY <1>1 DEF Monotonic, Max
<1>. QED
  BY <1>2


\* The numbers that CountInv adds up.
LEMMA Counted ==
    ASSUME TypeOK
    PROVE  /\ Stamped \subseteq Node /\ IsFiniteSet(Stamped) /\ Cardinality(Stamped) \in Nat
           /\ Len(written) \in Nat /\ Len(buffer) \in Nat /\ Len(queue) \in Nat
           /\ written \in Seq(Transition) /\ buffer \in Seq(Transition) /\ queue \in Seq(Transition)
           /\ \A n \in Node : change[n].at \in {"none", "stamped", "notify"} /\ change[n].time \in 0 .. MaxTime
           /\ last \in Nat /\ first \in 0 .. MaxTime /\ now \in 0 .. MaxTime /\ MaxTime \in Nat /\ MaxRecords \in Nat
<1>1. Stamped \subseteq Node
  BY DEF Stamped
<1>2. IsFiniteSet(Stamped) /\ Cardinality(Stamped) \in Nat
  BY <1>1, LoggersAssumption, FS_Subset, FS_CardinalityType
<1>3. written \in Seq(Transition) /\ buffer \in Seq(Transition) /\ queue \in Seq(Transition)
  BY DEF TypeOK, RecordsTypeOK
<1>4. Len(written) \in Nat /\ Len(buffer) \in Nat /\ Len(queue) \in Nat
  BY <1>3, LenProperties
<1>. QED
  BY <1>1, <1>2, <1>3, <1>4, LoggersAssumption DEF TypeOK, ChangeTypeOK, ClockTypeOK, Stamp

\* Parts of the type invariant, from the parts of the state they are about.
LEMMA RecordsKept ==
    ASSUME TypeOK, UNCHANGED <<queue, buffer, written>>
    PROVE  RecordsTypeOK'
BY DEF TypeOK, RecordsTypeOK

\* See RecordsKept.
LEMMA ChangeKept ==
    ASSUME TypeOK, UNCHANGED change
    PROVE  ChangeTypeOK' /\ (OneNotifies => OneNotifies') /\ Stamped' = Stamped
BY DEF TypeOK, ChangeTypeOK, OneNotifies, Stamped

\* See RecordsKept.
LEMMA ClockKept ==
    ASSUME TypeOK, UNCHANGED <<kind, now, enabled, first, last>>
    PROVE  ClockTypeOK'
BY DEF TypeOK, ClockTypeOK

\* One callback at a time, counted.
LEMMA OneIsCounted ==
    ASSUME NEW c, \A n, m \in Node : c[n].at = "notify" /\ c[m].at = "notify" => n = m
    PROVE  Cardinality({n \in Node : c[n].at = "notify"}) <= 1
<1>. DEFINE N == {n \in Node : c[n].at = "notify"}
<1>1. CASE N = {}
  BY <1>1, FS_EmptySet
<1>2. CASE N # {}
  <2>1. PICK n \in N : TRUE
    BY <1>2
  <2>2. N = {n}
    BY <2>1
  <2>3. Cardinality({n}) = 1
    BY FS_Singleton
  <2>. QED
    BY <2>2, <2>3
<1>. QED
  BY <1>1, <1>2

\* A step that leaves the nodes, the clock and the records alone.
LEMMA WriterOnly ==
    ASSUME LoggerInv, UNCHANGED <<now, first, last, kind, change, queue, buffer, written, session>>,
           ClockTypeOK', WriterTypeOK', LifeInv', life' = "gone" \/ life # "gone"
    PROVE  LoggerInv'
BY ChangeKept, RecordsKept DEF LoggerInv, TypeOK, ClockInv, CountInv

\* The clock, setEnabled() and a status that changes.
LEMMA ClockOK ==
    ASSUME LoggerInv, Tick \/ SetEnabled
    PROVE  LoggerInv'
<1>. USE DEF LoggerInv
<1>1. UNCHANGED <<kind, first, change, last, queue, buffer, writer, written, flushed, loop, life, session>>
  BY DEF Tick, SetEnabled, producerVars, writerVars, lifeVars
<1>2. now' \in 0 .. MaxTime /\ now' >= now
  BY Counted DEF Tick, SetEnabled
<1>3. enabled' \in BOOLEAN
  BY Zenon DEF Tick, SetEnabled, TypeOK, ClockTypeOK
<1>4. ClockTypeOK'
  BY <1>1, <1>2, <1>3 DEF TypeOK, ClockTypeOK
<1>5. WriterTypeOK' /\ LifeInv' /\ CountInv'
  BY <1>1 DEF TypeOK, WriterTypeOK, LifeInv, CountInv, Stamped
<1>6. ClockInv'
  BY <1>1, <1>2, Counted DEF ClockInv, Stamped
<1>. QED
  BY <1>1, <1>4, <1>5, <1>6, RecordsKept, ChangeKept DEF TypeOK

\* See ClockOK.
LEMMA SetStatusOK ==
    ASSUME LoggerInv, NEW n \in Node, SetStatus(n)
    PROVE  LoggerInv'
<1>. USE DEF LoggerInv
<1>1. /\ UNCHANGED <<kind, now, enabled, first, last, queue, buffer, writer, written, flushed, loop, life, session>>
      /\ life = "alive" /\ change[n].at = "none"
      /\ Len(written) + Len(buffer) + Len(queue) + Cardinality(Node) <= MaxRecords
  BY DEF SetStatus, writerVars, lifeVars
<1>2. /\ change' \in [Node -> [at : {"none", "stamped", "notify"}, time : 0 .. MaxTime]]
      /\ change'[n].at = "stamped" /\ change'[n].time = now
      /\ \A m \in Node : m # n => change'[m] = change[m]
  BY Counted DEF SetStatus, TypeOK, ChangeTypeOK
<1>3. OneNotifies'
  BY <1>2 DEF OneNotifies
<1>4. ChangeTypeOK'
  BY <1>2, <1>3, OneIsCounted DEF ChangeTypeOK, OneNotifies
<1>5. Stamped' \subseteq Stamped \cup {n} /\ Stamped' \subseteq Node
  BY <1>2 DEF Stamped
<1>6. Cardinality(Stamped') <= Cardinality(Node) /\ Cardinality(Stamped') \in Nat /\ Cardinality(Node) \in Nat
  BY <1>5, LoggersAssumption, FS_Subset, FS_CardinalityType
<1>7. CountInv'
  BY <1>1, <1>6, Counted, SMTT(30) DEF CountInv
<1>8. ClockInv'
  BY <1>1, <1>2, <1>5 DEF ClockInv
<1>9. WriterTypeOK' /\ LifeInv'
  BY <1>1 DEF TypeOK, WriterTypeOK, LifeInv
<1>. QED
  BY <1>1, <1>3, <1>4, <1>7, <1>8, <1>9, RecordsKept, ClockKept DEF TypeOK

\* The timestamp of a transition, and that of the ones after it.
LEMMA StampTyped ==
    ASSUME LoggerInv, NEW n \in Stamped, life # "gone"
    PROVE  /\ change[n].time - first \in 0 .. MaxTime
           /\ Monotonic(change[n].time - first) \in Stamp
           /\ Monotonic(change[n].time - first) > last
           /\ Monotonic(change[n].time - first) <= MaxTime + Len(written) + Len(buffer) + Len(queue) + 1
<1>. USE DEF LoggerInv
<1>1. n \in Node /\ Cardinality(Stamped) \in Nat \ {0}
  BY Counted, FS_EmptySet
<1>2. change[n].time - first \in 0 .. MaxTime
  BY <1>1, Counted DEF ClockInv
<1>3. /\ Monotonic(change[n].time - first) \in {last + 1, change[n].time - first}
      /\ Monotonic(change[n].time - first) > last
  BY <1>2, Counted, MonotonicGrows, SMTT(30)
<1>. DEFINE k == Len(written) + Len(buffer) + Len(queue)
            m == Monotonic(change[n].time - first)
<1>4. k \in Nat /\ k + 1 <= MaxRecords /\ last <= MaxTime + k
  BY <1>1, Counted DEF CountInv
<1>5. last \in Nat /\ MaxTime \in Nat /\ MaxRecords \in Nat
  BY Counted
<1>. HIDE DEF k, m
<1>6. m \in Nat /\ m <= MaxTime + k + 1 /\ m > last
  BY <1>2, <1>3, <1>4, <1>5 DEF m
<1>7. m \in Stamp
  BY <1>4, <1>5, <1>6 DEF Stamp
<1>. QED
  BY <1>2, <1>6, <1>7, Counted DEF k, m

\* The callback of the logger.
LEMMA CallbackOK ==
    ASSUME LoggerInv, NEW n \in Node, Callback(n)
    PROVE  LoggerInv'
<1>. USE DEF LoggerInv
<1>1. /\ UNCHANGED <<kind, now, enabled, first, buffer, writer, written, flushed, loop, life, session>>
      /\ change[n].at = "stamped" /\ \A m \in Node : change[m].at # "notify"
      /\ n \in Stamped
  BY DEF Callback, writerVars, lifeVars, Stamped
<1>2. life = "alive"
  BY <1>1 DEF LifeInv
<1>3. /\ change' \in [Node -> [at : {"none", "stamped", "notify"}, time : 0 .. MaxTime]]
      /\ change'[n].at \in {"none", "notify"}
      /\ \A m \in Node : m # n => change'[m] = change[m]
  BY DEF Callback, TypeOK, ChangeTypeOK
<1>4. OneNotifies'
  BY <1>1, <1>3 DEF OneNotifies
<1>5. ChangeTypeOK'
  BY <1>3, <1>4, OneIsCounted DEF ChangeTypeOK, OneNotifies
<1>6. Stamped' = Stamped \ {n}
  BY <1>3 DEF Stamped
<1>7. Cardinality(Stamped') = Cardinality(Stamped) - 1
  BY <1>1, <1>6, Counted, FS_RemoveElement
<1>8. ClockInv'
  BY <1>1, <1>3, <1>6, Counted DEF ClockInv
<1>9. WriterTypeOK' /\ LifeInv'
  BY <1>1, <1>2 DEF TypeOK, WriterTypeOK, LifeInv
<1>10. CASE enabled
  <2>. DEFINE stamp == IF kind = "Sqlite" THEN last' ELSE change[n].time - first
              t == [node |-> n, stamp |-> stamp]
  <2>1. queue' = Append(queue, t)
    BY <1>10 DEF Callback
  <2>2. last' = IF kind = "Sqlite" THEN Monotonic(change[n].time - first) ELSE last
    BY <1>10 DEF Callback
  <2>3. stamp \in Stamp /\ last' \in Stamp
        /\ last' <= MaxTime + Len(written) + Len(buffer) + Len(queue) + 1
    <3>1. MaxTime \in Nat /\ MaxRecords \in Nat /\ last \in Stamp
      BY Counted DEF TypeOK, ClockTypeOK
    <3>2. /\ change[n].time - first \in 0 .. MaxTime
          /\ Monotonic(change[n].time - first) \in Stamp
          /\ Monotonic(change[n].time - first) <= MaxTime + Len(written) + Len(buffer) + Len(queue) + 1
      BY <1>1, <1>2, StampTyped
    <3>3. CASE kind = "Sqlite"
      BY <2>2, <3>2, <3>3
    <3>4. CASE kind # "Sqlite"
      <4>1. change[n].time - first \in Stamp
        BY <3>1, <3>2 DEF Stamp
      <4>2. last <= MaxTime + Len(written) + Len(buffer) + Len(queue) + 1
        BY <1>2, <3>1, Counted DEF CountInv
      <4>. QED
        BY <2>2, <3>1, <3>4, <4>1, <4>2
    <3>. QED
      BY <3>3, <3>4
  <2>. HIDE DEF stamp
  <2>4. t \in Transition
    BY <2>3 DEF Transition
  <2>. HIDE DEF t
  <2>5. queue' \in Seq(Transition) /\ Len(queue') = Len(queue) + 1
    BY <2>1, <2>4, Counted, AppendProperties
  <2>6. CountInv'
    <3>1. last' \in Nat /\ Cardinality(Stamped) \in Nat /\ Len(queue) \in Nat
      BY <2>3, Counted DEF Stamp
    <3>. DEFINE s == Cardinality(Stamped)'
    <3>2. s = Cardinality(Stamped) - 1
      BY <1>7
    <3>. HIDE DEF s
    <3>3. last' <= MaxTime + Len(written') + Len(buffer') + Len(queue')
      BY <1>1, <2>3, <2>5, <3>1, Counted, SMTT(30)
    <3>4. Len(written') + Len(buffer') + Len(queue') + s <= MaxRecords
      BY <1>1, <2>5, <3>1, <3>2, Counted DEF CountInv
    <3>. QED
      BY <3>3, <3>4 DEF CountInv, s
  <2>7. RecordsTypeOK'
    <3>1. Len(queue') <= MaxRecords
      BY <1>1, <1>7, <2>5, Counted, FS_EmptySet DEF CountInv
    <3>. QED
      BY <1>1, <2>5, <3>1 DEF TypeOK, RecordsTypeOK
  <2>8. ClockTypeOK'
    BY <1>1, <2>3 DEF TypeOK, ClockTypeOK
  <2>. QED
    BY <1>4, <1>5, <1>8, <1>9, <2>6, <2>7, <2>8 DEF TypeOK
<1>11. CASE ~enabled
  <2>1. UNCHANGED <<last, queue>>
    BY <1>11 DEF Callback
  <2>2. CountInv'
    BY <1>1, <1>7, <2>1, Counted DEF CountInv
  <2>. QED
    BY <1>1, <1>4, <1>5, <1>8, <1>9, <2>1, <2>2, ClockKept, RecordsKept DEF TypeOK
<1>. QED
  BY <1>10, <1>11

\* The callback leaves its critical section and notifies the thread of the logger.
LEMMA NotifyOK ==
    ASSUME LoggerInv, NEW n \in Node, Notify(n)
    PROVE  LoggerInv'
<1>. USE DEF LoggerInv
<1>1. /\ UNCHANGED <<kind, now, enabled, first, last, queue, buffer, written, flushed, loop, life, session>>
      /\ change[n].at = "notify" /\ writer' = IF writer = "asleep" THEN "eval" ELSE writer
  BY DEF Notify, NotifyOne, lifeVars
<1>2. /\ change' \in [Node -> [at : {"none", "stamped", "notify"}, time : 0 .. MaxTime]]
      /\ change'[n].at = "none"
      /\ \A m \in Node : m # n => change'[m] = change[m]
  BY DEF Notify, TypeOK, ChangeTypeOK
<1>3. OneNotifies'
  BY <1>2 DEF OneNotifies
<1>4. ChangeTypeOK'
  BY <1>2, <1>3, OneIsCounted DEF ChangeTypeOK, OneNotifies
<1>5. Stamped' = Stamped
  BY <1>1, <1>2 DEF Stamped
<1>6. ClockInv' /\ CountInv'
  BY <1>1, <1>2, <1>5 DEF ClockInv, CountInv, Stamped
<1>7. WriterTypeOK' /\ LifeInv'
  BY <1>1, <1>2 DEF TypeOK, WriterTypeOK, LifeInv
<1>. QED
  BY <1>1, <1>3, <1>4, <1>6, <1>7, RecordsKept, ClockKept DEF TypeOK


\* The thread of the logger checks, sleeps and wakes up.
LEMMA CheckOK ==
    ASSUME LoggerInv, Check \/ Block \/ AllWritten
    PROVE  LoggerInv'
<1>. USE DEF LoggerInv
<1>1. /\ UNCHANGED <<kind, now, enabled, first, change, last, queue, buffer, written, loop, life, session>>
      /\ \/ writer = "check" /\ writer' = (IF loop THEN "eval" ELSE "ended") /\ flushed' = flushed
         \/ writer = "blocking" /\ writer' = "asleep" /\ flushed' = flushed
         \/ writer = "write" /\ buffer = <<>> /\ writer' = "check" /\ flushed' = Len(written)
  BY DEF Check, Block, AllWritten, producerVars, lifeVars
<1>2. WriterTypeOK' /\ LifeInv'
  BY <1>1, EmptySeq, Counted DEF TypeOK, WriterTypeOK, LifeInv
<1>3. ClockTypeOK'
  BY <1>1, ClockKept
<1>4. life' = "gone" \/ life # "gone"
  BY <1>1
<1>. QED
  BY <1>1, <1>2, <1>3, <1>4, WriterOnly

\* Only an empty buffer is swapped with the queue.
LEMMA SwapFacts ==
    ASSUME LoggerInv, writer # "write", Swap
    PROVE  buffer = <<>> /\ queue' = <<>> /\ buffer' = queue /\ writer' = "write"
<1>1. Len(buffer) = 0 /\ buffer \in Seq(Transition)
  BY DEF LoggerInv, TypeOK, WriterTypeOK, RecordsTypeOK
<1>2. buffer = <<>>
  BY <1>1, EmptySeq
<1>. QED
  BY <1>2 DEF Swap

\* The queue becomes the buffer.
LEMMA SwapOK ==
    ASSUME LoggerInv, Swap, writer \in {"eval", "asleep"},
           UNCHANGED <<kind, now, enabled, first, change, last, written, flushed, lifeVars>>
    PROVE  LoggerInv'
<1>. USE DEF LoggerInv
<1>1. buffer = <<>> /\ queue' = <<>> /\ buffer' = queue /\ writer' = "write"
  BY SwapFacts
<1>2. UNCHANGED <<loop, life, session>>
  BY DEF lifeVars
<1>3. RecordsTypeOK'
  BY <1>1 DEF TypeOK, RecordsTypeOK
<1>4. WriterTypeOK' /\ LifeInv'
  BY <1>1, <1>2 DEF TypeOK, WriterTypeOK, LifeInv
<1>5. CountInv'
  BY <1>1, <1>2, Counted, ChangeKept, EmptySeq DEF CountInv
<1>6. ClockInv'
  BY DEF ClockInv, Stamped
<1>. QED
  BY <1>3, <1>4, <1>5, <1>6, ClockKept, ChangeKept DEF TypeOK

\* wait() or wait_for() evaluates its predicate, or the latter times out.
LEMMA EvaluateOK ==
    ASSUME LoggerInv, Evaluate \/ TimedOut
    PROVE  LoggerInv'
<1>1. UNCHANGED <<kind, now, enabled, first, change, last, written, flushed, lifeVars>> /\ writer \in {"eval", "asleep"}
  BY DEF Evaluate, TimedOut
<1>2. CASE Swap
  BY <1>1, <1>2, SwapOK
<1>3. CASE ~Swap
  <2>1. writer = "eval" /\ writer' = "blocking" /\ UNCHANGED <<queue, buffer>>
    BY <1>3 DEF Evaluate, TimedOut
  <2>2. UNCHANGED <<loop, life, session>>
    BY <1>1 DEF lifeVars
  <2>3. WriterTypeOK' /\ LifeInv' /\ ClockTypeOK'
    BY <1>1, <2>1, <2>2, ClockKept DEF LoggerInv, TypeOK, WriterTypeOK, LifeInv
  <2>4. life' = "gone" \/ life # "gone"
    BY <2>1, <2>2 DEF LoggerInv, LifeInv
  <2>. QED
    BY <1>1, <2>1, <2>2, <2>3, <2>4, WriterOnly
<1>. QED
  BY <1>2, <1>3

\* One transition is written.
LEMMA WriteOK ==
    ASSUME LoggerInv, Write
    PROVE  LoggerInv'
<1>. USE DEF LoggerInv
<1>1. /\ UNCHANGED <<kind, now, enabled, first, change, last, queue, writer, loop, life, session>>
      /\ writer = "write" /\ buffer # <<>>
      /\ written' = Append(written, Head(buffer)) /\ buffer' = Tail(buffer)
      /\ flushed' = IF kind = "Sqlite" THEN Len(written') ELSE flushed
  BY DEF Write, producerVars, lifeVars
<1>2. /\ written' \in Seq(Transition) /\ buffer' \in Seq(Transition)
      /\ Len(written') = Len(written) + 1 /\ Len(buffer') = Len(buffer) - 1
  BY <1>1, Counted, MoveFirst
<1>3. CountInv'
  BY <1>1, <1>2, Counted, ChangeKept DEF CountInv
<1>4. RecordsTypeOK'
  <2>1. Len(buffer) \in Nat \ {0}
    BY <1>1, Counted, EmptySeq
  <2>2. Len(written') <= MaxRecords /\ Len(buffer') <= MaxRecords
    BY <1>2, <2>1, Counted DEF CountInv
  <2>. QED
    BY <1>1, <1>2, <2>2 DEF TypeOK, RecordsTypeOK
<1>5. LifeInv' /\ ClockInv'
  BY <1>1 DEF LifeInv, ClockInv, Stamped
<1>6. WriterTypeOK'
  BY <1>1, <1>2, Counted DEF TypeOK, WriterTypeOK
<1>. QED
  BY <1>1, <1>3, <1>4, <1>5, <1>6, ClockKept, ChangeKept DEF TypeOK

\* The destructor, up to the end of the thread of the logger.
LEMMA DestroyOK ==
    ASSUME LoggerInv, Destroy \/ DestroyNotifies \/ Join
    PROVE  LoggerInv'
<1>. USE DEF LoggerInv
<1>1. /\ UNCHANGED <<kind, now, enabled, first, change, last, queue, buffer, written, flushed, session>>
      /\ life # "gone"
  BY DEF Destroy, DestroyNotifies, Join, producerVars, writerVars
<1>2. WriterTypeOK' /\ LifeInv'
  <2>1. CASE Destroy
    <3>1. FALSE \in BOOLEAN
      BY Zenon
    <3>. QED
      BY <2>1, <3>1 DEF Destroy, writerVars, producerVars, TypeOK, WriterTypeOK, LifeInv
  <2>2. CASE DestroyNotifies
    BY <2>2 DEF DestroyNotifies, NotifyOne, producerVars, TypeOK, WriterTypeOK, LifeInv
  <2>3. CASE Join
    BY <2>3 DEF Join, writerVars, producerVars, TypeOK, WriterTypeOK, LifeInv
  <2>. QED
    BY <2>1, <2>2, <2>3
<1>3. ClockTypeOK'
  BY <1>1, ClockKept
<1>. QED
  BY <1>1, <1>2, <1>3, WriterOnly

\* What a crash leaves of the file.
LEMMA SavedKept ==
    ASSUME TypeOK, Crash
    PROVE  /\ written' \in Seq(Transition) /\ Len(written') \in Nat /\ Len(written') <= Len(written)
           /\ flushed' = Len(written') /\ flushed' \in flushed .. Len(written)
           /\ written' = SubSeq(written, 1, flushed')
           /\ flushed = Len(written) => written' = written
<1>1. PICK kept \in flushed .. Len(written) :
         written' = SubSeq(written, 1, kept) /\ flushed' = kept
  BY DEF Crash
<1>2. written \in Seq(Transition) /\ Len(written) \in Nat /\ flushed \in 0 .. Len(written)
  BY Counted DEF TypeOK, WriterTypeOK
<1>3. kept \in Nat /\ kept <= Len(written) /\ kept \in 0 .. Len(written)
  BY <1>1, <1>2
<1>4. \A i \in 1 .. kept : i \in 1 .. Len(written)
  BY <1>2, <1>3
<1>5. written' \in Seq(Transition) /\ Len(written') = kept
  BY <1>1, <1>2, <1>3, <1>4, SubSeqProperties
<1>6. flushed = Len(written) => written' = written
  BY <1>1, <1>2, SubSeqFull
<1>. QED
  BY <1>1, <1>3, <1>5, <1>6

\* The process ends, and nothing but the file is left.
LEMMA CrashOK ==
    ASSUME LoggerInv, Crash
    PROVE  LoggerInv'
<1>. USE DEF LoggerInv
<1>1. /\ UNCHANGED <<kind, now, enabled, first, last, loop, session>>
      /\ life' = "gone" /\ writer' = "ended" /\ queue' = <<>> /\ buffer' = <<>>
      /\ change' = [n \in Node |-> [at |-> "none", time |-> 0]]
  BY DEF Crash
<1>10. /\ written' \in Seq(Transition) /\ Len(written') \in Nat /\ Len(written') <= Len(written)
      /\ flushed' = Len(written')
  BY SavedKept
<1>2. Len(<<>>) = 0 /\ <<>> \in Seq(Transition)
  BY EmptySeq
<1>3. RecordsTypeOK'
  <2>1. 0 <= MaxRecords
    BY LoggersAssumption
  <2>2. written' \in Seq(Transition) /\ Len(written') <= MaxRecords
    BY <1>10, Counted DEF TypeOK, RecordsTypeOK
  <2>. QED
    BY <1>1, <1>2, <2>1, <2>2 DEF RecordsTypeOK
<1>4. /\ change' \in [Node -> [at : {"none", "stamped", "notify"}, time : 0 .. MaxTime]]
      /\ \A n \in Node : change'[n].at = "none" /\ Stamped' = {} /\ OneNotifies'
  BY <1>1, Counted DEF Stamped, OneNotifies
<1>5. Stamped' = {} /\ OneNotifies'
  BY <1>1 DEF Stamped, OneNotifies
<1>6. ChangeTypeOK'
  BY <1>4, <1>5, OneIsCounted DEF ChangeTypeOK, OneNotifies
<1>7. CountInv'
  BY <1>10, <1>1, <1>2, <1>5, Counted, FS_EmptySet DEF CountInv
<1>8. ClockInv'
  BY <1>1, <1>5 DEF ClockInv
<1>9. WriterTypeOK' /\ LifeInv'
  BY <1>10, <1>1, <1>2, <1>4 DEF TypeOK, WriterTypeOK, LifeInv
<1>. QED
  BY <1>1, <1>3, <1>5, <1>6, <1>7, <1>8, <1>9, ClockKept DEF TypeOK

\* The buffer is empty between two sessions.
LEMMA GoneIsEmpty ==
    ASSUME LoggerInv, life = "gone"
    PROVE  buffer = <<>> /\ Stamped = {}
<1>1. Len(buffer) = 0 /\ buffer \in Seq(Transition)
  BY DEF LoggerInv, TypeOK, WriterTypeOK, RecordsTypeOK, LifeInv
<1>2. buffer = <<>>
  BY <1>1, EmptySeq
<1>. QED
  BY <1>2 DEF LoggerInv, LifeInv, Stamped

\* The next session begins.
LEMMA ConstructOK ==
    ASSUME LoggerInv, Construct
    PROVE  LoggerInv'
<1>. USE DEF LoggerInv
<1>1. /\ UNCHANGED <<kind, now, change, buffer>>
      /\ life = "gone" /\ session < MaxSessions /\ session' = session + 1 /\ life' = "alive"
      /\ loop' = TRUE /\ enabled' = TRUE /\ first' = IF Relative THEN now ELSE 0
      /\ last' = 0 /\ queue' = <<>> /\ writer' = "check"
      /\ written' = (IF kind = "Sqlite" THEN written ELSE <<>>) /\ flushed' = Len(written')
  BY DEF Construct
<1>2. Len(<<>>) = 0 /\ <<>> \in Seq(Transition) /\ buffer = <<>> /\ Stamped = {} /\ Stamped' = {}
  BY <1>1, EmptySeq, GoneIsEmpty DEF Stamped
<1>3. TRUE \in BOOLEAN
  BY Zenon
<1>4. ClockTypeOK'
  BY <1>1, <1>3, Counted DEF TypeOK, ClockTypeOK, Stamp
<1>5. RecordsTypeOK'
  BY <1>1, <1>2, Counted DEF TypeOK, RecordsTypeOK
<1>6. CountInv'
  BY <1>1, <1>2, Counted, FS_EmptySet DEF CountInv
<1>7. ClockInv'
  BY <1>1, <1>2, Counted DEF ClockInv
<1>8. WriterTypeOK' /\ LifeInv'
  BY <1>1, <1>2, <1>3, Counted, LoggersAssumption DEF TypeOK, WriterTypeOK, LifeInv
<1>. QED
  BY <1>1, <1>4, <1>5, <1>6, <1>7, <1>8, ChangeKept DEF TypeOK

-------------------------------------------------------------------------------
(* The invariant                                                           *)

\* At first no status has changed and nothing is recorded.
LEMMA InitOK ==
    ASSUME Init
    PROVE  LoggerInv
<1>1. Len(<<>>) = 0 /\ <<>> \in Seq(Transition)
  BY EmptySeq
<1>2. TRUE \in BOOLEAN
  BY Zenon
<1>3. Stamped = {} /\ OneNotifies
  BY DEF Init, Stamped, OneNotifies
<1>4. change \in [Node -> [at : {"none", "stamped", "notify"}, time : 0 .. MaxTime]]
  BY LoggersAssumption DEF Init
<1>5. ChangeTypeOK
  BY <1>3, <1>4, OneIsCounted DEF ChangeTypeOK, OneNotifies
<1>6. ClockTypeOK /\ RecordsTypeOK /\ WriterTypeOK
  BY <1>1, <1>2, LoggersAssumption DEF Init, ClockTypeOK, RecordsTypeOK, WriterTypeOK, Stamp
<1>7. ClockInv /\ LifeInv /\ CountInv
  BY <1>1, <1>3, LoggersAssumption, FS_EmptySet DEF Init, ClockInv, LifeInv, CountInv
<1>. QED
  BY <1>3, <1>5, <1>6, <1>7 DEF LoggerInv, TypeOK

\* Every step of every thread preserves the invariant.
LEMMA LoggerStep ==
    ASSUME LoggerInv, [Next]_vars
    PROVE  LoggerInv'
<1>1. CASE Next
  BY <1>1, ClockOK, SetStatusOK, CallbackOK, NotifyOK, CheckOK, EvaluateOK, WriteOK, DestroyOK,
     CrashOK, ConstructOK DEF Next, WriterStep
<1>2. CASE UNCHANGED vars
  <2>1. UNCHANGED <<kind, now, enabled, first, change, last, queue, buffer, writer, written, flushed, loop, life, session>>
    BY <1>2 DEF vars, producerVars, writerVars, lifeVars
  <2>2. ClockTypeOK' /\ WriterTypeOK' /\ LifeInv' /\ ClockInv' /\ CountInv'
    BY <2>1 DEF LoggerInv, TypeOK, ClockTypeOK, WriterTypeOK, LifeInv, ClockInv, CountInv, Stamped
  <2>. QED
    BY <2>1, <2>2, ChangeKept, RecordsKept DEF LoggerInv, TypeOK
<1>. QED
  BY <1>1, <1>2

\* The invariant holds in every state, whenever the process ends and the next one begins.
THEOREM LoggerInvariant == Spec => []LoggerInv
<1>1. Init => LoggerInv
  BY InitOK
<1>2. LoggerInv /\ [Next]_vars => LoggerInv'
  BY LoggerStep
<1>. QED
  BY <1>1, <1>2, PTL DEF Spec

\* Every variable has its type: timestamps stay in their range although each is at least one
\* more than the one before, and buffers are empty whenever the logger does not write.
THEOREM LoggerTypeCorrect == Spec => []TypeOK
<1>1. LoggerInv => TypeOK
  BY DEF LoggerInv
<1>. QED
  BY <1>1, LoggerInvariant, PTL


-------------------------------------------------------------------------------
(* The timestamps are keys                                                 *)

\* What was written is the beginning of what was notified, and the next to be written follows.
LEMMA RecordsBegin ==
    ASSUME TypeOK
    PROVE  /\ Records \in Seq(Transition) /\ Len(Records) = Len(written) + Len(buffer) + Len(queue)
           /\ \A i \in 1 .. Len(written) : Records[i] = written[i]
           /\ buffer # <<>> => /\ Records[Len(written) + 1] = Head(buffer)
                               /\ Len(written) + 1 \in 1 .. Len(Records)
           /\ \A i \in 1 .. Len(Records) : Records[i].stamp \in Int
<1>1. written \in Seq(Transition) /\ buffer \in Seq(Transition) /\ queue \in Seq(Transition)
  BY Counted
<1>2. Len(written) \in Nat /\ Len(buffer) \in Nat /\ Len(queue) \in Nat
  BY Counted
<1>3. /\ written \o buffer \in Seq(Transition) /\ Len(written \o buffer) = Len(written) + Len(buffer)
      /\ \A i \in 1 .. Len(written) + Len(buffer) : (written \o buffer)[i] =
            IF i <= Len(written) THEN written[i] ELSE buffer[i - Len(written)]
  BY <1>1, ConcatProperties
<1>4. /\ Records \in Seq(Transition) /\ Len(Records) = Len(written) + Len(buffer) + Len(queue)
      /\ \A i \in 1 .. Len(written) + Len(buffer) : Records[i] = (written \o buffer)[i]
  BY <1>1, <1>2, <1>3, ConcatProperties DEF Records
<1>5. ASSUME NEW i \in 1 .. Len(Records)
      PROVE  Records[i].stamp \in Int
  <2>1. Records[i] \in Transition
    BY <1>4, ElementOfSeq
  <2>. QED
    BY <2>1, LoggersAssumption DEF Transition, Stamp
<1>6. buffer # <<>> => Len(buffer) >= 1 /\ Head(buffer) = buffer[1]
  BY <1>1, <1>2, EmptySeq
<1>. QED
  BY <1>2, <1>3, <1>4, <1>5, <1>6

\* Taking the queue changes none of the records.
LEMMA RecordsOfSwap ==
    ASSUME LoggerInv, Swap, writer # "write", UNCHANGED written
    PROVE  Records' = Records
<1>1. buffer = <<>> /\ queue' = <<>> /\ buffer' = queue
  BY SwapFacts
<1>2. written \in Seq(Transition) /\ queue \in Seq(Transition)
  BY Counted DEF LoggerInv
<1>3. written \o <<>> \o queue = written \o queue /\ written \o queue \o <<>> = written \o queue
  BY <1>2, SwapEmpty
<1>4. Records' = written \o queue \o <<>> /\ Records = written \o <<>> \o queue
  BY <1>1 DEF Records
<1>. QED
  BY <1>3, <1>4

\* Writing one changes none of the records.
LEMMA RecordsOfWrite ==
    ASSUME LoggerInv, buffer # <<>>, UNCHANGED queue,
           written' = Append(written, Head(buffer)), buffer' = Tail(buffer)
    PROVE  Records' = Records
<1>1. written \in Seq(Transition) /\ buffer \in Seq(Transition) /\ queue \in Seq(Transition)
  BY Counted DEF LoggerInv
<1>2. ASSUME NEW a \in Seq(Transition), NEW b \in Seq(Transition), NEW q \in Seq(Transition), b # <<>>
      PROVE  Append(a, Head(b)) \o Tail(b) \o q = a \o b \o q
  BY <1>2, MoveFirst, SMTT(30)
<1>3. Append(written, Head(buffer)) \o Tail(buffer) \o queue = written \o buffer \o queue
  BY <1>1, <1>2, Zenon
<1>. QED
  BY <1>3 DEF Records

\* The records stay, and no older time comes up.
LEMMA KeysStay ==
    ASSUME LoggerInv, KeyInv, LoggerInv', UNCHANGED <<kind, first>>, Records' = Records,
           last' = last, now' >= now,
           \A n \in Stamped' : \/ n \in Stamped /\ change'[n].time = change[n].time
                               \/ change'[n].time >= now
    PROVE  KeyInv'
<1>. SUFFICES ASSUME kind = "Sqlite"
              PROVE  \A i \in 1 .. Len(Records) :
                       \/ Records[i].stamp <= last
                       \/ /\ Records[i].stamp < now'
                          /\ \A n \in Stamped' : Records[i].stamp < change'[n].time
  BY DEF KeyInv
<1>. TAKE i \in 1 .. Len(Records)
<1>1. Records[i].stamp \in Int /\ now \in Int /\ now' \in Int /\ Stamped \subseteq Node /\ Stamped' \subseteq Node
  BY RecordsBegin, Counted DEF LoggerInv, TypeOK, ClockTypeOK, Stamped
<1>2. \A n \in Stamped' : change'[n].time \in Int
  BY <1>1 DEF LoggerInv, TypeOK, ChangeTypeOK
<1>3. CASE Records[i].stamp <= last
  BY <1>3
<1>4. CASE Records[i].stamp < now /\ \A n \in Stamped : Records[i].stamp < change[n].time
  BY <1>1, <1>2, <1>4
<1>. QED
  BY <1>3, <1>4 DEF KeyInv

\* A record is added by the callback, with a greater timestamp than all others.
LEMMA KeyAdded ==
    ASSUME LoggerInv, KeyInv, LoggerInv', NEW n \in Node, Callback(n), enabled
    PROVE  KeyInv'
<1>. USE DEF LoggerInv
<1>1. /\ UNCHANGED <<kind, now, first, buffer, written>> /\ n \in Stamped /\ first = 0
  BY DEF Callback, writerVars, lifeVars, Stamped, KeyInv
<1>2. SUFFICES ASSUME kind = "Sqlite"
               PROVE  /\ \A i, j \in 1 .. Len(Records') : i < j => Records'[i].stamp < Records'[j].stamp
                      /\ \A i \in 1 .. Len(Records') : Records'[i].stamp <= last'
  BY <1>1 DEF KeyInv
<1>3. life # "gone"
  BY <1>1 DEF LifeInv, Stamped
<1>4. change[n].time \in Nat /\ first = 0 /\ last \in Nat /\ change[n].time - first = change[n].time
  BY <1>1, Counted
<1>. DEFINE t == [node |-> n, stamp |-> last']
<1>5. last' = Monotonic(change[n].time - first) /\ queue' = Append(queue, t)
  BY <1>2 DEF Callback
<1>6. last' > last /\ last' >= change[n].time /\ last' \in Stamp /\ last' \in Int
  <2>1. last' \in {last + 1, change[n].time} /\ last' > last /\ last' >= change[n].time
    BY <1>4, <1>5, MonotonicGrows
  <2>. QED
    BY <1>1, <1>3, <1>4, <1>5, <2>1, StampTyped
<1>7. t \in Transition /\ t.stamp = last'
  BY <1>6 DEF Transition
<1>. HIDE DEF t
<1>8. /\ Records' = Append(Records, t) /\ Len(Records') = Len(Records) + 1
      /\ \A i \in 1 .. Len(Records) : Records'[i] = Records[i]
      /\ Records'[Len(Records) + 1] = t
  <2>1. Records' = written \o buffer \o Append(queue, t)
    BY <1>1, <1>5 DEF Records
  <2>2. written \in Seq(Transition) /\ buffer \in Seq(Transition) /\ queue \in Seq(Transition)
    BY Counted
  <2>3. written \o buffer \o Append(queue, t) = Append(written \o buffer \o queue, t)
    BY <1>7, <2>2, AppendLast
  <2>4. Records' = Append(Records, t)
    BY <2>1, <2>3 DEF Records
  <2>. QED
    BY <1>7, <2>4, RecordsBegin, AppendProperties
<1>9. ASSUME NEW i \in 1 .. Len(Records)
      PROVE  Records[i].stamp < last'
  <2>1. Records[i].stamp \in Int
    BY RecordsBegin
  <2>2. Records[i].stamp <= last \/ Records[i].stamp < change[n].time
    BY <1>1, <1>2 DEF KeyInv
  <2>. QED
    BY <1>4, <1>6, <2>1, <2>2
<1>10. Len(Records) \in Nat
  BY RecordsBegin, LenProperties
<1>11. ASSUME NEW i \in 1 .. Len(Records'), NEW j \in 1 .. Len(Records'), i < j
       PROVE  Records'[i].stamp < Records'[j].stamp
  <2>1. i \in 1 .. Len(Records)
    BY <1>8, <1>10, <1>11
  <2>2. CASE j = Len(Records) + 1
    BY <1>7, <1>8, <1>9, <2>1, <2>2
  <2>3. CASE j \in 1 .. Len(Records)
    BY <1>2, <1>8, <1>11, <2>1, <2>3 DEF KeyInv
  <2>. QED
    BY <1>8, <1>10, <2>2, <2>3
<1>12. ASSUME NEW i \in 1 .. Len(Records')
       PROVE  Records'[i].stamp <= last'
  <2>1. CASE i \in 1 .. Len(Records)
    BY <1>6, <1>8, <1>9, <2>1, RecordsBegin
  <2>2. CASE i = Len(Records) + 1
    BY <1>6, <1>7, <1>8, <2>2
  <2>. QED
    BY <1>8, <1>10, <2>1, <2>2
<1>. QED
  BY <1>11, <1>12

\* After a crash, or in the next session, there is only what was written.
LEMMA KeysOfFile ==
    ASSUME LoggerInv, KeyInv, LoggerInv', Crash \/ (Construct /\ ~Relative)
    PROVE  KeyInv'
<1>. USE DEF LoggerInv
<1>1. /\ UNCHANGED <<kind, now>> /\ queue' = <<>> /\ buffer' = <<>>
      /\ first' = 0 /\ Stamped' = {}
      /\ kind = "Sqlite" => written' = written
  <2>1. CASE Crash
    BY <2>1, SavedKept DEF Crash, KeyInv, Stamped, TypeOK, WriterTypeOK
  <2>2. CASE Construct /\ ~Relative
    BY <2>2, GoneIsEmpty DEF Construct, Stamped
  <2>. QED
    BY <2>1, <2>2
<1>2. SUFFICES ASSUME kind = "Sqlite"
               PROVE  /\ \A i, j \in 1 .. Len(Records') : i < j => Records'[i].stamp < Records'[j].stamp
                      /\ \A i \in 1 .. Len(Records') : Records'[i].stamp <= last' \/ Records'[i].stamp < now
  BY <1>1 DEF KeyInv
<1>3. Records' = written
  BY <1>1, <1>2, Counted, SwapEmpty DEF Records
<1>4. /\ Len(written) \in Nat /\ Len(Records) = Len(written) + Len(buffer) + Len(queue)
      /\ \A i \in 1 .. Len(written) : i \in 1 .. Len(Records) /\ Records[i] = written[i]
                                      /\ written[i].stamp \in Int
  BY Counted, RecordsBegin, SMTT(30)
<1>5. \A i, j \in 1 .. Len(Records') : i < j => Records'[i].stamp < Records'[j].stamp
  BY <1>2, <1>3, <1>4 DEF KeyInv
<1>6. ASSUME NEW i \in 1 .. Len(Records')
      PROVE  Records'[i].stamp <= last' \/ Records'[i].stamp < now
  <2>1. Records'[i].stamp <= last \/ Records'[i].stamp < now
    BY <1>2, <1>3, <1>4 DEF KeyInv
  <2>2. CASE Crash
    BY <2>1, <2>2 DEF Crash
  <2>3. CASE Construct
    <3>1. last < now
      BY <2>3, Counted DEF Construct, KeyInv
    <3>. QED
      BY <1>3, <1>4, <2>1, <3>1, Counted
  <2>. QED
    BY <2>2, <2>3
<1>. QED
  BY <1>5, <1>6

\* Every step keeps the timestamps in order, when they are absolute.
LEMMA KeyStep ==
    ASSUME ~Relative, LoggerInv, KeyInv, LoggerInv', [Next]_vars
    PROVE  KeyInv'
<1>. USE DEF LoggerInv
<1>1. CASE Tick \/ SetEnabled
  <2>1. UNCHANGED <<kind, first, change, last, queue, buffer, written>> /\ now' >= now
    BY <1>1, Counted DEF Tick, SetEnabled, producerVars, writerVars
  <2>. QED
    BY <2>1, KeysStay DEF Records, Stamped
<1>2. ASSUME NEW n \in Node, SetStatus(n)
      PROVE  KeyInv'
  <2>1. /\ UNCHANGED <<kind, now, first, last, queue, buffer, written>>
        /\ change'[n].time = now /\ \A m \in Node : m # n => change'[m] = change[m]
    BY <1>2 DEF SetStatus, writerVars, TypeOK, ChangeTypeOK
  <2>2. now' >= now /\ now >= now
    BY <2>1, Counted
  <2>. QED
    BY <2>1, <2>2, KeysStay DEF Records, Stamped
<1>3. ASSUME NEW n \in Node, Callback(n)
      PROVE  KeyInv'
  <2>1. CASE enabled
    BY <1>3, <2>1, KeyAdded
  <2>2. CASE ~enabled
    <3>1. /\ UNCHANGED <<kind, now, first, last, queue, buffer, written>>
          /\ change'[n].at = "none" /\ \A m \in Node : m # n => change'[m] = change[m]
      BY <1>3, <2>2 DEF Callback, writerVars, TypeOK, ChangeTypeOK
    <3>2. now' >= now
      BY <3>1, Counted
    <3>. QED
      BY <3>1, <3>2, KeysStay DEF Records, Stamped
  <2>. QED
    BY <2>1, <2>2
<1>4. ASSUME NEW n \in Node, Notify(n)
      PROVE  KeyInv'
  <2>1. /\ UNCHANGED <<kind, now, first, last, queue, buffer, written>>
        /\ change'[n].at = "none" /\ \A m \in Node : m # n => change'[m] = change[m]
    BY <1>4 DEF Notify, TypeOK, ChangeTypeOK
  <2>2. now' >= now
    BY <2>1, Counted
  <2>. QED
    BY <2>1, <2>2, KeysStay DEF Records, Stamped
<1>5. ASSUME UNCHANGED <<kind, now, first, change, last>>, Records' = Records
      PROVE  KeyInv'
  <2>1. now' >= now
    BY <1>5, Counted
  <2>. QED
    BY <1>5, <2>1, KeysStay DEF Stamped
<1>6. CASE Check \/ Block \/ AllWritten \/ Destroy \/ DestroyNotifies \/ Join
  BY <1>5, <1>6 DEF Check, Block, AllWritten, Destroy, DestroyNotifies, Join, producerVars,
                    writerVars, Records
<1>7. CASE Evaluate \/ TimedOut
  <2>1. /\ UNCHANGED <<kind, now, first, change, last, written>> /\ writer \in {"eval", "asleep"}
        /\ Swap \/ UNCHANGED <<queue, buffer>>
    BY <1>7 DEF Evaluate, TimedOut
  <2>2. Records' = Records
    BY <2>1, RecordsOfSwap DEF Records
  <2>. QED
    BY <1>5, <2>1, <2>2
<1>8. CASE Write
  <2>1. /\ UNCHANGED <<kind, now, first, change, last, queue>> /\ buffer # <<>>
        /\ written' = Append(written, Head(buffer)) /\ buffer' = Tail(buffer)
    BY <1>8 DEF Write, producerVars
  <2>2. Records' = Records
    BY <2>1, RecordsOfWrite
  <2>. QED
    BY <1>5, <2>1, <2>2
<1>9. CASE Crash \/ Construct
  BY <1>9, KeysOfFile
<1>10. CASE UNCHANGED vars
  BY <1>5, <1>10 DEF vars, producerVars, writerVars, Records
<1>. QED
  BY <1>1, <1>2, <1>3, <1>4, <1>6, <1>7, <1>8, <1>9, <1>10 DEF Next, WriterStep

\* The timestamp is the primary key of the table Transitions (bt_sqlite_logger.cpp:23): with absolute
\* timestamps no insertion meets a row with the same one, of this session or an older one.
THEOREM TimestampsAreKeys ==
    ASSUME ~Relative
    PROVE  Spec => []KeysUnique
<1>1. Init => KeyInv
  <2>1. ASSUME Init PROVE KeyInv
    <3>1. Records = <<>> /\ Len(<<>>) = 0 /\ first = 0
      BY <2>1, SwapEmpty, EmptySeq DEF Init, Records
    <3>. QED
      BY <3>1 DEF KeyInv
  <2>. QED
    BY <2>1
<1>2. LoggerInv /\ LoggerInv' /\ KeyInv /\ [Next]_vars => KeyInv'
  BY KeyStep
<1>3. LoggerInv /\ KeyInv => KeysUnique
  <2>1. SUFFICES ASSUME LoggerInv, KeyInv, kind = "Sqlite", buffer # <<>>,
                        NEW i \in DOMAIN written
                 PROVE  written[i].stamp # Head(buffer).stamp
    BY DEF KeysUnique
  <2>2. i \in 1 .. Len(written) /\ Len(written) \in Nat
    BY Counted, LenProperties DEF LoggerInv
  <2>3. /\ Records[i] = written[i] /\ Records[Len(written) + 1] = Head(buffer)
        /\ Len(written) + 1 \in 1 .. Len(Records) /\ i \in 1 .. Len(Records)
        /\ Records[i].stamp \in Int
    BY <2>1, <2>2, RecordsBegin, Counted DEF LoggerInv
  <2>4. Records[i].stamp < Records[Len(written) + 1].stamp /\ Records[Len(written) + 1].stamp \in Int
    BY <2>1, <2>2, <2>3, RecordsBegin DEF KeyInv, LoggerInv
  <2>. QED
    BY <2>3, <2>4
<1>. QED
  BY <1>1, <1>2, <1>3, LoggerInvariant, PTL DEF Spec


-------------------------------------------------------------------------------
(* The log                                                                 *)

\* What the abstract log is told: a logger that is closed has nothing but what it has written.
Notified == IF Open THEN Records ELSE written

\* Each step of a logger is one of the log, or none.
LEMMA LogStep ==
    ASSUME LoggerInv, LoggerInv', [Next]_vars
    PROVE  [Log!Next]_(Log!vars)
<1>. USE DEF LoggerInv
<1>1. /\ Log!vars = <<Open, Notified, written, flushed>>
      /\ Log!vars' = <<Open', Notified', written', flushed'>>
  BY DEF Log!vars, Notified, Records
<1>2. ASSUME Open' = Open, Records' = Records, written' = written, flushed' = flushed
      PROVE  Log!vars' = Log!vars
  BY <1>1, <1>2 DEF Notified
<1>3. CASE Tick \/ SetEnabled \/ UNCHANGED vars \/ \E n \in Node : SetStatus(n)
  BY <1>2, <1>3 DEF Tick, SetEnabled, SetStatus, vars, producerVars, writerVars, lifeVars, Open, Records
<1>4. ASSUME NEW n \in Node, Notify(n)
      PROVE  Log!vars' = Log!vars
  <2>1. Open' = Open
    BY <1>4 DEF Notify, NotifyOne, lifeVars, Open
  <2>. QED
    BY <1>2, <1>4, <2>1 DEF Notify, Records
<1>5. ASSUME NEW n \in Node, Callback(n)
      PROVE  [Log!Next]_(Log!vars)
  <2>1. /\ UNCHANGED <<kind, now, enabled, first, buffer, writer, written, flushed, loop, life, session>>
        /\ n \in Stamped /\ change[n].at = "stamped"
    BY <1>5 DEF Callback, writerVars, lifeVars, Stamped
  <2>2. life = "alive" /\ Open /\ Open'
    BY <2>1 DEF LifeInv, Open
  <2>3. CASE enabled
    <3>. DEFINE stamp == IF kind = "Sqlite" THEN last' ELSE change[n].time - first
                t == [node |-> n, stamp |-> stamp]
    <3>1. queue' = Append(queue, t)
      BY <1>5, <2>3 DEF Callback
    <3>2. stamp \in Stamp
      <4>1. /\ change[n].time - first \in 0 .. MaxTime
            /\ Monotonic(change[n].time - first) \in Stamp
        BY <2>1, <2>2, StampTyped
      <4>2. 0 .. MaxTime \subseteq Stamp
        BY Counted DEF Stamp
      <4>3. kind = "Sqlite" => last' = Monotonic(change[n].time - first)
        BY <1>5, <2>3 DEF Callback
      <4>. QED
        BY <4>1, <4>2, <4>3
    <3>. HIDE DEF stamp
    <3>3. t \in Transition
      BY <3>2 DEF Transition
    <3>. HIDE DEF t
    <3>4. written \in Seq(Transition) /\ buffer \in Seq(Transition) /\ queue \in Seq(Transition)
      BY Counted
    <3>5. written \o buffer \o Append(queue, t) = Append(written \o buffer \o queue, t)
      BY <3>3, <3>4, AppendLast
    <3>6. Notified' = Append(Notified, t)
      BY <2>1, <2>2, <3>1, <3>5 DEF Notified, Records
    <3>7. Log!Notify
      BY <2>1, <2>2, <3>3, <3>6 DEF Log!Notify, Notified, Records
    <3>. QED
      BY <3>7 DEF Log!Next
  <2>4. CASE ~enabled
    <3>1. UNCHANGED queue
      BY <1>5, <2>4 DEF Callback
    <3>2. Log!vars' = Log!vars
      BY <1>2, <2>1, <2>2, <3>1 DEF Records
    <3>. QED
      BY <3>2
  <2>. QED
    BY <2>3, <2>4
<1>6. CASE Check
  <2>1. UNCHANGED <<queue, buffer, written, flushed, loop, life>> /\ writer = "check"
        /\ writer' = IF loop THEN "eval" ELSE "ended"
    BY <1>6 DEF Check, producerVars, lifeVars
  <2>2. CASE loop
    BY <1>2, <2>1, <2>2 DEF Open, Records
  <2>3. CASE ~loop
    <3>1. ~Open' /\ Notified' = written /\ UNCHANGED written
      BY <2>1, <2>3 DEF Open, Notified
    <3>2. flushed = Len(written) /\ written \in Seq(Transition) /\ Len(written) \in Nat
      BY <2>1, Counted DEF TypeOK, WriterTypeOK
    <3>3. flushed \in flushed .. Len(written) /\ written' = SubSeq(written, 1, flushed)
      BY <2>1, <3>2, SubSeqFull
    <3>4. Log!Close
      BY <2>1, <3>1, <3>3 DEF Log!Close, Notified, Records
    <3>. QED
      BY <3>4 DEF Log!Next
  <2>. QED
    BY <2>2, <2>3
<1>7. CASE Block
  BY <1>2, <1>7 DEF Block, producerVars, lifeVars, Open, Records
<1>8. CASE Evaluate \/ TimedOut
  <2>1. /\ UNCHANGED <<written, flushed, life>> /\ writer \in {"eval", "asleep"} /\ writer' \in {"write", "blocking"}
        /\ Swap \/ UNCHANGED <<queue, buffer>>
    BY <1>8 DEF Evaluate, TimedOut, lifeVars, Swap
  <2>2. Records' = Records
    BY <2>1, RecordsOfSwap DEF Records
  <2>3. Open' = Open
    BY <2>1 DEF Open
  <2>. QED
    BY <1>2, <2>1, <2>2, <2>3
<1>9. CASE Write
  <2>1. /\ UNCHANGED <<queue, writer, life>> /\ buffer # <<>> /\ writer = "write"
        /\ written' = Append(written, Head(buffer)) /\ buffer' = Tail(buffer)
        /\ flushed' \in {flushed, Len(written')}
    BY <1>9 DEF Write, producerVars, lifeVars
  <2>2. Records' = Records
    BY <2>1, RecordsOfWrite
  <2>3. Open /\ Open'
    BY <2>1 DEF Open, LifeInv
  <2>4. Records[Len(written) + 1] = Head(buffer) /\ Len(written) < Len(Records)
    BY <2>1, RecordsBegin, Counted
  <2>5. Notified = Records /\ Notified' = Notified
    BY <2>2, <2>3 DEF Notified
  <2>6. Log!Write
    BY <2>1, <2>3, <2>4, <2>5 DEF Log!Write, Notified, Records
  <2>. QED
    BY <2>6 DEF Log!Next
<1>10. CASE Destroy
  BY <1>2, <1>10 DEF Destroy, producerVars, writerVars, Open, Records
<1>11. CASE DestroyNotifies
  <2>1. Open' = Open
    BY <1>11 DEF DestroyNotifies, NotifyOne, Open
  <2>. QED
    BY <1>2, <1>11, <2>1 DEF DestroyNotifies, producerVars, Records
<1>12. CASE Join
  BY <1>2, <1>12 DEF Join, producerVars, writerVars, Open, Records
<1>13. CASE Crash
  <2>1. ~Open' /\ Notified' = written'
    BY <1>13 DEF Crash, Open, Notified
  <2>2. Log!Close
    BY <1>13, <2>1, SavedKept DEF Log!Close, Notified, Records
  <2>. QED
    BY <2>2 DEF Log!Next
<1>14. CASE Construct
  <2>1. /\ ~Open /\ Open' /\ queue' = <<>> /\ UNCHANGED buffer
        /\ written' = (IF kind = "Sqlite" THEN written ELSE <<>>) /\ flushed' = Len(written')
    BY <1>14 DEF Construct, Open
  <2>2. buffer = <<>> /\ written \in Seq(Transition) /\ <<>> \in Seq(Transition)
    BY <1>14, GoneIsEmpty, Counted, EmptySeq DEF Construct
  <2>3. written' \in {written, <<>>} /\ written' \in Seq(Transition)
    BY <2>1, <2>2
  <2>4. written' \o <<>> \o <<>> = written'
    BY <2>3, SwapEmpty
  <2>5. Notified' = written'
    BY <2>1, <2>2, <2>4 DEF Notified, Records
  <2>6. Log!Open
    BY <2>1, <2>3, <2>5 DEF Log!Open, Notified, Records
  <2>. QED
    BY <2>6 DEF Log!Next
<1>15. CASE AllWritten
  <2>1. /\ UNCHANGED <<queue, buffer, written, life>> /\ flushed' = Len(written)
        /\ writer = "write" /\ writer' = "check"
    BY <1>15 DEF AllWritten, producerVars, lifeVars
  <2>2. Open /\ Open' /\ Notified' = Notified
    BY <2>1 DEF Open, LifeInv, Notified, Records
  <2>3. Log!Save
    BY <2>1, <2>2 DEF Log!Save, Notified, Records
  <2>. QED
    BY <2>3 DEF Log!Next
<1>. QED
  BY <1>3, <1>4, <1>5, <1>6, <1>7, <1>8, <1>9, <1>10, <1>11, <1>12, <1>13, <1>14, <1>15
  DEF Next, WriterStep

\* The loggers implement the log, up to its liveness: a transition is written at most once, in the
\* order of the notifications, and none of them is missed before the logger is closed
\* (bt_file_logger_v2.cpp and bt_sqlite_logger.cpp, writerLoop()).
THEOREM WritesTheLog == Spec => Log!Init /\ [][Log!Next]_(Log!vars)
<1>1. Init => Log!Init
  <2>1. ASSUME Init PROVE Log!Init
    <3>1. Records = <<>> /\ Open /\ written = <<>> /\ flushed = 0
      BY <2>1, SwapEmpty, EmptySeq DEF Init, Records, Open
    <3>. QED
      BY <3>1 DEF Log!Init, Records
  <2>. QED
    BY <2>1
<1>2. LoggerInv /\ LoggerInv' /\ [Next]_vars => [Log!Next]_(Log!vars)
  BY LogStep
<1>. QED
  BY <1>1, <1>2, LoggerInvariant, PTL DEF Spec

===============================================================================
