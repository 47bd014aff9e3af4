--------------------------- MODULE DevicesProofs ---------------------------
(***************************************************************************)
(* Machines that MCDevices composes, for any values of their constants.     *)
(* What the five consumers take and what the user interface is told comes   *)
(* in order, a speed is not overstated by late answers, no tag is lost in   *)
(* the program, and a recording has its file and its station.               *)
(***************************************************************************)
EXTENDS MCDevices, SequenceTheorems, TLAPS

-----------------------------------------------------------------------------
(* Sequences.                                                               *)

\* Appending keeps what is there and adds the last.
LEMMA AppendIs ==
  ASSUME NEW S, NEW s \in Seq(S), NEW e \in S
  PROVE  /\ Append(s, e) \in Seq(S) /\ Len(Append(s, e)) = Len(s) + 1 /\ Len(s) \in Nat
         /\ \A i \in 1..Len(s) : Append(s, e)[i] = s[i]
         /\ Append(s, e)[Len(s) + 1] = e
         /\ Len(s) + 1 \in 1..Len(Append(s, e))
         /\ \A i \in 1..Len(s) : i \in 1..Len(Append(s, e))
         /\ \A i \in 1..Len(Append(s, e)) : i = Len(s) + 1 \/ i \in 1..Len(s)
<1> DEFINE l == Len(s)
<1> DEFINE a == Append(s, e)
<1>1. /\ a \in Seq(S) /\ Len(a) = l + 1 /\ l \in Nat
      /\ \A i \in 1..l : a[i] = s[i]
      /\ a[l + 1] = e
  OBVIOUS
<1> HIDE DEF a, l
<1>2. /\ l + 1 \in 1..Len(a)
      /\ \A i \in 1..l : i \in 1..Len(a)
      /\ \A i \in 1..Len(a) : i = l + 1 \/ i \in 1..l
  BY <1>1
<1> QED
  BY <1>1, <1>2 DEF a, l

\* The first of a sequence and its tail.
LEMMA TailIs ==
  ASSUME NEW S, NEW s \in Seq(S), s # <<>>
  PROVE  /\ Tail(s) \in Seq(S) /\ Len(Tail(s)) = Len(s) - 1 /\ Len(s) \in Nat /\ Len(s) >= 1
         /\ Head(s) = s[1] /\ s[1] \in S /\ 1 \in 1..Len(s)
         /\ \A i \in 1..Len(s) : i # 1 => /\ i - 1 \in 1..Len(Tail(s))
                                          /\ Tail(s)[i - 1] = s[i]
         /\ \A i \in 1..Len(Tail(s)) : i + 1 \in 1..Len(s) /\ Tail(s)[i] = s[i + 1]
<1> DEFINE a == Tail(s)
<1> DEFINE l == Len(s)
<1>1. /\ a \in Seq(S) /\ Len(a) = l - 1 /\ l \in Nat /\ l >= 1 /\ Head(s) = s[1]
      /\ \A i \in 1..(l - 1) : a[i] = s[i + 1]
  OBVIOUS
<1>2. 1 \in 1..l
  BY <1>1
<1>3. s[1] \in S
  BY <1>2, ElementOfSeq
<1> HIDE DEF a, l
<1>4. ASSUME NEW i \in 1..l, i # 1 PROVE i - 1 \in 1..Len(a) /\ a[i - 1] = s[i]
  <2>1. i - 1 \in 1..(l - 1) /\ (i - 1) + 1 = i
    BY <1>1, <1>4
  <2>2. a[i - 1] = s[(i - 1) + 1]
    BY <1>1, <2>1
  <2> QED
    BY <1>1, <2>1, <2>2
<1>5. ASSUME NEW i \in 1..Len(a) PROVE i + 1 \in 1..l /\ a[i] = s[i + 1]
  BY <1>1
<1> QED
  BY <1>1, <1>2, <1>3, <1>4, <1>5 DEF a, l

-----------------------------------------------------------------------------
(* The five consumers.                                                      *)

Rising(s)     == \A i, j \in 1..Len(s) : i < j => s[i] < s[j]
Before(s, t)  == \A i \in 1..Len(s) : \A j \in 1..Len(t) : s[i] < t[j]
UpToPut(s, n) == \A i \in 1..Len(s) : 1 <= s[i] /\ s[i] <= n

\* The first n of a sequence are its beginning.
First(t, s) == Len(t) <= Len(s) /\ \A i \in 1..Len(t) : t[i] = s[i]

\* What is left of one, after the first d.
After(t, s, d) == \A i \in 1..Len(t) : d + i <= Len(s) /\ t[i] = s[d + i]

ItemTypes == /\ put \in Nat
             /\ done \in Seq(Nat) /\ hand \in Seq(Nat) /\ queue \in Seq(Nat)

\* What is worked on, in hand and queued is each in order, and one before the
\* other; none of it was not put.
ItemsInOrder == /\ Rising(done) /\ Rising(hand) /\ Rising(queue)
                /\ Before(done, hand) /\ Before(done, queue) /\ Before(hand, queue)
                /\ UpToPut(done, put) /\ UpToPut(hand, put) /\ UpToPut(queue, put)

\* Camera and decoder have each item that was put.
AllItems ==
  class \in {"camera", "decoder"} =>
    /\ put = Len(done) + Len(hand) + Len(queue)
    /\ \A i \in 1..Len(done)  : done[i] = i
    /\ \A i \in 1..Len(hand)  : hand[i] = Len(done) + i
    /\ \A i \in 1..Len(queue) : queue[i] = Len(done) + Len(hand) + i

HandIsWorkedOn == thread # "work" => hand = <<>>

ConsumerInv == ItemTypes /\ ItemsInOrder /\ AllItems /\ HandIsWorkedOn

LEMMA EmptyItems == /\ <<>> \in Seq(Nat) /\ Len(<<>>) = 0
                    /\ Rising(<<>>)
                    /\ \A s : Before(s, <<>>) /\ Before(<<>>, s)
                    /\ \A n : UpToPut(<<>>, n)
  BY DEF Rising, Before, UpToPut

\* A part of a sequence keeps what the whole has.
LEMMA PartOfItems ==
  ASSUME NEW s \in Seq(Nat), NEW t \in Seq(Nat), NEW d \in Nat, After(t, s, d),
         NEW n \in Nat, NEW u \in Seq(Nat)
  PROVE  /\ Rising(s) => Rising(t)
         /\ UpToPut(s, n) => UpToPut(t, n)
         /\ Before(u, s) => Before(u, t)
<1> DEFINE l == Len(s)
<1> DEFINE m == Len(t)
<1>0. l \in Nat /\ m \in Nat /\ \A i \in 1..m : d + i <= l /\ t[i] = s[d + i]
  BY DEF After
<1> HIDE DEF l, m
<1>5. ASSUME NEW i \in 1..m PROVE d + i \in 1..l /\ t[i] = s[d + i]
  BY <1>0, <1>5
<1>6. ASSUME NEW i \in 1..m, NEW j \in 1..m, i < j PROVE d + i < d + j
  BY <1>0, <1>6
<1>1. ASSUME NEW i \in 1..Len(t) PROVE d + i \in 1..Len(s) /\ t[i] = s[d + i]
  BY <1>1, <1>5 DEF l, m
<1>2. ASSUME Rising(s), NEW i \in 1..Len(t), NEW j \in 1..Len(t), i < j PROVE t[i] < t[j]
  <2>1. d + i \in 1..Len(s) /\ d + j \in 1..Len(s) /\ d + i < d + j
    BY <1>1, <1>2, <1>6 DEF m
  <2> QED
    BY <1>1, <1>2, <2>1 DEF Rising
<1>3. ASSUME UpToPut(s, n), NEW i \in 1..Len(t) PROVE 1 <= t[i] /\ t[i] <= n
  BY <1>1, <1>3 DEF UpToPut
<1>4. ASSUME Before(u, s), NEW i \in 1..Len(u), NEW j \in 1..Len(t) PROVE u[i] < t[j]
  BY <1>1, <1>4 DEF Before
<1> QED
  BY <1>2, <1>3, <1>4 DEF Rising, UpToPut, Before

LEMMA ConsumerInit == Init => ConsumerInv
<1> SUFFICES ASSUME Init PROVE ConsumerInv
  OBVIOUS
<1>1. put = 0 /\ queue = <<>> /\ hand = <<>> /\ done = <<>>
  BY DEF Init
<1>2. ItemTypes /\ ItemsInOrder /\ HandIsWorkedOn
  BY <1>1, EmptyItems DEF ItemTypes, ItemsInOrder, HandIsWorkedOn
<1>3. AllItems
  BY <1>1, EmptyItems DEF AllItems
<1> QED
  BY <1>2, <1>3 DEF ConsumerInv

\* An item is put.
LEMMA ConsumerPut == ConsumerInv /\ Put1 => ConsumerInv'
<1> SUFFICES ASSUME ConsumerInv, Put1 PROVE ConsumerInv'
  OBVIOUS
<1>1. /\ put' = put + 1 /\ queue' = Append(queue, put + 1)
      /\ UNCHANGED <<class, hand, done>>
      /\ thread' = thread \/ thread' = Woken(thread)
  BY DEF Put1, OnGetImage, DataReceiveDeal, PublishAsync, PushImage, Enqueue, Put
<1>2. ItemTypes /\ ItemsInOrder /\ AllItems /\ HandIsWorkedOn
  BY DEF ConsumerInv
<1>3. /\ put \in Nat /\ queue \in Seq(Nat) /\ Len(queue) \in Nat /\ Len(done) \in Nat /\ Len(hand) \in Nat
      /\ queue' \in Seq(Nat) /\ Len(queue') = Len(queue) + 1
      /\ queue'[Len(queue) + 1] = put + 1
      /\ \A i \in 1..Len(queue) : queue'[i] = queue[i]
  BY <1>1, <1>2 DEF ItemTypes
<1>4. ItemTypes'
  BY <1>1, <1>2, <1>3 DEF ItemTypes
<1>5. ItemsInOrder'
  <2>1. ASSUME NEW s \in Seq(Nat), UpToPut(s, put)
        PROVE  UpToPut(s, put') /\ (Before(s, queue) => Before(s, queue'))
    <3>1. ASSUME NEW i \in 1..Len(s) PROVE s[i] \in Nat /\ 1 <= s[i] /\ s[i] <= put
      BY <2>1 DEF UpToPut
    <3>2. ASSUME Before(s, queue), NEW i \in 1..Len(s), NEW j \in 1..Len(queue') PROVE s[i] < queue'[j]
      <4>1. CASE j = Len(queue) + 1
        BY <1>3, <3>1, <4>1
      <4>2. CASE j # Len(queue) + 1
        <5>1. j \in 1..Len(queue)
          BY <1>3, <4>2
        <5> QED
          BY <1>3, <3>2, <5>1 DEF Before
      <4> QED
        BY <4>1, <4>2
    <3>3. ASSUME NEW i \in 1..Len(s) PROVE 1 <= s[i] /\ s[i] <= put'
      BY <1>1, <1>3, <3>1
    <3>4. UpToPut(s, put')
      BY <3>3 DEF UpToPut
    <3> QED
      BY <3>2, <3>4 DEF Before
  <2>2. ASSUME NEW i \in 1..Len(queue') PROVE 1 <= queue'[i] /\ queue'[i] <= put'
    <3>1. CASE i = Len(queue) + 1
      BY <1>1, <1>3, <3>1
    <3>2. CASE i # Len(queue) + 1
      <4>1. i \in 1..Len(queue)
        BY <1>3, <3>2
      <4>2. queue[i] \in Nat /\ 1 <= queue[i] /\ queue[i] <= put
        BY <1>2, <1>3, <4>1 DEF ItemsInOrder, UpToPut
      <4> QED
        BY <1>1, <1>3, <4>1, <4>2
    <3> QED
      BY <3>1, <3>2
  <2>3. ASSUME NEW i \in 1..Len(queue'), NEW j \in 1..Len(queue'), i < j PROVE queue'[i] < queue'[j]
    <3>1. i \in 1..Len(queue)
      BY <1>3, <2>3
    <3>2. queue'[i] = queue[i] /\ queue[i] \in Nat /\ queue[i] <= put
      BY <1>2, <1>3, <3>1 DEF ItemsInOrder, UpToPut
    <3>3. CASE j = Len(queue) + 1
      BY <1>3, <3>2, <3>3
    <3>4. CASE j # Len(queue) + 1
      <4>1. j \in 1..Len(queue)
        BY <1>3, <3>4
      <4> QED
        BY <1>2, <1>3, <2>3, <3>1, <4>1 DEF ItemsInOrder, Rising
    <3> QED
      BY <3>3, <3>4
  <2>4. UpToPut(queue', put') /\ Rising(queue')
    BY <2>2, <2>3 DEF UpToPut, Rising
  <2> QED
    BY <1>1, <1>2, <2>1, <2>4 DEF ItemTypes, ItemsInOrder
<1>6. AllItems'
  <2> SUFFICES ASSUME class \in {"camera", "decoder"}
               PROVE  /\ put' = Len(done) + Len(hand) + Len(queue')
                      /\ \A i \in 1..Len(queue') : queue'[i] = Len(done) + Len(hand) + i
    BY <1>1, <1>2 DEF AllItems
  <2>1. /\ put = Len(done) + Len(hand) + Len(queue)
        /\ \A i \in 1..Len(queue) : queue[i] = Len(done) + Len(hand) + i
    BY <1>2 DEF AllItems
  <2>2. put + 1 = Len(done) + Len(hand) + (Len(queue) + 1)
    BY <1>3, <2>1
  <2>3. ASSUME NEW i \in 1..Len(queue') PROVE queue'[i] = Len(done) + Len(hand) + i
    <3>1. CASE i = Len(queue) + 1
      BY <1>3, <2>2, <3>1
    <3>2. CASE i # Len(queue) + 1
      <4>1. i \in 1..Len(queue)
        BY <1>3, <3>2
      <4> QED
        BY <1>3, <2>1, <4>1
    <3> QED
      BY <3>1, <3>2
  <2> QED
    BY <1>1, <1>3, <2>2, <2>3
<1>7. HandIsWorkedOn'
  BY <1>1, <1>2 DEF HandIsWorkedOn, Woken
<1> QED
  BY <1>4, <1>5, <1>6, <1>7 DEF ConsumerInv

\* Items are taken, the first n; what is left is a part of the others.
LEMMA TakeKeepsOrder ==
  ASSUME ConsumerInv, thread = "test", NEW n \in Nat, n <= Len(queue), NEW d \in Nat, n <= d,
         hand' = SubSeq(queue, 1, n), queue' \in Seq(Nat), After(queue', queue, d),
         UNCHANGED <<class, put, done>>
  PROVE  ItemTypes' /\ ItemsInOrder' /\ hand = <<>> /\ After(hand', queue, 0) /\ Len(hand') = n
<1>1. ItemTypes /\ ItemsInOrder /\ hand = <<>>
  BY DEF ConsumerInv, HandIsWorkedOn
<1>2. queue \in Seq(Nat) /\ Len(queue) \in Nat /\ put \in Nat /\ done \in Seq(Nat)
  BY <1>1 DEF ItemTypes
<1>3. \A i \in 1..n : queue[i] \in Nat
  <2>1. ASSUME NEW i \in 1..n PROVE queue[i] \in Nat
    <3>1. i \in 1..Len(queue)
      BY <1>2
    <3> QED
      BY <1>2, <3>1, ElementOfSeq
  <2> QED
    BY <2>1
<1>4. hand' \in Seq(Nat) /\ Len(hand') = n /\ \A i \in 1..n : hand'[i] = queue[i]
  <2>1. /\ SubSeq(queue, 1, n) \in Seq(Nat)
        /\ Len(SubSeq(queue, 1, n)) = IF 1 <= n THEN n - 1 + 1 ELSE 0
        /\ \A i \in 1..(n - 1 + 1) : SubSeq(queue, 1, n)[i] = queue[1 + i - 1]
    BY <1>3, SubSeqProperties
  <2>2. (IF 1 <= n THEN n - 1 + 1 ELSE 0) = n /\ n - 1 + 1 = n
    OBVIOUS
  <2>3. ASSUME NEW i \in 1..n PROVE 1 + i - 1 = i
    OBVIOUS
  <2> QED
    BY <2>1, <2>2, <2>3
<1>5. After(hand', queue, 0)
  BY <1>2, <1>4 DEF After
<1>6. ItemTypes'
  BY <1>2, <1>4 DEF ItemTypes
<1>7. Before(hand', queue')
  <2>1. ASSUME NEW i \in 1..Len(hand'), NEW j \in 1..Len(queue') PROVE hand'[i] < queue'[j]
    <3>1. hand'[i] = queue[i] /\ i \in 1..Len(queue)
      BY <1>2, <1>4
    <3>2. queue'[j] = queue[d + j] /\ d + j <= Len(queue) /\ j \in Nat /\ j >= 1
      BY DEF After
    <3>3. d + j \in 1..Len(queue) /\ i < d + j
      BY <1>2, <1>4, <3>2
    <3> QED
      BY <1>1, <3>1, <3>2, <3>3 DEF ItemsInOrder, Rising
  <2> QED
    BY <2>1 DEF Before
<1>8. ItemsInOrder'
  <2>1. 0 \in Nat /\ hand' \in Seq(Nat)
    BY <1>4
  <2>2. Rising(hand') /\ UpToPut(hand', put) /\ Before(done, hand')
    BY <1>1, <1>2, <1>5, <2>1, PartOfItems DEF ItemsInOrder
  <2>3. Rising(queue') /\ UpToPut(queue', put) /\ Before(done, queue')
    BY <1>1, <1>2, PartOfItems DEF ItemsInOrder
  <2> QED
    BY <1>1, <1>7, <2>2, <2>3 DEF ItemsInOrder
<1> QED
  BY <1>1, <1>4, <1>5, <1>6, <1>8

LEMMA ConsumerTake == ConsumerInv /\ TakeItem => ConsumerInv'
<1> SUFFICES ASSUME ConsumerInv, TakeItem PROVE ConsumerInv'
  OBVIOUS
<1>1. queue \in Seq(Nat) /\ Len(queue) \in Nat /\ Keep \in Nat /\ MaxBatch \in Nat /\ MaxBatch >= 1
  BY ConsumerAssumption DEF ConsumerInv, ItemTypes
<1>2. PICK n \in Nat :
        /\ Take(n, queue') /\ n >= 1
        /\ \/ n = 1 /\ queue' = Tail(queue)
           \/ n <= Len(queue) /\ queue' = SubSeq(queue, n + 1, Len(queue)) /\ class = "publisher"
           \/ /\ n = 1 /\ class = "pool"
              /\ \E d \in Nat : queue' = SubSeq(queue, d + 2, Len(queue))
           \/ /\ n = 1 /\ class = "recorder"
              /\ \E k \in Nat : k <= Len(queue) /\ queue' = SubSeq(queue, 2, k)
  <2>1. CASE ImageConsumerThread \/ ConsumerThreadFunc
    <3>1. Take(1, queue') /\ queue' = Tail(queue)
      BY <2>1 DEF ImageConsumerThread, ConsumerThreadFunc, Take
    <3> QED
      BY <3>1
  <2>2. CASE ProcessMessage
    <3> DEFINE m == IF Len(queue) < MaxBatch THEN Len(queue) ELSE MaxBatch
    <3>1. Take(m, SubSeq(queue, m + 1, Len(queue))) /\ class = "publisher"
      BY <2>2 DEF ProcessMessage
    <3> HIDE DEF m
    <3>2. /\ queue # <<>> /\ Take(m, queue')
          /\ queue' = SubSeq(queue, m + 1, Len(queue))
      BY <3>1 DEF Take
    <3>3. Len(queue) >= 1
      BY <1>1, <3>2
    <3>4. m \in Nat /\ m >= 1 /\ m <= Len(queue)
      BY <1>1, <3>3 DEF m
    <3> QED
      BY <3>1, <3>2, <3>4
  <2>3. CASE PoolWorker
    <3> DEFINE dropped == IF Len(queue) - 1 > Keep THEN Len(queue) - 1 - Keep ELSE 0
    <3>1. Take(1, SubSeq(queue, dropped + 2, Len(queue))) /\ class = "pool"
      BY <2>3 DEF PoolWorker
    <3>2. dropped \in Nat
      BY <1>1
    <3> HIDE DEF dropped
    <3>3. Take(1, queue') /\ queue' = SubSeq(queue, dropped + 2, Len(queue))
      BY <3>1 DEF Take
    <3> QED
      BY <3>1, <3>2, <3>3
  <2>4. CASE ThreadRecord
    <3> DEFINE last == IF Len(queue) > Keep + 1 THEN Keep + 1 ELSE Len(queue)
    <3>1. Take(1, SubSeq(queue, 2, last)) /\ class = "recorder"
      BY <2>4 DEF ThreadRecord
    <3>2. last \in Nat /\ last <= Len(queue)
      BY <1>1
    <3> HIDE DEF last
    <3>3. Take(1, queue') /\ queue' = SubSeq(queue, 2, last)
      BY <3>1 DEF Take
    <3> QED
      BY <3>1, <3>2, <3>3
  <2> QED
    BY <2>1, <2>2, <2>3, <2>4 DEF TakeItem
<1>3. /\ queue # <<>> /\ thread = "test" /\ thread' = "work"
      /\ hand' = SubSeq(queue, 1, n) /\ UNCHANGED <<class, put, done>>
  BY <1>2 DEF Take, Step
<1>4. Len(queue) >= 1
  BY <1>1, <1>3
<1>5. n <= Len(queue)
  BY <1>1, <1>2, <1>4
<1>6. ASSUME NEW a \in Nat, NEW b \in Nat, a >= n, b <= Len(queue), queue' = SubSeq(queue, a + 1, b)
      PROVE  /\ queue' \in Seq(Nat) /\ After(queue', queue, a)
             /\ Len(queue') = IF a + 1 <= b THEN b - a ELSE 0
  <2>1. ASSUME NEW i \in (a + 1)..b PROVE queue[i] \in Nat
    <3>1. i \in 1..Len(queue)
      BY <1>1, <1>6
    <3> QED
      BY <1>1, <3>1, ElementOfSeq
  <2>2. a + 1 \in Int /\ b \in Int
    OBVIOUS
  <2>3. /\ queue' \in Seq(Nat)
        /\ Len(queue') = IF a + 1 <= b THEN b - (a + 1) + 1 ELSE 0
        /\ \A i \in 1..(b - (a + 1) + 1) : queue'[i] = queue[(a + 1) + i - 1]
    BY <1>3, <1>6, <2>1, <2>2, SubSeqProperties
  <2>4. ASSUME NEW i \in 1..Len(queue') PROVE a + i <= Len(queue) /\ queue'[i] = queue[a + i]
    <3> DEFINE l == Len(queue')
    <3>2. l = (IF a + 1 <= b THEN b - (a + 1) + 1 ELSE 0) /\ i \in 1..l
      BY <2>3
    <3> HIDE DEF l
    <3>1. i \in 1..(b - (a + 1) + 1) /\ (a + 1) + i - 1 = a + i /\ a + i <= b
      BY <3>2
    <3>3. a + i <= Len(queue)
      BY <1>1, <1>6, <3>1
    <3>4. queue'[i] = queue[(a + 1) + i - 1]
      BY <2>3, <3>1
    <3> QED
      BY <3>1, <3>3, <3>4
  <2>5. Len(queue') = IF a + 1 <= b THEN b - a ELSE 0
    BY <2>3
  <2> QED
    BY <2>3, <2>4, <2>5 DEF After
<1>7. CASE n = 1 /\ queue' = Tail(queue)
  <2>1. /\ queue' \in Seq(Nat) /\ Len(queue') = Len(queue) - 1
        /\ \A i \in 1..(Len(queue) - 1) : queue'[i] = queue[i + 1]
    BY <1>1, <1>3, <1>7
  <2>2. After(queue', queue, 1)
    <3>1. ASSUME NEW i \in 1..Len(queue') PROVE 1 + i <= Len(queue) /\ queue'[i] = queue[1 + i]
      <4>1. i \in 1..(Len(queue) - 1) /\ i + 1 = 1 + i
        BY <1>1, <2>1
      <4> QED
        BY <1>1, <2>1, <4>1
    <3> QED
      BY <3>1 DEF After
  <2>3. ItemTypes' /\ ItemsInOrder' /\ hand = <<>> /\ After(hand', queue, 0) /\ Len(hand') = 1
    BY <1>3, <1>4, <1>7, <2>1, <2>2, TakeKeepsOrder
  <2>4. AllItems'
    <3> SUFFICES ASSUME class \in {"camera", "decoder"}
                 PROVE  /\ put = Len(done) + Len(hand') + Len(queue')
                        /\ \A i \in 1..Len(done)  : done[i] = i
                        /\ \A i \in 1..Len(hand')  : hand'[i] = Len(done) + i
                        /\ \A i \in 1..Len(queue') : queue'[i] = Len(done) + Len(hand') + i
      BY <1>3 DEF AllItems
    <3>1. AllItems /\ Len(done) \in Nat
      BY DEF ConsumerInv, ItemTypes
    <3>2. Len(hand) = 0
      BY <2>3
    <3>3. /\ put = Len(done) + Len(queue)
          /\ \A i \in 1..Len(done)  : done[i] = i
          /\ \A i \in 1..Len(queue) : queue[i] = Len(done) + i
      <4>1. /\ put = Len(done) + Len(hand) + Len(queue)
            /\ \A i \in 1..Len(done)  : done[i] = i
            /\ \A i \in 1..Len(queue) : queue[i] = Len(done) + Len(hand) + i
        BY <3>1 DEF AllItems
      <4> QED
        BY <1>1, <3>1, <3>2, <4>1
    <3>4. ASSUME NEW i \in 1..Len(hand') PROVE hand'[i] = Len(done) + i
      <4>1. 0 + i = i /\ i \in 1..Len(queue)
        BY <1>1, <1>4, <2>3
      <4>2. hand'[i] = queue[i]
        BY <2>3, <4>1 DEF After
      <4> QED
        BY <3>3, <4>1, <4>2
    <3>5. ASSUME NEW i \in 1..Len(queue') PROVE queue'[i] = Len(done) + Len(hand') + i
      <4>1. i + 1 \in 1..Len(queue) /\ i \in 1..(Len(queue) - 1)
        BY <1>1, <2>1
      <4>2. queue'[i] = queue[i + 1] /\ queue[i + 1] = Len(done) + (i + 1)
        BY <2>1, <3>3, <4>1
      <4> QED
        BY <2>3, <3>1, <4>1, <4>2
    <3>6. put = Len(done) + Len(hand') + Len(queue')
      BY <1>1, <2>1, <2>3, <3>1, <3>3
    <3> QED
      BY <3>3, <3>4, <3>5, <3>6
  <2> QED
    BY <1>3, <2>3, <2>4 DEF ConsumerInv, HandIsWorkedOn
<1>8. CASE ~(n = 1 /\ queue' = Tail(queue))
  <2>1. PICK a \in Nat, b \in Nat : a >= n /\ b <= Len(queue) /\ queue' = SubSeq(queue, a + 1, b)
    <3>1. CASE n <= Len(queue) /\ queue' = SubSeq(queue, n + 1, Len(queue))
      <4>1. n >= n /\ Len(queue) <= Len(queue)
        BY <1>1
      <4> QED
        BY <1>1, <3>1, <4>1
    <3>2. CASE n = 1 /\ \E d \in Nat : queue' = SubSeq(queue, d + 2, Len(queue))
      <4>1. PICK d \in Nat : queue' = SubSeq(queue, d + 2, Len(queue))
        BY <3>2
      <4> DEFINE a == d + 1
      <4>2. a \in Nat /\ a >= n /\ a + 1 = d + 2 /\ Len(queue) <= Len(queue)
        BY <1>1, <3>2
      <4> HIDE DEF a
      <4>3. queue' = SubSeq(queue, a + 1, Len(queue))
        BY <4>1, <4>2
      <4> QED
        BY <1>1, <4>2, <4>3
    <3>3. CASE n = 1 /\ \E k \in Nat : k <= Len(queue) /\ queue' = SubSeq(queue, 2, k)
      <4>1. PICK k \in Nat : k <= Len(queue) /\ queue' = SubSeq(queue, 2, k)
        BY <3>3
      <4>2. n >= n /\ n + 1 = 2
        BY <3>3
      <4>3. queue' = SubSeq(queue, n + 1, k)
        BY <4>1, <4>2
      <4> QED
        BY <4>1, <4>2, <4>3
    <3> QED
      BY <1>2, <1>8, <3>1, <3>2, <3>3
  <2>2. queue' \in Seq(Nat) /\ After(queue', queue, a)
    BY <1>6, <2>1
  <2>3. ItemTypes' /\ ItemsInOrder' /\ hand = <<>> /\ After(hand', queue, 0) /\ Len(hand') = n
    BY <1>3, <1>5, <2>1, <2>2, TakeKeepsOrder
  <2>4. class \notin {"camera", "decoder"}
    BY <1>2, <1>8
  <2> QED
    BY <1>3, <2>3, <2>4 DEF ConsumerInv, HandIsWorkedOn, AllItems
<1> QED
  BY <1>7, <1>8

\* An item is worked on.
LEMMA ConsumerWork == ConsumerInv /\ Work => ConsumerInv'
<1> SUFFICES ASSUME ConsumerInv, Work PROVE ConsumerInv'
  OBVIOUS
<1>1. /\ hand # <<>> /\ done' = Append(done, Head(hand)) /\ hand' = Tail(hand)
      /\ thread' = (IF Len(hand) = 1 THEN "top" ELSE "work")
      /\ UNCHANGED <<class, put, queue>>
  BY DEF Work, Step
<1>2. ItemTypes /\ ItemsInOrder /\ AllItems
  BY DEF ConsumerInv
<1>3. /\ put \in Nat /\ hand \in Seq(Nat) /\ Len(hand) \in Nat /\ Len(queue) \in Nat
      /\ done \in Seq(Nat) /\ Len(done) \in Nat /\ queue \in Seq(Nat)
  BY <1>2 DEF ItemTypes
<1>4. /\ hand' \in Seq(Nat) /\ Len(hand') = Len(hand) - 1 /\ Len(hand) >= 1
      /\ \A i \in 1..(Len(hand) - 1) : hand'[i] = hand[i + 1]
      /\ Head(hand) = hand[1]
  BY <1>1, <1>3
<1>5. hand[1] \in Nat /\ 1 \in 1..Len(hand)
  BY <1>3, <1>4, ElementOfSeq
<1>12. ASSUME NEW i \in 1..Len(hand')
       PROVE  i + 1 \in 1..Len(hand) /\ i \in 1..(Len(hand) - 1)
  <2> DEFINE l == Len(hand)
  <2>1. l \in Nat /\ i \in 1..(l - 1)
    BY <1>3, <1>4
  <2> HIDE DEF l
  <2>2. i + 1 \in 1..l /\ i \in 1..(l - 1)
    BY <2>1
  <2> QED
    BY <2>2 DEF l
<1>6. /\ done' \in Seq(Nat) /\ Len(done') = Len(done) + 1
      /\ done'[Len(done) + 1] = hand[1]
      /\ \A i \in 1..Len(done) : done'[i] = done[i]
  BY <1>1, <1>3, <1>4, <1>5
<1>7. ItemTypes'
  BY <1>1, <1>3, <1>4, <1>6 DEF ItemTypes
<1>8. After(hand', hand, 1)
  BY <1>3, <1>4 DEF After
<1>9. ItemsInOrder'
  <2>1. Rising(hand') /\ UpToPut(hand', put) /\ Before(done, hand')
    BY <1>2, <1>3, <1>4, <1>8, PartOfItems DEF ItemsInOrder
  <2>2. ASSUME NEW s \in Seq(Nat), Before(done, s), \A j \in 1..Len(s) : hand[1] < s[j]
        PROVE  Before(done', s)
    <3>1. ASSUME NEW i \in 1..Len(done'), NEW j \in 1..Len(s) PROVE done'[i] < s[j]
      <4>1. CASE i = Len(done) + 1
        BY <1>6, <2>2, <4>1
      <4>2. CASE i # Len(done) + 1
        <5>1. i \in 1..Len(done)
          BY <1>3, <1>6, <4>2
        <5> QED
          BY <1>6, <2>2, <5>1 DEF Before
      <4> QED
        BY <4>1, <4>2
    <3> QED
      BY <3>1 DEF Before
  <2>3. ASSUME NEW j \in 1..Len(queue) PROVE hand[1] < queue[j]
    BY <1>2, <1>5 DEF ItemsInOrder, Before
  <2>4. ASSUME NEW j \in 1..Len(hand') PROVE hand[1] < hand'[j]
    <3>1. j + 1 \in 1..Len(hand) /\ 1 < j + 1 /\ j \in 1..(Len(hand) - 1)
      BY <1>3, <1>4
    <3>2. hand[1] < hand[j + 1]
      BY <1>2, <1>5, <3>1 DEF ItemsInOrder, Rising
    <3> QED
      BY <1>4, <3>1, <3>2
  <2>5. Before(done', hand') /\ Before(done', queue)
    <3>1. Before(done, queue)
      BY <1>2 DEF ItemsInOrder
    <3> QED
      BY <1>3, <1>4, <2>1, <2>2, <2>3, <2>4, <3>1
  <2>6. Before(hand', queue)
    <3>1. ASSUME NEW i \in 1..Len(hand'), NEW j \in 1..Len(queue) PROVE hand'[i] < queue[j]
      <4>1. i + 1 \in 1..Len(hand) /\ i \in 1..(Len(hand) - 1)
        BY <1>12
      <4> QED
        BY <1>2, <1>4, <4>1 DEF ItemsInOrder, Before
    <3> QED
      BY <3>1 DEF Before
  <2>7. Rising(done')
    <3>1. ASSUME NEW i \in 1..Len(done'), NEW j \in 1..Len(done'), i < j PROVE done'[i] < done'[j]
      <4>1. i \in 1..Len(done)
        BY <1>3, <1>6, <3>1
      <4>2. CASE j = Len(done) + 1
        BY <1>2, <1>5, <1>6, <4>1, <4>2 DEF ItemsInOrder, Before
      <4>3. CASE j # Len(done) + 1
        <5>1. j \in 1..Len(done)
          BY <1>3, <1>6, <4>3
        <5> QED
          BY <1>2, <1>6, <3>1, <4>1, <5>1 DEF ItemsInOrder, Rising
      <4> QED
        BY <4>2, <4>3
    <3> QED
      BY <3>1 DEF Rising
  <2>8. UpToPut(done', put)
    <3>1. ASSUME NEW i \in 1..Len(done') PROVE 1 <= done'[i] /\ done'[i] <= put
      <4>1. CASE i = Len(done) + 1
        BY <1>2, <1>5, <1>6, <4>1 DEF ItemsInOrder, UpToPut
      <4>2. CASE i # Len(done) + 1
        <5>1. i \in 1..Len(done)
          BY <1>3, <1>6, <4>2
        <5> QED
          BY <1>2, <1>6, <5>1 DEF ItemsInOrder, UpToPut
      <4> QED
        BY <4>1, <4>2
    <3> QED
      BY <3>1 DEF UpToPut
  <2> QED
    BY <1>1, <1>2, <2>1, <2>5, <2>6, <2>7, <2>8 DEF ItemsInOrder
<1>10. AllItems'
  <2> SUFFICES ASSUME class \in {"camera", "decoder"}
               PROVE  /\ put = Len(done') + Len(hand') + Len(queue)
                      /\ \A i \in 1..Len(done')  : done'[i] = i
                      /\ \A i \in 1..Len(hand')  : hand'[i] = Len(done') + i
                      /\ \A i \in 1..Len(queue) : queue[i] = Len(done') + Len(hand') + i
    BY <1>1 DEF AllItems
  <2>1. /\ put = Len(done) + Len(hand) + Len(queue)
        /\ \A i \in 1..Len(done)  : done[i] = i
        /\ \A i \in 1..Len(hand)  : hand[i] = Len(done) + i
        /\ \A i \in 1..Len(queue) : queue[i] = Len(done) + Len(hand) + i
    BY <1>2 DEF AllItems
  <2>2. Len(done') + Len(hand') = Len(done) + Len(hand)
    BY <1>3, <1>4, <1>6
  <2>3. ASSUME NEW i \in 1..Len(done') PROVE done'[i] = i
    <3>1. CASE i = Len(done) + 1
      BY <1>5, <1>6, <2>1, <3>1
    <3>2. CASE i # Len(done) + 1
      <4>1. i \in 1..Len(done)
        BY <1>3, <1>6, <3>2
      <4> QED
        BY <1>6, <2>1, <4>1
    <3> QED
      BY <3>1, <3>2
  <2>4. ASSUME NEW i \in 1..Len(hand') PROVE hand'[i] = Len(done') + i
    <3>1. i + 1 \in 1..Len(hand) /\ i \in 1..(Len(hand) - 1)
      BY <1>12
    <3>2. hand'[i] = Len(done) + (i + 1)
      BY <1>4, <2>1, <3>1
    <3> QED
      BY <1>3, <1>6, <3>1, <3>2
  <2> QED
    BY <2>1, <2>2, <2>3, <2>4
<1>11. HandIsWorkedOn'
  <2>1. ASSUME thread' # "work" PROVE hand' = <<>>
    <3>1. Len(hand) = 1
      BY <1>1, <2>1
    <3>2. Len(hand') = 0
      BY <1>4, <3>1
    <3> QED
      BY <1>4, <3>2, EmptySeq
  <2> QED
    BY <2>1 DEF HandIsWorkedOn
<1> QED
  BY <1>7, <1>9, <1>10, <1>11 DEF ConsumerInv

\* What changes no item keeps their order.
LEMMA ItemsKept ==
  ASSUME ConsumerInv, UNCHANGED <<class, put, queue, hand, done>>,
         thread = "work" => thread' = "work" \/ hand = <<>>
  PROVE  ConsumerInv'
<1>1. ItemTypes' /\ ItemsInOrder'
  BY DEF ConsumerInv, ItemTypes, ItemsInOrder
<1>2. AllItems'
  BY DEF ConsumerInv, AllItems
<1>3. HandIsWorkedOn'
  BY DEF ConsumerInv, HandIsWorkedOn
<1> QED
  BY <1>1, <1>2, <1>3 DEF ConsumerInv

LEMMA ConsumerStep == ConsumerInv /\ [Next]_consumerVars => ConsumerInv'
<1> SUFFICES ASSUME ConsumerInv, [Next]_consumerVars PROVE ConsumerInv'
  OBVIOUS
<1>1. CASE Put1
  BY <1>1, ConsumerPut
<1>2. CASE TakeItem
  BY <1>2, ConsumerTake
<1>3. CASE Work
  BY <1>3, ConsumerWork
<1>4. CASE SendFails
  <2>1. /\ class = "publisher" /\ hand' = <<>>
        /\ UNCHANGED <<class, put, queue, done>>
    BY <1>4 DEF SendFails, Step
  <2>2. ItemTypes' /\ ItemsInOrder' /\ AllItems' /\ HandIsWorkedOn'
    BY <2>1, EmptyItems DEF ConsumerInv, ItemTypes, ItemsInOrder, AllItems, HandIsWorkedOn
  <2> QED
    BY <2>2 DEF ConsumerInv
<1>5. CASE Top \/ Wait \/ Sleep \/ Leave
  BY <1>5, ItemsKept DEF Top, Wait, Sleep, Leave, Step
<1>6. CASE NotifyOne \/ End \/ NotifyAll \/ Join
  BY <1>6, ItemsKept DEF NotifyOne, NotifyAll, Join, End, CameraCtrlEnd, RemotePublisherEnd,
     DeviceClose, SaveVideoEnd, ThreadPoolEnd, Clear, Woken
<1>7. CASE UNCHANGED consumerVars
  BY <1>7, ItemsKept DEF consumerVars
<1> QED
  BY <1>1, <1>2, <1>3, <1>4, <1>5, <1>6, <1>7 DEF Next, Consumer

\* Two sequences in order, one before the other, are one in order.
LEMMA RisingConcat ==
  ASSUME NEW s \in Seq(Nat), NEW t \in Seq(Nat), Rising(s), Rising(t), Before(s, t)
  PROVE  /\ s \o t \in Seq(Nat) /\ Len(s \o t) = Len(s) + Len(t) /\ Rising(s \o t)
         /\ \A i \in 1..Len(s) : (s \o t)[i] = s[i]
         /\ \A i \in 1..Len(t) : (s \o t)[Len(s) + i] = t[i]
         /\ \A u \in Seq(Nat) : Before(s, u) /\ Before(t, u) => Before(s \o t, u)
<1> DEFINE a == s \o t
<1> DEFINE l == Len(s)
<1> DEFINE m == Len(t)
<1>1. /\ a \in Seq(Nat) /\ Len(a) = l + m /\ l \in Nat /\ m \in Nat
      /\ \A i \in 1..(l + m) : a[i] = IF i <= l THEN s[i] ELSE t[i - l]
  BY ConcatProperties
<1>2. ASSUME NEW i \in 1..l PROVE a[i] = s[i]
  BY <1>1
<1>3. ASSUME NEW i \in 1..m PROVE a[l + i] = t[i]
  <2>1. l + i \in 1..(l + m) /\ ~(l + i <= l) /\ (l + i) - l = i
    BY <1>1
  <2> QED
    BY <1>1, <2>1
<1>4. ASSUME NEW i \in 1..(l + m), ~(i <= l) PROVE i - l \in 1..m /\ a[i] = t[i - l]
  BY <1>1, <1>4
<1>5. ASSUME NEW i \in 1..Len(a), NEW j \in 1..Len(a), i < j PROVE a[i] < a[j]
  <2>1. CASE j <= l
    <3>1. i \in 1..l /\ j \in 1..l
      BY <1>1, <1>5, <2>1
    <3> QED
      BY <1>2, <1>5, <3>1 DEF Rising
  <2>2. CASE ~(j <= l) /\ i <= l
    <3>1. i \in 1..l
      BY <1>1, <1>5, <2>2
    <3>2. j - l \in 1..m /\ a[j] = t[j - l]
      BY <1>1, <1>4, <1>5, <2>2
    <3> QED
      BY <1>2, <3>1, <3>2 DEF Before
  <2>3. CASE ~(i <= l)
    <3>1. i - l \in 1..m /\ a[i] = t[i - l]
      BY <1>1, <1>4, <1>5, <2>3
    <3>2. ~(j <= l)
      BY <1>1, <1>5, <2>3
    <3>3. j - l \in 1..m /\ a[j] = t[j - l]
      BY <1>1, <1>4, <1>5, <3>2
    <3>4. i - l < j - l
      BY <1>1, <1>5
    <3> QED
      BY <3>1, <3>3, <3>4 DEF Rising
  <2> QED
    BY <2>1, <2>2, <2>3
<1>6. ASSUME NEW u \in Seq(Nat), Before(s, u), Before(t, u),
             NEW i \in 1..Len(a), NEW j \in 1..Len(u)
      PROVE  a[i] < u[j]
  <2>1. CASE i <= l
    <3>1. i \in 1..l
      BY <1>1, <2>1
    <3> QED
      BY <1>2, <1>6, <3>1 DEF Before
  <2>2. CASE ~(i <= l)
    <3>1. i - l \in 1..m /\ a[i] = t[i - l]
      BY <1>1, <1>4, <2>2
    <3> QED
      BY <1>6, <3>1 DEF Before
  <2> QED
    BY <2>1, <2>2
<1>7. Rising(a) /\ \A u \in Seq(Nat) : Before(s, u) /\ Before(t, u) => Before(a, u)
  BY <1>5, <1>6 DEF Rising, Before
<1> QED
  BY <1>1, <1>2, <1>3, <1>7

LEMMA ConsumerSound == ConsumerInv => InOrderOnce
<1> SUFFICES ASSUME ConsumerInv PROVE InOrderOnce
  OBVIOUS
<1> DEFINE front == done \o hand
<1> DEFINE all == front \o queue
<1>1. ItemTypes /\ ItemsInOrder /\ AllItems
  BY DEF ConsumerInv
<1>2. /\ done \in Seq(Nat) /\ hand \in Seq(Nat) /\ queue \in Seq(Nat) /\ put \in Nat
      /\ Len(done) \in Nat /\ Len(hand) \in Nat /\ Len(queue) \in Nat
  BY <1>1 DEF ItemTypes
<1>3. /\ front \in Seq(Nat) /\ Len(front) = Len(done) + Len(hand) /\ Rising(front)
      /\ \A i \in 1..Len(done) : front[i] = done[i]
      /\ \A i \in 1..Len(hand) : front[Len(done) + i] = hand[i]
      /\ Before(front, queue)
  BY <1>1, <1>2, RisingConcat DEF ItemsInOrder
<1> HIDE DEF front
<1>4. /\ all \in Seq(Nat) /\ Len(all) = Len(front) + Len(queue) /\ Rising(all)
      /\ \A i \in 1..Len(front) : all[i] = front[i]
      /\ \A i \in 1..Len(queue) : all[Len(front) + i] = queue[i]
  BY <1>1, <1>2, <1>3, RisingConcat DEF ItemsInOrder
<1> HIDE DEF all
<1>5. ASSUME NEW i \in 2..Len(all) PROVE all[i - 1] < all[i]
  <2>1. i - 1 \in 1..Len(all) /\ i \in 1..Len(all) /\ i - 1 < i
    BY <1>4
  <2> QED
    BY <1>4, <2>1 DEF Rising
<1>6. ASSUME class \in {"camera", "decoder"} PROVE all = [i \in 1..put |-> i]
  <2>1. /\ put = Len(done) + Len(hand) + Len(queue)
        /\ \A i \in 1..Len(done)  : done[i] = i
        /\ \A i \in 1..Len(hand)  : hand[i] = Len(done) + i
        /\ \A i \in 1..Len(queue) : queue[i] = Len(done) + Len(hand) + i
    BY <1>1, <1>6 DEF AllItems
  <2>2. Len(all) = put
    BY <1>2, <1>3, <1>4, <2>1
  <2>3. ASSUME NEW i \in 1..put PROVE all[i] = i
    <3>1. CASE i <= Len(done)
      <4>1. i \in 1..Len(done) /\ i \in 1..Len(front)
        BY <1>2, <1>3, <3>1
      <4> QED
        BY <1>3, <1>4, <2>1, <4>1
    <3>2. CASE ~(i <= Len(done)) /\ i <= Len(front)
      <4> DEFINE k == i - Len(done)
      <4>1. k \in 1..Len(hand) /\ i \in 1..Len(front) /\ Len(done) + k = i
        BY <1>2, <1>3, <3>2
      <4> HIDE DEF k
      <4>2. front[i] = hand[k] /\ hand[k] = Len(done) + k
        BY <1>3, <2>1, <4>1
      <4> QED
        BY <1>4, <4>1, <4>2
    <3>3. CASE ~(i <= Len(front))
      <4> DEFINE k == i - Len(front)
      <4>1. k \in 1..Len(queue) /\ Len(front) + k = i
        BY <1>2, <1>3, <1>4, <2>2, <3>3
      <4> HIDE DEF k
      <4>2. all[i] = queue[k] /\ queue[k] = Len(done) + Len(hand) + k
        BY <1>4, <2>1, <4>1
      <4> QED
        BY <1>2, <1>3, <4>1, <4>2
    <3> QED
      BY <3>1, <3>2, <3>3
  <2>4. all = [i \in 1..Len(all) |-> all[i]]
    BY <1>4
  <2>5. [i \in 1..Len(all) |-> all[i]] = [i \in 1..put |-> i]
    BY <2>2, <2>3
  <2> QED
    BY <2>4, <2>5
<1> QED
  BY <1>5, <1>6 DEF InOrderOnce, all, front

-----------------------------------------------------------------------------
(* The calls of the user interface.                                         *)

\* The calls that come before those posted to the module.
ToldBefore == shown \o invoked \o m_storeCallsFromCpp

CallTypes == /\ made \in Nat /\ posted \in Seq(Nat) /\ m_storeCallsFromCpp \in Seq(Nat)
             /\ invoked \in Seq(Nat) /\ shown \in Seq(Nat)

\* On the main thread nothing is invoked before the start.
PhaseOfThread == /\ phase = "made" => pageThread = "main" /\ invoked = <<>>
                 /\ phase = "started" => pageThread = "module"

\* The calls f and those posted, p, are the first n, and d are the direct ones:
\* a later call comes before an earlier one only as a direct one before a
\* posted one.
InTheirOrder(f, p, n, d) ==
  /\ Len(f) + Len(p) = n
  /\ \A i \in 1..Len(f) : f[i] \in 1..n
  /\ \A i \in 1..Len(p) : p[i] \in 1..n /\ p[i] \notin d
  /\ \A k \in 1..n : \/ \E i \in 1..Len(f) : f[i] = k
                     \/ \E i \in 1..Len(p) : p[i] = k
  /\ \A k \in d : k \in 1..n
  /\ \A i, j \in 1..Len(p) : i < j => p[i] < p[j]
  /\ \A i, j \in 1..Len(f) : i < j /\ f[i] > f[j] => f[i] \in d /\ f[j] \notin d
  /\ \A i \in 1..Len(f) : \A j \in 1..Len(p) : f[i] > p[j] => f[i] \in d

CallInv == phase \in {"made", "started"} =>
             CallTypes /\ PhaseOfThread /\ InTheirOrder(ToldBefore, posted, made, direct)

LEMMA JoinedIs ==
  ASSUME NEW s \in Seq(Nat), NEW v \in Seq(Nat), NEW t \in Seq(Nat)
  PROVE  (s \o v) \o t = s \o (v \o t)
BY ConcatAssociative

LEMMA FrontIs ==
  ASSUME NEW s \in Seq(Nat), NEW v \in Seq(Nat), NEW t \in Seq(Nat)
  PROVE  s \o v \in Seq(Nat) /\ s \o v \o t \in Seq(Nat)
<1>1. s \o v \in Seq(Nat)
  BY ConcatProperties
<1> QED
  BY <1>1, ConcatProperties

\* A call that is added to one of the three is the last of them, when those
\* behind it are empty.
LEMMA FrontAdded ==
  ASSUME NEW s \in Seq(Nat), NEW v \in Seq(Nat), NEW t \in Seq(Nat), NEW k \in Nat
  PROVE  /\ s \o v \o Append(t, k) = Append(s \o v \o t, k)
         /\ s \o (v \o (t \o <<k>>)) \o <<>> = Append(s \o v \o t, k)
         /\ v = <<>> => (s \o (t \o <<k>>)) \o v \o <<>> = Append(s \o v \o t, k)
<1> DEFINE o == <<k>>
<1> DEFINE sv == s \o v
<1> DEFINE svt == sv \o t
<1>1. o \in Seq(Nat) /\ sv \in Seq(Nat) /\ svt \in Seq(Nat)
  BY FrontIs
<1>2. Append(t, k) = t \o o /\ Append(svt, k) = svt \o o
  BY <1>1, AppendIsConcat
<1> HIDE DEF o, sv, svt
<1>3. svt \o o = sv \o (t \o o)
  <2>1. sv \in Seq(Nat) /\ o \in Seq(Nat)
    BY <1>1
  <2>2. (sv \o t) \o o = sv \o (t \o o)
    BY <2>1, JoinedIs
  <2> QED
    BY <2>2 DEF svt
<1> DEFINE r == t \o o
<1>4. r \in Seq(Nat)
  BY <1>1, ConcatProperties
<1> HIDE DEF r
<1>5. sv \o r = s \o (v \o r)
  BY <1>4, JoinedIs DEF sv
<1>6. v \o r \in Seq(Nat) /\ s \o r \in Seq(Nat)
  BY <1>4, ConcatProperties
<1>7. s \o (v \o r) \in Seq(Nat)
  BY <1>6, ConcatProperties
<1>8. s \o (v \o r) \o <<>> = s \o (v \o r)
  BY <1>7, ConcatEmptySeq
<1>9. ASSUME v = <<>> PROVE (s \o r) \o v \o <<>> = s \o (v \o r)
  <2>1. v \o r = r
    BY <1>4, <1>9, ConcatEmptySeq
  <2>2. (s \o r) \o v = s \o r
    BY <1>6, <1>9, ConcatEmptySeq
  <2>3. (s \o r) \o <<>> = s \o r
    BY <1>6, ConcatEmptySeq
  <2> QED
    BY <1>9, <2>1, <2>2, <2>3
<1> QED
  BY <1>2, <1>3, <1>5, <1>8, <1>9 DEF o, r, sv, svt

\* What is shown next moves from the second to the first.
LEMMA FrontShown ==
  ASSUME NEW s \in Seq(Nat), NEW v \in Seq(Nat), NEW t \in Seq(Nat), v # <<>>
  PROVE  Append(s, Head(v)) \o Tail(v) \o t = s \o v \o t
<1> DEFINE h == Head(v)
<1> DEFINE r == Tail(v)
<1> DEFINE o == <<h>>
<1>1. h \in Nat /\ r \in Seq(Nat)
  BY HeadTailProperties
<1>2. v = o \o r
  BY TailIs, SMTT(30)
<1>3. o \in Seq(Nat)
  BY <1>1
<1>4. Append(s, h) = s \o o
  BY <1>1, AppendIsConcat
<1>5. r \in Seq(Nat)
  BY <1>1
<1> HIDE DEF h, r, o
<1>6. (s \o o) \o r = s \o (o \o r)
  BY <1>3, <1>5, JoinedIs
<1> QED
  BY <1>2, <1>4, <1>6 DEF h, r

\* A direct call comes after the front.
LEMMA DirectInOrder ==
  ASSUME NEW f \in Seq(Nat), NEW p \in Seq(Nat), NEW n \in Nat, NEW d, InTheirOrder(f, p, n, d)
  PROVE  InTheirOrder(Append(f, n + 1), p, n + 1, d \cup {n + 1})
<1> DEFINE a == Append(f, n + 1)
<1> DEFINE e == d \cup {n + 1}
<1>1. /\ a \in Seq(Nat) /\ Len(a) = Len(f) + 1 /\ Len(f) \in Nat
      /\ \A i \in 1..Len(f) : a[i] = f[i] /\ i \in 1..Len(a)
      /\ a[Len(f) + 1] = n + 1 /\ Len(f) + 1 \in 1..Len(a)
      /\ \A i \in 1..Len(a) : i = Len(f) + 1 \/ i \in 1..Len(f)
  BY AppendIs
<1> HIDE DEF a
<1>2. Len(p) \in Nat /\ Len(f) + Len(p) = n
  BY DEF InTheirOrder
<1>3. Len(a) + Len(p) = n + 1
  BY <1>1, <1>2
<1>4. /\ \A i \in 1..Len(f) : f[i] \in 1..n
      /\ \A i \in 1..Len(p) : p[i] \in 1..n /\ p[i] \notin d
      /\ \A k \in d : k \in 1..n
  BY DEF InTheirOrder
<1>5. ASSUME NEW k \in 1..n PROVE k \in 1..(n + 1) /\ k # n + 1 /\ ~(k > n + 1) /\ k \in Nat
  OBVIOUS
<1>6. n + 1 \in 1..(n + 1) /\ \A k \in 1..(n + 1) : k = n + 1 \/ k \in 1..n
  OBVIOUS
<1>7. \A i \in 1..Len(a) : a[i] \in 1..(n + 1)
  BY <1>1, <1>4, <1>5, <1>6
<1>8. \A i \in 1..Len(p) : p[i] \in 1..(n + 1) /\ p[i] \notin e
  BY <1>4, <1>5
<1>9. ASSUME NEW k \in 1..(n + 1)
      PROVE  \/ \E i \in 1..Len(a) : a[i] = k
             \/ \E i \in 1..Len(p) : p[i] = k
  <2>1. CASE k = n + 1
    BY <1>1, <2>1
  <2>2. CASE k \in 1..n
    <3>1. \/ \E i \in 1..Len(f) : f[i] = k
          \/ \E i \in 1..Len(p) : p[i] = k
      BY <2>2 DEF InTheirOrder
    <3> QED
      BY <1>1, <3>1
  <2> QED
    BY <1>6, <2>1, <2>2
<1>10. \A k \in e : k \in 1..(n + 1)
  BY <1>4, <1>5, <1>6
<1>11. ASSUME NEW i \in 1..Len(a), NEW j \in 1..Len(a), i < j, a[i] > a[j]
       PROVE  a[i] \in e /\ a[j] \notin e
  <2>1. i \in 1..Len(f)
    BY <1>1, <1>11
  <2>2. CASE j = Len(f) + 1
    BY <1>1, <1>4, <1>5, <1>11, <2>1, <2>2
  <2>3. CASE j \in 1..Len(f)
    <3>1. f[i] \in d /\ f[j] \notin d /\ f[j] # n + 1
      BY <1>1, <1>4, <1>5, <1>11, <2>1, <2>3 DEF InTheirOrder
    <3> QED
      BY <1>1, <2>1, <2>3, <3>1
  <2> QED
    BY <1>1, <2>2, <2>3
<1>12. ASSUME NEW i \in 1..Len(a), NEW j \in 1..Len(p), a[i] > p[j] PROVE a[i] \in e
  <2>1. CASE i = Len(f) + 1
    BY <1>1, <2>1
  <2>2. CASE i \in 1..Len(f)
    BY <1>1, <1>12, <2>2 DEF InTheirOrder
  <2> QED
    BY <1>1, <2>1, <2>2
<1>13. \A i, j \in 1..Len(p) : i < j => p[i] < p[j]
  BY DEF InTheirOrder
<1> HIDE DEF e
<1>14. InTheirOrder(a, p, n + 1, e)
  BY <1>3, <1>7, <1>8, <1>9, <1>10, <1>11, <1>12, <1>13 DEF InTheirOrder
<1> QED
  BY <1>14 DEF a, e

\* A posted call comes last.
LEMMA PostedInOrder ==
  ASSUME NEW f \in Seq(Nat), NEW p \in Seq(Nat), NEW n \in Nat, NEW d, InTheirOrder(f, p, n, d)
  PROVE  InTheirOrder(f, Append(p, n + 1), n + 1, d)
<1> DEFINE a == Append(p, n + 1)
<1>1. /\ a \in Seq(Nat) /\ Len(a) = Len(p) + 1 /\ Len(p) \in Nat
      /\ \A i \in 1..Len(p) : a[i] = p[i] /\ i \in 1..Len(a)
      /\ a[Len(p) + 1] = n + 1 /\ Len(p) + 1 \in 1..Len(a)
      /\ \A i \in 1..Len(a) : i = Len(p) + 1 \/ i \in 1..Len(p)
  BY AppendIs
<1> HIDE DEF a
<1>2. Len(f) \in Nat /\ Len(f) + Len(p) = n
  BY DEF InTheirOrder
<1>3. Len(f) + Len(a) = n + 1
  BY <1>1, <1>2
<1>4. /\ \A i \in 1..Len(f) : f[i] \in 1..n
      /\ \A i \in 1..Len(p) : p[i] \in 1..n /\ p[i] \notin d
      /\ \A k \in d : k \in 1..n
  BY DEF InTheirOrder
<1>5. ASSUME NEW k \in 1..n PROVE k \in 1..(n + 1) /\ k # n + 1 /\ ~(k > n + 1) /\ k < n + 1
  OBVIOUS
<1>6. n + 1 \in 1..(n + 1) /\ \A k \in 1..(n + 1) : k = n + 1 \/ k \in 1..n
  OBVIOUS
<1>7. /\ \A i \in 1..Len(f) : f[i] \in 1..(n + 1)
      /\ \A k \in d : k \in 1..(n + 1)
  BY <1>4, <1>5
<1>8. ASSUME NEW i \in 1..Len(a) PROVE a[i] \in 1..(n + 1) /\ a[i] \notin d
  <2>1. CASE i = Len(p) + 1
    BY <1>1, <1>4, <1>5, <1>6, <2>1
  <2>2. CASE i \in 1..Len(p)
    BY <1>1, <1>4, <1>5, <2>2
  <2> QED
    BY <1>1, <2>1, <2>2
<1>9. ASSUME NEW k \in 1..(n + 1)
      PROVE  \/ \E i \in 1..Len(f) : f[i] = k
             \/ \E i \in 1..Len(a) : a[i] = k
  <2>1. CASE k = n + 1
    BY <1>1, <2>1
  <2>2. CASE k \in 1..n
    <3>1. \/ \E i \in 1..Len(f) : f[i] = k
          \/ \E i \in 1..Len(p) : p[i] = k
      BY <2>2 DEF InTheirOrder
    <3> QED
      BY <1>1, <3>1
  <2> QED
    BY <1>6, <2>1, <2>2
<1>10. ASSUME NEW i \in 1..Len(a), NEW j \in 1..Len(a), i < j PROVE a[i] < a[j]
  <2>1. i \in 1..Len(p)
    BY <1>1, <1>10
  <2>2. CASE j = Len(p) + 1
    BY <1>1, <1>4, <1>5, <2>1, <2>2
  <2>3. CASE j \in 1..Len(p)
    BY <1>1, <1>10, <2>1, <2>3 DEF InTheirOrder
  <2> QED
    BY <1>1, <2>2, <2>3
<1>11. ASSUME NEW i \in 1..Len(f), NEW j \in 1..Len(a), f[i] > a[j] PROVE f[i] \in d
  <2>1. CASE j = Len(p) + 1
    BY <1>1, <1>4, <1>5, <1>11, <2>1
  <2>2. CASE j \in 1..Len(p)
    BY <1>1, <1>11, <2>2 DEF InTheirOrder
  <2> QED
    BY <1>1, <2>1, <2>2
<1>12. \A i, j \in 1..Len(f) : i < j /\ f[i] > f[j] => f[i] \in d /\ f[j] \notin d
  BY DEF InTheirOrder
<1>13. InTheirOrder(f, a, n + 1, d)
  BY <1>3, <1>7, <1>8, <1>9, <1>10, <1>11, <1>12 DEF InTheirOrder
<1> QED
  BY <1>13 DEF a

\* The first of the posted calls goes to the end of the front.
LEMMA HandledInOrder ==
  ASSUME NEW f \in Seq(Nat), NEW p \in Seq(Nat), NEW n \in Nat, NEW d, InTheirOrder(f, p, n, d),
         p # <<>>
  PROVE  InTheirOrder(Append(f, Head(p)), Tail(p), n, d)
<1> DEFINE h == Head(p)
<1> DEFINE a == Append(f, h)
<1> DEFINE b == Tail(p)
<1>1. /\ b \in Seq(Nat) /\ Len(b) = Len(p) - 1 /\ Len(p) \in Nat /\ Len(p) >= 1
      /\ h = p[1] /\ h \in Nat /\ 1 \in 1..Len(p)
      /\ \A i \in 1..Len(p) : i # 1 => i - 1 \in 1..Len(b) /\ b[i - 1] = p[i]
      /\ \A i \in 1..Len(b) : i + 1 \in 1..Len(p) /\ b[i] = p[i + 1]
  BY TailIs
<1>2. /\ a \in Seq(Nat) /\ Len(a) = Len(f) + 1 /\ Len(f) \in Nat
      /\ \A i \in 1..Len(f) : a[i] = f[i] /\ i \in 1..Len(a)
      /\ a[Len(f) + 1] = h /\ Len(f) + 1 \in 1..Len(a)
      /\ \A i \in 1..Len(a) : i = Len(f) + 1 \/ i \in 1..Len(f)
  BY <1>1, AppendIs
<1> HIDE DEF a, b, h
<1>3. Len(a) + Len(b) = n
  <2>1. Len(f) + Len(p) = n
    BY DEF InTheirOrder
  <2> QED
    BY <1>1, <1>2, <2>1
<1>4. /\ \A i \in 1..Len(f) : f[i] \in 1..n
      /\ \A i \in 1..Len(p) : p[i] \in 1..n /\ p[i] \notin d
      /\ \A k \in d : k \in 1..n
      /\ \A i, j \in 1..Len(p) : i < j => p[i] < p[j]
      /\ \A i \in 1..Len(f) : \A j \in 1..Len(p) : f[i] > p[j] => f[i] \in d
      /\ \A i, j \in 1..Len(f) : i < j /\ f[i] > f[j] => f[i] \in d /\ f[j] \notin d
  BY DEF InTheirOrder
<1>5. \A i \in 1..Len(a) : a[i] \in 1..n
  BY <1>1, <1>2, <1>4
<1>6. \A i \in 1..Len(b) : b[i] \in 1..n /\ b[i] \notin d
  BY <1>1, <1>4
<1>7. ASSUME NEW k \in 1..n
      PROVE  \/ \E i \in 1..Len(a) : a[i] = k
             \/ \E i \in 1..Len(b) : b[i] = k
  <2>1. CASE \E i \in 1..Len(f) : f[i] = k
    BY <1>2, <2>1
  <2>2. CASE \E i \in 1..Len(p) : p[i] = k
    <3>1. PICK i \in 1..Len(p) : p[i] = k
      BY <2>2
    <3>2. CASE i = 1
      BY <1>1, <1>2, <3>1, <3>2
    <3>3. CASE i # 1
      BY <1>1, <3>1, <3>3
    <3> QED
      BY <3>2, <3>3
  <2> QED
    BY <2>1, <2>2 DEF InTheirOrder
<1>8. ASSUME NEW i \in 1..Len(b), NEW j \in 1..Len(b), i < j PROVE b[i] < b[j]
  <2>1. i + 1 \in 1..Len(p) /\ j + 1 \in 1..Len(p) /\ i + 1 < j + 1
    BY <1>1, <1>8
  <2>2. p[i + 1] < p[j + 1]
    BY <1>4, <2>1
  <2> QED
    BY <1>1, <2>2
<1>9. ASSUME NEW i \in 1..Len(a), NEW j \in 1..Len(a), i < j, a[i] > a[j]
      PROVE  a[i] \in d /\ a[j] \notin d
  <2>1. i \in 1..Len(f)
    BY <1>2, <1>9
  <2>2. CASE j = Len(f) + 1
    <3>1. a[j] = p[1] /\ a[i] = f[i] /\ f[i] > p[1]
      BY <1>1, <1>2, <1>9, <2>1, <2>2
    <3> QED
      BY <1>1, <1>4, <2>1, <3>1
  <2>3. CASE j \in 1..Len(f)
    BY <1>2, <1>4, <1>9, <2>1, <2>3
  <2> QED
    BY <1>2, <2>2, <2>3
<1>10. ASSUME NEW i \in 1..Len(a), NEW j \in 1..Len(b), a[i] > b[j] PROVE a[i] \in d
  <2>1. j + 1 \in 1..Len(p) /\ b[j] = p[j + 1] /\ 1 < j + 1
    BY <1>1
  <2>2. CASE i = Len(f) + 1
    <3>1. a[i] = p[1] /\ p[1] < p[j + 1] /\ p[1] \in 1..n /\ p[j + 1] \in 1..n
      BY <1>1, <1>2, <1>4, <2>1, <2>2
    <3> QED
      BY <1>10, <2>1, <3>1
  <2>3. CASE i \in 1..Len(f)
    BY <1>2, <1>4, <1>10, <2>1, <2>3
  <2> QED
    BY <1>2, <2>2, <2>3
<1>11. InTheirOrder(a, b, n, d)
  BY <1>3, <1>4, <1>5, <1>6, <1>7, <1>8, <1>9, <1>10 DEF InTheirOrder
<1> QED
  BY <1>11 DEF a, b, h

LEMMA CallInit == Q!Init => CallInv
<1> SUFFICES ASSUME Q!Init PROVE CallInv
  OBVIOUS
<1>1. /\ pageThread = "main" /\ phase = "made" /\ made = 0 /\ posted = <<>>
      /\ m_storeCallsFromCpp = <<>> /\ invoked = <<>> /\ shown = <<>> /\ direct = {}
  BY DEF Q!Init
<1>2. <<>> \in Seq(Nat) /\ <<>> \o <<>> = <<>> /\ Len(<<>>) = 0
  BY ConcatEmptySeq
<1>3. CallTypes /\ PhaseOfThread
  BY <1>1, <1>2 DEF CallTypes, PhaseOfThread
<1>4. ToldBefore = <<>>
  BY <1>1, <1>2 DEF ToldBefore
<1>5. InTheirOrder(<<>>, <<>>, 0, {})
  BY <1>2 DEF InTheirOrder
<1> QED
  BY <1>1, <1>3, <1>4, <1>5 DEF CallInv

\* A call is kept, or made with those that were.
LEMMA CallIsMade ==
  ASSUME CallTypes, PhaseOfThread, phase \in {"made", "started"}, NEW k \in Nat, Q!CallFromCpp(k)
  PROVE  /\ m_storeCallsFromCpp' \in Seq(Nat) /\ invoked' \in Seq(Nat) /\ shown' \in Seq(Nat)
         /\ ToldBefore' = Append(ToldBefore, k)
         /\ phase = "made" => invoked' = <<>>
<1>1. /\ m_storeCallsFromCpp \in Seq(Nat) /\ invoked \in Seq(Nat) /\ shown \in Seq(Nat)
  BY DEF CallTypes
<1>2. CASE ~m_isQmlLoaded
  <2>1. /\ m_storeCallsFromCpp' = Append(m_storeCallsFromCpp, k)
        /\ invoked' = invoked /\ shown' = shown
    BY <1>2 DEF Q!CallFromCpp
  <2>2. m_storeCallsFromCpp' \in Seq(Nat)
    BY <1>1, <2>1
  <2>3. ToldBefore' = Append(ToldBefore, k)
    BY <1>1, <2>1, FrontAdded DEF ToldBefore
  <2> QED
    BY <1>1, <2>1, <2>2, <2>3 DEF PhaseOfThread
<1>3. CASE m_isQmlLoaded
  <2> DEFINE o == <<k>>
  <2> DEFINE r == m_storeCallsFromCpp \o o
  <2>1. /\ m_storeCallsFromCpp' = <<>>
        /\ IF pageThread = "main" THEN shown' = shown \o r /\ invoked' = invoked
           ELSE invoked' = invoked \o r /\ shown' = shown
    BY <1>3 DEF Q!CallFromCpp, Q!HandOn
  <2>2. o \in Seq(Nat)
    OBVIOUS
  <2>3. r \in Seq(Nat) /\ <<>> \in Seq(Nat)
    BY <1>1, <2>2, ConcatProperties
  <2>4. CASE phase = "made"
    <3>1. pageThread = "main" /\ invoked = <<>>
      BY <2>4 DEF PhaseOfThread
    <3>2. shown' = shown \o r /\ invoked' = invoked
      BY <2>1, <3>1
    <3>3. shown' \in Seq(Nat)
      BY <1>1, <2>3, <3>2, ConcatProperties
    <3>4. (shown \o r) \o invoked \o <<>> = Append(shown \o invoked \o m_storeCallsFromCpp, k)
      BY <1>1, <3>1, FrontAdded
    <3>5. ToldBefore' = Append(ToldBefore, k)
      BY <2>1, <3>2, <3>4 DEF ToldBefore
    <3> QED
      BY <1>1, <2>1, <2>3, <3>1, <3>2, <3>3, <3>5
  <2>5. CASE phase = "started"
    <3>1. pageThread = "module"
      BY <2>5 DEF PhaseOfThread
    <3>2. invoked' = invoked \o r /\ shown' = shown
      BY <2>1, <3>1
    <3>3. invoked' \in Seq(Nat)
      BY <1>1, <2>3, <3>2, ConcatProperties
    <3>4. shown \o (invoked \o r) \o <<>> = Append(shown \o invoked \o m_storeCallsFromCpp, k)
      BY <1>1, FrontAdded
    <3>5. ToldBefore' = Append(ToldBefore, k)
      BY <2>1, <3>2, <3>4 DEF ToldBefore
    <3> QED
      BY <1>1, <2>1, <2>3, <2>5, <3>2, <3>3, <3>5
  <2> QED
    BY <2>4, <2>5
<1> QED
  BY <1>2, <1>3

LEMMA CallStep == CallInv /\ [Q!Next]_(Q!qmlVars) => CallInv'
<1> SUFFICES ASSUME CallInv, [Q!Next]_(Q!qmlVars), phase' \in {"made", "started"}
             PROVE  CallTypes' /\ PhaseOfThread' /\ InTheirOrder(ToldBefore, posted, made, direct)'
  BY DEF CallInv
<1>1. phase \in {"made", "started"}
  BY DEF Q!Next, Q!CallDirect, Q!CallPosted, Q!HandlePosted, Q!Show, Q!Start, Q!MoveToModules, Q!MoveToMain, Q!Stop,
     Q!qmlVars
<1>2. CallTypes /\ PhaseOfThread /\ InTheirOrder(ToldBefore, posted, made, direct)
  BY <1>1 DEF CallInv
<1>3. /\ made \in Nat /\ posted \in Seq(Nat) /\ m_storeCallsFromCpp \in Seq(Nat)
      /\ invoked \in Seq(Nat) /\ shown \in Seq(Nat) /\ ToldBefore \in Seq(Nat)
  BY <1>2, FrontIs DEF CallTypes, ToldBefore
<1>4. CASE Q!CallDirect
  <2>1. /\ made' = made + 1 /\ Q!CallFromCpp(made + 1) /\ direct' = direct \cup {made + 1}
        /\ UNCHANGED <<pageThread, phase, posted>>
    BY <1>4 DEF Q!CallDirect
  <2>2. made + 1 \in Nat
    BY <1>3
  <2>3. /\ m_storeCallsFromCpp' \in Seq(Nat) /\ invoked' \in Seq(Nat) /\ shown' \in Seq(Nat)
        /\ ToldBefore' = Append(ToldBefore, made + 1)
        /\ phase = "made" => invoked' = <<>>
    BY <1>1, <1>2, <2>1, <2>2, CallIsMade
  <2>4. CallTypes' /\ PhaseOfThread'
    BY <1>2, <1>3, <2>1, <2>2, <2>3 DEF CallTypes, PhaseOfThread
  <2>5. InTheirOrder(Append(ToldBefore, made + 1), posted, made + 1, direct \cup {made + 1})
    BY <1>2, <1>3, DirectInOrder
  <2>6. InTheirOrder(ToldBefore', posted', made', direct')
    BY <2>1, <2>3, <2>5
  <2> QED
    BY <2>4, <2>6
<1>5. CASE Q!CallPosted
  <2>1. /\ made' = made + 1 /\ posted' = Append(posted, made + 1)
        /\ UNCHANGED <<pageThread, phase, m_storeCallsFromCpp, invoked, shown, direct>>
    BY <1>5 DEF Q!CallPosted
  <2>2. CallTypes' /\ PhaseOfThread' /\ ToldBefore' = ToldBefore
    BY <1>2, <1>3, <2>1 DEF CallTypes, PhaseOfThread, ToldBefore
  <2>3. InTheirOrder(ToldBefore, Append(posted, made + 1), made + 1, direct)
    BY <1>2, <1>3, PostedInOrder
  <2>4. InTheirOrder(ToldBefore', posted', made', direct')
    BY <2>1, <2>2, <2>3
  <2> QED
    BY <2>2, <2>4
<1>6. CASE Q!HandlePosted
  <2>1. /\ posted # <<>> /\ Q!CallFromCpp(Head(posted)) /\ posted' = Tail(posted)
        /\ UNCHANGED <<pageThread, phase, made, direct>>
    BY <1>6 DEF Q!HandlePosted
  <2>2. Head(posted) \in Nat /\ posted' \in Seq(Nat)
    BY <1>3, <2>1, HeadTailProperties
  <2>3. /\ m_storeCallsFromCpp' \in Seq(Nat) /\ invoked' \in Seq(Nat) /\ shown' \in Seq(Nat)
        /\ ToldBefore' = Append(ToldBefore, Head(posted))
        /\ phase = "made" => invoked' = <<>>
    BY <1>1, <1>2, <2>1, <2>2, CallIsMade
  <2>4. CallTypes' /\ PhaseOfThread'
    BY <1>2, <1>3, <2>1, <2>2, <2>3 DEF CallTypes, PhaseOfThread
  <2>5. InTheirOrder(Append(ToldBefore, Head(posted)), Tail(posted), made, direct)
    BY <1>2, <1>3, <2>1, HandledInOrder
  <2>6. InTheirOrder(ToldBefore', posted', made', direct')
    BY <2>1, <2>3, <2>5
  <2> QED
    BY <2>4, <2>6
<1>7. CASE Q!Show
  <2>1. /\ phase = "started" /\ invoked # <<>> /\ shown' = Append(shown, Head(invoked))
        /\ invoked' = Tail(invoked)
        /\ UNCHANGED <<pageThread, phase, made, posted, m_storeCallsFromCpp, direct>>
    BY <1>7 DEF Q!Show
  <2>2. Head(invoked) \in Nat /\ invoked' \in Seq(Nat)
    BY <1>3, <2>1, HeadTailProperties
  <2>3. shown' \in Seq(Nat)
    BY <1>3, <2>1, <2>2
  <2>4. ToldBefore' = ToldBefore
    <3>1. Append(shown, Head(invoked)) \o Tail(invoked) \o m_storeCallsFromCpp
            = shown \o invoked \o m_storeCallsFromCpp
      BY <1>3, <2>1, FrontShown
    <3> QED
      BY <2>1, <3>1 DEF ToldBefore
  <2>5. CallTypes' /\ PhaseOfThread'
    BY <1>2, <1>3, <2>1, <2>2, <2>3 DEF CallTypes, PhaseOfThread
  <2>6. InTheirOrder(ToldBefore', posted', made', direct')
    BY <1>2, <2>1, <2>4
  <2> QED
    BY <2>5, <2>6
<1>8. CASE Q!Start \/ Q!MoveToModules \/ UNCHANGED Q!qmlVars
  <2>1. /\ UNCHANGED <<made, posted, m_storeCallsFromCpp, invoked, shown, direct>>
        /\ \/ UNCHANGED <<pageThread, phase>>
           \/ phase' = "started" /\ pageThread' = "module"
    BY <1>8 DEF Q!Start, Q!MoveToModules, Q!qmlVars
  <2>2. CallTypes' /\ PhaseOfThread' /\ ToldBefore' = ToldBefore
    BY <1>2, <2>1 DEF CallTypes, PhaseOfThread, ToldBefore
  <2>3. InTheirOrder(ToldBefore', posted', made', direct')
    BY <1>2, <2>1, <2>2
  <2> QED
    BY <2>2, <2>3
<1>9. CASE Q!MoveToMain \/ Q!Stop
  BY <1>9 DEF Q!MoveToMain, Q!Stop
<1> QED
  BY <1>4, <1>5, <1>6, <1>7, <1>8, <1>9 DEF Q!Next

LEMMA CallSound == CallInv => Q!CallsInOrder
<1> SUFFICES ASSUME CallInv, phase \in {"made", "started"}
             PROVE  LET all == shown \o invoked \o m_storeCallsFromCpp \o posted
                    IN /\ Len(all) = made /\ {all[i] : i \in DOMAIN all} = 1..made
                       /\ \A i \in DOMAIN all : \A j \in 1..(i - 1) :
                            all[j] > all[i] => all[j] \in direct /\ all[i] \notin direct
  BY DEF Q!CallsInOrder
<1> DEFINE all == ToldBefore \o posted
<1> DEFINE l == Len(ToldBefore)
<1> DEFINE m == Len(posted)
<1>1. CallTypes /\ InTheirOrder(ToldBefore, posted, made, direct)
  BY DEF CallInv
<1>2. ToldBefore \in Seq(Nat) /\ posted \in Seq(Nat)
  BY <1>1, FrontIs DEF CallTypes, ToldBefore
<1>3. /\ all \in Seq(Nat) /\ Len(all) = l + m /\ l \in Nat /\ m \in Nat
      /\ \A i \in 1..(l + m) : all[i] = IF i <= l THEN ToldBefore[i] ELSE posted[i - l]
      /\ DOMAIN all = 1..Len(all)
  BY <1>2, ConcatProperties
<1>4. l + m = made
  BY <1>1 DEF InTheirOrder
<1>5. /\ \A i \in 1..l : ToldBefore[i] \in 1..made
      /\ \A i \in 1..m : posted[i] \in 1..made /\ posted[i] \notin direct
      /\ \A k \in 1..made : \/ \E i \in 1..l : ToldBefore[i] = k
                            \/ \E i \in 1..m : posted[i] = k
      /\ \A i, j \in 1..m : i < j => posted[i] < posted[j]
      /\ \A i, j \in 1..l : i < j /\ ToldBefore[i] > ToldBefore[j] => ToldBefore[i] \in direct /\ ToldBefore[j] \notin direct
      /\ \A i \in 1..l : \A j \in 1..m : ToldBefore[i] > posted[j] => ToldBefore[i] \in direct
  BY <1>1 DEF InTheirOrder
<1>6. all = shown \o invoked \o m_storeCallsFromCpp \o posted
  BY DEF ToldBefore
<1> HIDE DEF all, l, m
<1>7. ASSUME NEW i \in 1..l PROVE i \in DOMAIN all /\ all[i] = ToldBefore[i]
  BY <1>3
<1>8. ASSUME NEW i \in 1..m PROVE l + i \in DOMAIN all /\ all[l + i] = posted[i]
  <2>1. l + i \in 1..(l + m) /\ ~(l + i <= l) /\ (l + i) - l = i
    BY <1>3
  <2> QED
    BY <1>3, <2>1
<1>9. ASSUME NEW i \in DOMAIN all
      PROVE  \/ i \in 1..l /\ all[i] = ToldBefore[i]
             \/ ~(i <= l) /\ i - l \in 1..m /\ all[i] = posted[i - l]
  BY <1>3
<1>10. ASSUME NEW i \in DOMAIN all PROVE all[i] \in 1..made
  BY <1>5, <1>9
<1>11. ASSUME NEW k \in 1..made PROVE \E i \in DOMAIN all : all[i] = k
  BY <1>5, <1>7, <1>8
<1>12. {all[i] : i \in DOMAIN all} = 1..made
  BY <1>10, <1>11
<1>13. ASSUME NEW i \in DOMAIN all, NEW j \in 1..(i - 1), all[j] > all[i]
       PROVE  all[j] \in direct /\ all[i] \notin direct
  <2>1. j \in DOMAIN all /\ j < i /\ i \in Int /\ j \in Int /\ l \in Nat
    BY <1>3
  <2>2. CASE i \in 1..l /\ all[i] = ToldBefore[i]
    <3>1. j \in 1..l
      BY <2>1, <2>2
    <3>2. all[j] = ToldBefore[j]
      BY <1>7, <3>1
    <3> QED
      BY <1>5, <1>13, <2>1, <2>2, <3>1, <3>2
  <2>3. CASE ~(i <= l) /\ i - l \in 1..m /\ all[i] = posted[i - l]
    <3>1. CASE j \in 1..l /\ all[j] = ToldBefore[j]
      BY <1>5, <1>13, <2>3, <3>1
    <3>2. CASE ~(j <= l) /\ j - l \in 1..m /\ all[j] = posted[j - l]
      <4>1. j - l < i - l
        BY <2>1
      <4>2. posted[j - l] < posted[i - l] /\ posted[j - l] \in 1..made /\ posted[i - l] \in 1..made
        BY <1>5, <2>3, <3>2, <4>1
      <4> QED
        BY <1>13, <2>3, <3>2, <4>2
    <3> QED
      BY <1>9, <2>1, <3>1, <3>2
  <2> QED
    BY <1>9, <2>2, <2>3
<1>14. /\ Len(all) = made /\ {all[i] : i \in DOMAIN all} = 1..made
       /\ \A i \in DOMAIN all : \A j \in 1..(i - 1) :
            all[j] > all[i] => all[j] \in direct /\ all[i] \notin direct
  BY <1>3, <1>4, <1>12, <1>13
<1> QED
  BY <1>6, <1>14

-----------------------------------------------------------------------------
(* The counter of the wheel.                                                *)

\* The number of values that were taken, when every answer is a message.
Taken == sent - Len(wire) - Len(recvArray)

CounterTypes == /\ sent \in Nat /\ wire \in Seq(Nat) /\ recvArray \in Seq(Seq(Nat))
                /\ waiting \in BOOLEAN /\ elapsed \in BOOLEAN
                /\ missed \in Nat /\ interval \in Nat /\ nowpulse \in Int /\ kilometer \in Nat

\* The answers come in the order of the requests.
AnswersInOrder == /\ Taken >= 0
                  /\ \A i \in 1..Len(recvArray) : recvArray[i] = <<Taken + i>>
                  /\ \A i \in 1..Len(wire) : wire[i] = Taken + Len(recvArray) + i

\* What is under way is what was not taken: that of the first round, of each
\* round that found nothing, and of this one.
UnderWay ==
  /\ Len(wire) + Len(recvArray) = missed + (IF elapsed THEN 1 ELSE 0) + (IF waiting THEN 1 ELSE 0)
  /\ waiting => elapsed
  /\ ~elapsed => nowpulse = P!Reset

\* The limits of n waits.
Waits(n) == n * Limit

\* The value in hand is the one taken last, and for each value on the way to it
\* from the last one computed a limit is counted.
WayIsCounted ==
  /\ nowpulse # P!None => nowpulse = Taken
  /\ kilometer <= Taken
  /\ Waits(Taken - kilometer + (IF nowpulse = P!None THEN 1 ELSE 0)) <= interval

LEMMA WaitsAdd == /\ Waits(0) = 0
                  /\ \A n \in Nat : Waits(n) \in Nat /\ Waits(n + 1) = Waits(n) + Limit
<1>1. Limit \in Nat
  BY DevicesAssumption DEF P!RequestAssumption
<1>2. 0 * Limit = 0
  BY <1>1
<1>3. ASSUME NEW n \in Nat PROVE n * Limit \in Nat /\ (n + 1) * Limit = n * Limit + Limit
  BY <1>1
<1> QED
  BY <1>2, <1>3 DEF Waits

PulsesInv == exact => CounterTypes /\ AnswersInOrder /\ UnderWay /\ WayIsCounted

LEMMA PulsesInit == P!Init => PulsesInv
<1> SUFFICES ASSUME P!Init PROVE PulsesInv
  OBVIOUS
<1>1. /\ sent = 0 /\ wire = <<>> /\ recvArray = <<>> /\ waiting = FALSE /\ elapsed = FALSE
      /\ nowpulse = P!Reset /\ interval = 0 /\ kilometer = P!Reset /\ missed = 0
      /\ speed.from = P!Reset
  BY DEF P!Init
<1>2. CounterTypes
  <2>1. <<>> \in Seq(Nat) /\ <<>> \in Seq(Seq(Nat)) /\ 0 \in Nat /\ 0 \in Int
    OBVIOUS
  <2>2. sent \in Nat /\ missed \in Nat /\ interval \in Nat /\ nowpulse \in Int /\ kilometer \in Nat
    BY <1>1, <2>1 DEF P!Reset
  <2>3. wire \in Seq(Nat) /\ recvArray \in Seq(Seq(Nat)) /\ waiting \in BOOLEAN /\ elapsed \in BOOLEAN
    BY <1>1, <2>1
  <2> QED
    BY <2>2, <2>3 DEF CounterTypes
<1>3. Taken = 0
  <2>1. Len(wire) = 0 /\ Len(recvArray) = 0
    BY <1>1
  <2>2. Taken = sent - Len(wire) - Len(recvArray)
    BY DEF Taken
  <2> DEFINE a == Len(wire)
  <2> DEFINE b == Len(recvArray)
  <2>3. a = 0 /\ b = 0 /\ Taken = sent - a - b /\ sent = 0
    BY <1>1, <2>1, <2>2
  <2> HIDE DEF a, b
  <2> QED
    BY <2>3
<1>4. AnswersInOrder
  BY <1>1, <1>3 DEF AnswersInOrder
<1>5. UnderWay
  <2>1. (IF elapsed THEN 1 ELSE 0) = 0 /\ (IF waiting THEN 1 ELSE 0) = 0
    BY <1>1
  <2> QED
    BY <1>1, <2>1 DEF UnderWay
<1>6. WayIsCounted
  <2>1. nowpulse # P!None /\ nowpulse = Taken /\ kilometer = Taken /\ Taken - kilometer + 0 = 0
    BY <1>1, <1>3 DEF P!Reset, P!None
  <2>2. Waits(Taken - kilometer + (IF nowpulse = P!None THEN 1 ELSE 0)) = 0
    BY <2>1, WaitsAdd
  <2> QED
    BY <1>1, <1>3, <2>1, <2>2 DEF WayIsCounted
<1> QED
  BY <1>1, <1>2, <1>4, <1>5, <1>6 DEF PulsesInv

\* A request: one more is under way.
LEMMA PulsesRequest == PulsesInv /\ P!Request => PulsesInv' /\ (exact' => exact /\ Taken' = Taken)
<1> SUFFICES ASSUME PulsesInv, P!Request, exact' PROVE PulsesInv' /\ exact /\ Taken' = Taken
  BY DEF PulsesInv
<1>1. /\ sent' = sent + 1 /\ wire' = Append(wire, sent + 1) /\ ~waiting /\ exact
      /\ elapsed' = TRUE /\ waiting' = elapsed
      /\ UNCHANGED <<recvArray, nowpulse, interval, kilometer, missed>>
  BY DEF P!Request
<1>2. CounterTypes /\ AnswersInOrder /\ UnderWay /\ WayIsCounted
  BY <1>1 DEF PulsesInv
<1>3. /\ Len(wire') = Len(wire) + 1 /\ Len(wire) \in Nat /\ Len(recvArray) \in Nat
      /\ wire' \in Seq(Nat) /\ wire'[Len(wire) + 1] = sent + 1
      /\ \A i \in 1..Len(wire) : wire'[i] = wire[i]
  BY <1>1, <1>2 DEF CounterTypes
<1>4. Taken' = Taken /\ Taken \in Int
  BY <1>1, <1>2, <1>3 DEF Taken, CounterTypes
<1>5. CounterTypes'
  BY <1>1, <1>2, <1>3 DEF CounterTypes
<1>6. AnswersInOrder'
  <2>1. sent + 1 = Taken + Len(recvArray) + (Len(wire) + 1)
    BY <1>2, <1>3 DEF Taken, CounterTypes
  <2>2. ASSUME NEW i \in 1..Len(wire') PROVE wire'[i] = Taken' + Len(recvArray') + i
    <3>1. CASE i = Len(wire) + 1
      BY <1>1, <1>3, <1>4, <2>1, <3>1
    <3>2. CASE i # Len(wire) + 1
      <4>1. i \in 1..Len(wire)
        BY <1>3, <3>2
      <4>2. wire'[i] = wire[i] /\ wire[i] = Taken + Len(recvArray) + i
        BY <1>2, <1>3, <4>1 DEF AnswersInOrder
      <4> QED
        BY <1>1, <1>4, <4>2
    <3> QED
      BY <3>1, <3>2
  <2>3. Taken >= 0 /\ \A i \in 1..Len(recvArray) : recvArray[i] = <<Taken + i>>
    BY <1>2 DEF AnswersInOrder
  <2> QED
    BY <1>1, <1>4, <2>2, <2>3 DEF AnswersInOrder
<1>7. UnderWay'
  <2>1. missed \in Nat /\ elapsed \in BOOLEAN
    BY <1>2 DEF CounterTypes
  <2>2. CASE elapsed
    BY <1>1, <1>2, <1>3, <2>1, <2>2 DEF UnderWay
  <2>3. CASE ~elapsed
    BY <1>1, <1>2, <1>3, <2>1, <2>3 DEF UnderWay
  <2> QED
    BY <2>1, <2>2, <2>3
<1>8. WayIsCounted'
  BY <1>1, <1>2, <1>4 DEF WayIsCounted
<1> QED
  BY <1>1, <1>4, <1>5, <1>6, <1>7, <1>8 DEF PulsesInv

\* A message of one answer.
LEMMA PulsesReceive == PulsesInv /\ P!OnRecvData => PulsesInv' /\ (exact' => exact /\ Taken' = Taken)
<1> SUFFICES ASSUME PulsesInv, P!OnRecvData, exact' PROVE PulsesInv' /\ exact /\ Taken' = Taken
  BY DEF PulsesInv
<1>1. /\ 1 <= Len(wire) /\ exact
      /\ recvArray' = Append(recvArray, SubSeq(wire, 1, 1))
      /\ wire' = SubSeq(wire, 2, Len(wire))
      /\ UNCHANGED <<sent, waiting, elapsed, nowpulse, interval, kilometer, speed, missed>>
  <2>1. PICK n \in 1..2 : /\ n <= Len(wire)
                          /\ recvArray' = Append(recvArray, SubSeq(wire, 1, n))
                          /\ wire' = SubSeq(wire, n + 1, Len(wire))
                          /\ exact' = (exact /\ n = 1)
    BY DEF P!OnRecvData
  <2>2. exact /\ n = 1
    BY <2>1
  <2>3. n + 1 = 2
    BY <2>2
  <2>4. UNCHANGED <<sent, waiting, elapsed, nowpulse, interval, kilometer, speed, missed>>
    BY DEF P!OnRecvData
  <2> QED
    BY <2>1, <2>2, <2>3, <2>4
<1>2. CounterTypes /\ AnswersInOrder /\ UnderWay /\ WayIsCounted
  BY <1>1 DEF PulsesInv
<1>3. wire \in Seq(Nat) /\ recvArray \in Seq(Seq(Nat)) /\ Len(wire) \in Nat /\ Len(recvArray) \in Nat
  BY <1>2 DEF CounterTypes
<1>4. /\ wire' \in Seq(Nat) /\ Len(wire') = Len(wire) - 1
      /\ \A i \in 1..(Len(wire) - 1) : wire'[i] = wire[i + 1]
  <2>1. ASSUME NEW i \in 2..Len(wire) PROVE wire[i] \in Nat
    <3>1. i \in 1..Len(wire)
      BY <1>3
    <3> QED
      BY <1>3, <3>1, ElementOfSeq
  <2>5. 2 \in Int /\ Len(wire) \in Int
    BY <1>3
  <2>2. /\ SubSeq(wire, 2, Len(wire)) \in Seq(Nat)
        /\ Len(SubSeq(wire, 2, Len(wire))) = Len(wire) - 2 + 1
        /\ \A i \in 1..(Len(wire) - 2 + 1) : SubSeq(wire, 2, Len(wire))[i] = wire[2 + i - 1]
    <3>1. /\ SubSeq(wire, 2, Len(wire)) \in Seq(Nat)
          /\ Len(SubSeq(wire, 2, Len(wire))) = IF 2 <= Len(wire) THEN Len(wire) - 2 + 1 ELSE 0
          /\ \A i \in 1..(Len(wire) - 2 + 1) : SubSeq(wire, 2, Len(wire))[i] = wire[2 + i - 1]
      BY <2>1, <2>5, SubSeqProperties
    <3>2. (IF 2 <= Len(wire) THEN Len(wire) - 2 + 1 ELSE 0) = Len(wire) - 2 + 1
      <4> DEFINE l == Len(wire)
      <4>1. l \in Nat /\ 1 <= l
        BY <1>1, <1>3
      <4> HIDE DEF l
      <4>2. (IF 2 <= l THEN l - 2 + 1 ELSE 0) = l - 2 + 1
        BY <4>1
      <4> QED
        BY <4>2 DEF l
    <3> QED
      BY <3>1, <3>2
  <2>3. Len(wire) - 2 + 1 = Len(wire) - 1
    BY <1>3
  <2>4. ASSUME NEW i \in 1..(Len(wire) - 1) PROVE wire'[i] = wire[i + 1]
    <3>1. 2 + i - 1 = i + 1
      OBVIOUS
    <3> QED
      BY <1>1, <2>2, <2>3, <3>1
  <2> QED
    BY <1>1, <2>2, <2>3, <2>4
<1>5. SubSeq(wire, 1, 1) = <<wire[1]>> /\ wire[1] \in Nat
  <2>1. 1 \in 1..Len(wire)
    BY <1>1, <1>3
  <2>2. wire[1] \in Nat
    BY <1>3, <2>1, ElementOfSeq
  <2>3. ASSUME NEW i \in 1..1 PROVE wire[i] \in Nat
    BY <2>2
  <2>4. /\ SubSeq(wire, 1, 1) \in Seq(Nat)
        /\ Len(SubSeq(wire, 1, 1)) = 1
        /\ SubSeq(wire, 1, 1)[1] = wire[1]
    BY <1>1, <1>3, <2>3, SubSeqProperties
  <2>5. <<wire[1]>> \in Seq(Nat) /\ Len(<<wire[1]>>) = 1 /\ <<wire[1]>>[1] = wire[1]
    BY <2>2
  <2> DEFINE m == <<wire[1]>>
  <2>6. m \in Seq(Nat) /\ Len(m) = 1 /\ m[1] = wire[1]
    BY <2>5
  <2> DEFINE o == SubSeq(wire, 1, 1)
  <2>7. o \in Seq(Nat) /\ Len(o) = 1 /\ o[1] = wire[1]
    BY <2>4
  <2> HIDE DEF m, o
  <2>8. \A i \in 1..1 : o[i] = m[i]
    BY <2>6, <2>7
  <2>9. o = m
    BY <2>6, <2>7, <2>8, SeqEqual
  <2> QED
    BY <2>2, <2>9 DEF m, o
<1>6. wire[1] = Taken + Len(recvArray) + 1
  BY <1>1, <1>2, <1>3 DEF AnswersInOrder
<1>7. /\ recvArray' \in Seq(Seq(Nat)) /\ Len(recvArray') = Len(recvArray) + 1
      /\ recvArray'[Len(recvArray) + 1] = <<wire[1]>>
      /\ \A i \in 1..Len(recvArray) : recvArray'[i] = recvArray[i]
  <2>1. <<wire[1]>> \in Seq(Nat) /\ recvArray' = Append(recvArray, <<wire[1]>>)
    BY <1>1, <1>5
  <2> DEFINE m == <<wire[1]>>
  <2>2. m \in Seq(Nat) /\ recvArray' = Append(recvArray, m)
    BY <2>1
  <2> HIDE DEF m
  <2>3. /\ recvArray' \in Seq(Seq(Nat)) /\ Len(recvArray') = Len(recvArray) + 1
        /\ recvArray'[Len(recvArray) + 1] = m
        /\ \A i \in 1..Len(recvArray) : recvArray'[i] = recvArray[i]
    BY <1>3, <2>2
  <2> QED
    BY <2>3 DEF m
<1>8. Taken' = Taken /\ Taken \in Int
  <2>1. sent \in Nat /\ Len(wire) \in Nat /\ Len(recvArray) \in Nat
    BY <1>2, <1>3 DEF CounterTypes
  <2>2. Len(wire') = Len(wire) - 1 /\ Len(recvArray') = Len(recvArray) + 1 /\ sent' = sent
    BY <1>1, <1>4, <1>7
  <2> DEFINE a == Len(wire)
  <2> DEFINE b == Len(recvArray)
  <2>3. /\ a \in Nat /\ b \in Nat /\ sent \in Nat /\ a' = a - 1 /\ b' = b + 1 /\ sent' = sent
        /\ Taken = sent - a - b /\ Taken' = sent' - a' - b'
    BY <2>1, <2>2 DEF Taken
  <2> HIDE DEF a, b
  <2> QED
    BY <2>3
<1>9. CounterTypes'
  BY <1>1, <1>2, <1>4, <1>7 DEF CounterTypes
<1>10. AnswersInOrder'
  <2> DEFINE m == <<wire[1]>>
  <2>1. m = <<Taken + (Len(recvArray) + 1)>>
    BY <1>6, <1>8, <1>3
  <2>2. recvArray'[Len(recvArray) + 1] = m
    BY <1>7
  <2> HIDE DEF m
  <2>3. ASSUME NEW i \in 1..Len(recvArray') PROVE recvArray'[i] = <<Taken + i>>
    <3>1. CASE i = Len(recvArray) + 1
      BY <2>1, <2>2, <3>1
    <3>2. CASE i # Len(recvArray) + 1
      <4>1. i \in 1..Len(recvArray)
        BY <1>3, <1>7, <3>2
      <4>2. recvArray'[i] = recvArray[i] /\ recvArray[i] = <<Taken + i>>
        BY <1>2, <1>7, <4>1 DEF AnswersInOrder
      <4> QED
        BY <4>2
    <3> QED
      BY <3>1, <3>2
  <2>4. ASSUME NEW i \in 1..Len(wire') PROVE wire'[i] = Taken + Len(recvArray') + i
    <3>1. i + 1 \in 1..Len(wire) /\ i \in 1..(Len(wire) - 1)
      BY <1>3, <1>4
    <3>2. wire'[i] = wire[i + 1] /\ wire[i + 1] = Taken + Len(recvArray) + (i + 1)
      BY <1>2, <1>4, <3>1 DEF AnswersInOrder
    <3> QED
      BY <1>3, <1>7, <1>8, <3>2
  <2> QED
    BY <1>2, <1>8, <2>3, <2>4 DEF AnswersInOrder
<1>11. UnderWay'
  <2>1. Len(wire') + Len(recvArray') = Len(wire) + Len(recvArray)
    BY <1>3, <1>4, <1>7
  <2> QED
    BY <1>1, <1>2, <2>1 DEF UnderWay
<1>12. WayIsCounted'
  BY <1>1, <1>2, <1>8 DEF WayIsCounted
<1> QED
  BY <1>1, <1>8, <1>9, <1>10, <1>11, <1>12 DEF PulsesInv

\* A value is taken.
LEMMA PulsesTake == PulsesInv /\ P!CalcSpeedData => 
  PulsesInv' /\ (exact' => exact /\ Taken' = Taken + 1 /\ nowpulse' = Taken + 1)
<1> SUFFICES ASSUME PulsesInv, P!CalcSpeedData, exact'
             PROVE  PulsesInv' /\ exact /\ Taken' = Taken + 1 /\ nowpulse' = Taken + 1
  BY DEF PulsesInv
<1>1. /\ waiting /\ recvArray # <<>> /\ waiting' = FALSE /\ recvArray' = Tail(recvArray)
      /\ nowpulse' = Head(recvArray)[1]
      /\ nowpulse = P!None => UNCHANGED <<interval, kilometer, speed>>
      /\ nowpulse # P!None => kilometer' = nowpulse' /\ interval' = 0
      /\ UNCHANGED <<sent, wire, elapsed, missed, exact>>
  BY DEF P!CalcSpeedData, P!RecvDataGet
<1>2. CounterTypes /\ AnswersInOrder /\ UnderWay /\ WayIsCounted /\ exact
  BY <1>1 DEF PulsesInv
<1>3. wire \in Seq(Nat) /\ recvArray \in Seq(Seq(Nat)) /\ Len(wire) \in Nat /\ Len(recvArray) \in Nat
  BY <1>2 DEF CounterTypes
<1>4. /\ recvArray' \in Seq(Seq(Nat)) /\ Len(recvArray') = Len(recvArray) - 1 /\ Len(recvArray) >= 1
      /\ \A i \in 1..(Len(recvArray) - 1) : recvArray'[i] = recvArray[i + 1]
      /\ Head(recvArray) = recvArray[1]
  BY <1>1, <1>3
<1>5. Taken' = Taken + 1 /\ Taken \in Int /\ Taken >= 0
  BY <1>1, <1>2, <1>3, <1>4 DEF Taken, CounterTypes, AnswersInOrder
<1>6. nowpulse' = Taken + 1
  <2>1. recvArray[1] = <<Taken + 1>>
    BY <1>2, <1>3, <1>4 DEF AnswersInOrder
  <2> QED
    BY <1>1, <1>4, <2>1
<1>7. interval' \in Nat /\ kilometer' \in Nat
  BY <1>1, <1>2, <1>5, <1>6 DEF CounterTypes
<1>8. CounterTypes'
  <2>1. nowpulse' \in Int
    BY <1>5, <1>6
  <2>2. waiting' \in BOOLEAN
    BY <1>1
  <2> QED
    BY <1>1, <1>2, <1>4, <1>7, <2>1, <2>2 DEF CounterTypes
<1>9. AnswersInOrder'
  <2>1. ASSUME NEW i \in 1..Len(recvArray') PROVE recvArray'[i] = <<Taken' + i>>
    <3>1. i + 1 \in 1..Len(recvArray) /\ i \in 1..(Len(recvArray) - 1)
      BY <1>3, <1>4
    <3>2. recvArray'[i] = recvArray[i + 1] /\ recvArray[i + 1] = <<Taken + (i + 1)>>
      BY <1>2, <1>4, <3>1 DEF AnswersInOrder
    <3>3. Taken + (i + 1) = Taken' + i
      BY <1>5
    <3> QED
      BY <3>2, <3>3
  <2>2. ASSUME NEW i \in 1..Len(wire') PROVE wire'[i] = Taken' + Len(recvArray') + i
    BY <1>1, <1>2, <1>3, <1>4, <1>5 DEF AnswersInOrder
  <2> QED
    BY <1>5, <2>1, <2>2 DEF AnswersInOrder
<1>10. UnderWay'
  <2>1. elapsed /\ elapsed' /\ ~waiting' /\ missed' = missed /\ missed \in Nat /\ elapsed' = elapsed
    BY <1>1, <1>2 DEF UnderWay, CounterTypes
  <2>2. Len(wire) + Len(recvArray) = missed + 1 + 1
    BY <1>1, <1>2, <2>1 DEF UnderWay
  <2>3. Len(wire') + Len(recvArray') = missed' + 1
    BY <1>1, <1>3, <1>4, <2>1, <2>2
  <2> QED
    BY <2>1, <2>3 DEF UnderWay
<1>11. CASE nowpulse = P!None
  <2>1. WayIsCounted'
    <3>1. nowpulse' # P!None /\ UNCHANGED <<interval, kilometer>>
      BY <1>1, <1>5, <1>6, <1>11 DEF P!None
    <3>2. kilometer \in Nat /\ interval \in Nat /\ kilometer <= Taken /\ Waits(Taken - kilometer + 1) <= interval
      BY <1>2, <1>11 DEF WayIsCounted, CounterTypes
    <3> QED
      <4>1. Taken' - kilometer' + 0 = Taken - kilometer + 1
        BY <1>5, <3>1, <3>2
      <4>2. Waits(Taken' - kilometer' + (IF nowpulse' = P!None THEN 1 ELSE 0)) <= interval'
        BY <3>1, <3>2, <4>1
      <4> QED
        BY <1>5, <1>6, <3>1, <3>2, <4>2 DEF WayIsCounted
  <2> QED
    BY <1>1, <1>5, <1>6, <1>8, <1>9, <1>10, <2>1 DEF PulsesInv
<1>12. CASE nowpulse # P!None
  <2>1. WayIsCounted'
    <3>1. nowpulse' # P!None /\ interval' = 0 /\ kilometer' = Taken'
      BY <1>1, <1>5, <1>6, <1>12 DEF P!None
    <3> QED
      <4>1. Taken' - kilometer' + 0 = 0
        BY <1>5, <3>1
      <4>2. Waits(Taken' - kilometer' + (IF nowpulse' = P!None THEN 1 ELSE 0)) <= interval'
        BY <3>1, <4>1, WaitsAdd
      <4> QED
        BY <1>5, <1>6, <3>1, <4>2 DEF WayIsCounted
  <2> QED
    BY <1>1, <1>5, <1>6, <1>8, <1>9, <1>10, <2>1 DEF PulsesInv
<1> QED
  BY <1>11, <1>12

LEMMA PulsesMiss == PulsesInv /\ P!NoAnswer => PulsesInv' /\ (exact' => exact /\ Taken' = Taken)
<1> SUFFICES ASSUME PulsesInv, P!NoAnswer, exact' PROVE PulsesInv' /\ exact /\ Taken' = Taken
  BY DEF PulsesInv
<1>1. /\ waiting /\ waiting' = FALSE /\ nowpulse' = P!None
      /\ interval' = interval + Limit /\ missed' = missed + 1
      /\ UNCHANGED <<sent, wire, recvArray, elapsed, kilometer, speed, exact>>
  BY DEF P!NoAnswer
<1>2. CounterTypes /\ AnswersInOrder /\ UnderWay /\ WayIsCounted
  BY <1>1 DEF PulsesInv
<1>3. Taken' = Taken /\ Taken \in Int
  <2>1. sent \in Nat /\ Len(wire) \in Nat /\ Len(recvArray) \in Nat
    BY <1>2 DEF CounterTypes
  <2>2. Taken' = Taken
    BY <1>1 DEF Taken
  <2> DEFINE a == Len(wire)
  <2> DEFINE b == Len(recvArray)
  <2>3. a \in Nat /\ b \in Nat /\ sent \in Nat /\ Taken = sent - a - b
    BY <2>1 DEF Taken
  <2> HIDE DEF a, b
  <2>4. Taken \in Int
    BY <2>3
  <2> QED
    BY <2>2, <2>4
<1>4. CounterTypes'
  <2>1. interval' \in Nat /\ missed' \in Nat /\ nowpulse' \in Int
    BY <1>1, <1>2, DevicesAssumption DEF CounterTypes, P!None, P!RequestAssumption
  <2>2. waiting' \in BOOLEAN
    BY <1>1
  <2> QED
    BY <1>1, <1>2, <2>1, <2>2 DEF CounterTypes
<1>5. AnswersInOrder'
  BY <1>1, <1>2, <1>3 DEF AnswersInOrder
<1>6. UnderWay'
  <2>1. elapsed /\ elapsed' /\ ~waiting' /\ missed \in Nat /\ elapsed' = elapsed
    BY <1>1, <1>2 DEF UnderWay, CounterTypes
  <2>2. Len(wire) + Len(recvArray) = missed + 1 + 1
    BY <1>1, <1>2, <2>1 DEF UnderWay
  <2>3. Len(wire') + Len(recvArray') = missed' + 1
    BY <1>1, <2>1, <2>2
  <2> QED
    BY <2>1, <2>3 DEF UnderWay
<1>7. WayIsCounted'
  <2>1. interval \in Nat /\ kilometer \in Nat /\ kilometer <= Taken
    BY <1>2 DEF WayIsCounted, CounterTypes
  <2> DEFINE d == Taken - kilometer
  <2>2. d \in Nat /\ Limit \in Nat
    BY <1>3, <2>1, DevicesAssumption DEF P!RequestAssumption
  <2>3. Waits(d + (IF nowpulse = P!None THEN 1 ELSE 0)) <= interval
    BY <1>2 DEF WayIsCounted
  <2>4. Taken' - kilometer' = d
    BY <1>1, <1>3
  <2> HIDE DEF d
  <2>5. Waits(d) \in Nat /\ Waits(d + 1) = Waits(d) + Limit
    BY <2>2, WaitsAdd
  <2>6. Waits(d) <= interval
    <3>1. CASE nowpulse = P!None
      BY <2>1, <2>2, <2>3, <2>5, <3>1
    <3>2. CASE nowpulse # P!None
      <4>1. d + (IF nowpulse = P!None THEN 1 ELSE 0) = d
        BY <2>2, <3>2
      <4> QED
        BY <2>3, <4>1
    <3> QED
      BY <3>1, <3>2
  <2>7. Waits(d + 1) <= interval'
    BY <1>1, <2>1, <2>2, <2>5, <2>6
  <2>8. Waits(Taken' - kilometer' + (IF nowpulse' = P!None THEN 1 ELSE 0)) <= interval'
    BY <1>1, <2>4, <2>7
  <2> QED
    BY <1>1, <1>3, <2>1, <2>8 DEF WayIsCounted
<1> QED
  BY <1>1, <1>3, <1>4, <1>5, <1>6, <1>7 DEF PulsesInv

LEMMA PulsesStep == PulsesInv /\ [P!Next]_(P!counterVars) => PulsesInv'
<1>1. PulsesInv /\ UNCHANGED P!counterVars => PulsesInv'
  <2> SUFFICES ASSUME PulsesInv, UNCHANGED P!counterVars, exact' PROVE PulsesInv'
    BY DEF PulsesInv
  <2>1. exact /\ CounterTypes /\ AnswersInOrder /\ UnderWay /\ WayIsCounted
    BY DEF PulsesInv, P!counterVars
  <2>2. Taken' = Taken
    BY DEF Taken, P!counterVars
  <2>3. CounterTypes' /\ AnswersInOrder' /\ UnderWay'
    BY <2>1, <2>2 DEF CounterTypes, AnswersInOrder, UnderWay, P!counterVars
  <2>4. WayIsCounted'
    BY <2>1, <2>2 DEF WayIsCounted, P!counterVars
  <2> QED
    BY <2>3, <2>4 DEF PulsesInv
<1> QED
  BY <1>1, PulsesRequest, PulsesReceive, PulsesTake, PulsesMiss DEF P!Next

LEMMA PulsesSound == PulsesInv => P!DelayNeverShrinks
<1> SUFFICES ASSUME PulsesInv, exact PROVE P!DelayNeverShrinks
  BY DEF P!DelayNeverShrinks
<1>1. CounterTypes /\ AnswersInOrder /\ UnderWay /\ WayIsCounted
  BY DEF PulsesInv
<1>2. ASSUME ~waiting, nowpulse # P!None, nowpulse # P!Reset PROVE sent - nowpulse = 1 + missed
  <2>1. elapsed /\ missed \in Nat /\ sent \in Nat /\ Len(wire) \in Nat /\ Len(recvArray) \in Nat
    BY <1>1, <1>2 DEF UnderWay, CounterTypes
  <2>2. nowpulse = sent - Len(wire) - Len(recvArray)
    BY <1>1, <1>2 DEF WayIsCounted, Taken
  <2>3. Len(wire) + Len(recvArray) = missed + 1 + 0
    BY <1>1, <1>2, <2>1 DEF UnderWay
  <2> QED
    BY <2>1, <2>2, <2>3
<1> QED
  BY <1>1, <1>2 DEF P!DelayNeverShrinks

LEMMA TakenBounds == PulsesInv /\ exact => Taken \in Nat /\ Taken <= sent
<1> SUFFICES ASSUME PulsesInv, exact PROVE Taken \in Nat /\ Taken <= sent
  OBVIOUS
<1>1. sent \in Nat /\ Len(wire) \in Nat /\ Len(recvArray) \in Nat /\ Taken >= 0
  BY DEF PulsesInv, CounterTypes, AnswersInOrder
<1> DEFINE a == Len(wire)
<1> DEFINE b == Len(recvArray)
<1>2. a \in Nat /\ b \in Nat /\ sent \in Nat /\ Taken = sent - a - b /\ Taken >= 0
  BY <1>1 DEF Taken
<1> HIDE DEF a, b
<1> QED
  BY <1>2

LEMMA TakenBoundsNext == PulsesInv' /\ exact' => Taken' \in Nat /\ Taken' <= sent'
<1> DEFINE Bounded == Taken \in Nat /\ Taken <= sent
<1>1. PulsesInv /\ exact => Bounded
  BY TakenBounds
<1> HIDE DEF Bounded
<1>2. PulsesInv' /\ exact' => Bounded'
  BY <1>1, PTL
<1> QED
  BY <1>2 DEF Bounded

\* What is taken is never given back.
LEMMA TakenRises == PulsesInv /\ [P!Next]_(P!counterVars) /\ exact' =>
                      exact /\ Taken' \in {Taken, Taken + 1}
<1>1. UNCHANGED P!counterVars /\ exact' => exact /\ Taken' = Taken
  BY DEF Taken, P!counterVars
<1> QED
  BY <1>1, PulsesRequest, PulsesReceive, PulsesTake, PulsesMiss DEF P!Next

\* The length of n rounds, if each waits up to the limit.
Rounds(n) == n * (Interval + Limit)

LEMMA RoundsAdd == /\ Interval \in Nat /\ Limit \in Nat /\ Rounds(0) = 0
                   /\ \A n \in Nat : /\ Rounds(n) \in Nat
                                     /\ Rounds(n + 1) = Rounds(n) + Interval + Limit
                                     /\ Rounds(n) = n * Interval + Waits(n)
<1>1. Interval \in Nat /\ Limit \in Nat
  BY DevicesAssumption DEF P!RequestAssumption
<1>2. 0 * (Interval + Limit) = 0
  BY <1>1
<1>3. ASSUME NEW n \in Nat
      PROVE  /\ n * (Interval + Limit) \in Nat
             /\ (n + 1) * (Interval + Limit) = n * (Interval + Limit) + Interval + Limit
             /\ n * (Interval + Limit) = n * Interval + n * Limit
  BY <1>1
<1> QED
  BY <1>1, <1>2, <1>3 DEF Rounds, Waits

\* Requests are not further apart than the rounds between them, and the time
\* now is not further than the rounds since.
RoundsInv ==
  /\ sent \in 0..MaxRequests /\ waiting \in BOOLEAN /\ elapsed \in BOOLEAN
  /\ clock \in Nat /\ sentAt \in [0..MaxRequests -> Nat]
  /\ \A i \in 1..sent : \A j \in i..sent : sentAt[j] - sentAt[i] <= Rounds(j - i)
  /\ \A i \in 1..sent : clock - sentAt[i] <= Rounds(sent - i + (IF waiting THEN 0 ELSE 1))

LEMMA RoundsTypes == RoundsInv => /\ sent \in Nat /\ MaxRequests \in Nat /\ sent \in 0..MaxRequests
                                  /\ clock \in Nat /\ sentAt \in [0..MaxRequests -> Nat]
                                  /\ Interval \in Nat /\ Limit \in Nat
<1>1. MaxRequests \in Nat /\ Interval \in Nat /\ Limit \in Nat
  BY DevicesAssumption DEF P!RequestAssumption
<1>2. RoundsInv => sent \in 0..MaxRequests /\ clock \in Nat /\ sentAt \in [0..MaxRequests -> Nat]
  BY Zenon DEF RoundsInv
<1> QED
  BY <1>1, <1>2

LEMMA RoundsInit == P!Init => RoundsInv
<1> SUFFICES ASSUME P!Init PROVE RoundsInv
  OBVIOUS
<1>1. /\ sent = 0 /\ waiting = FALSE /\ elapsed = FALSE
      /\ clock = 0 /\ sentAt = [n \in 0..MaxRequests |-> 0] /\ MaxRequests \in Nat
  BY DevicesAssumption DEF P!Init, P!RequestAssumption
<1>2. sentAt \in [0..MaxRequests -> Nat] /\ 1..sent = {} /\ sent \in 0..MaxRequests /\ clock \in Nat
  BY <1>1
<1>3. waiting \in BOOLEAN /\ elapsed \in BOOLEAN
  BY <1>1
<1> QED
  BY <1>2, <1>3, Zenon DEF RoundsInv

LEMMA RoundsRequest == RoundsInv /\ P!Request => RoundsInv'
<1> SUFFICES ASSUME RoundsInv, P!Request PROVE RoundsInv'
  OBVIOUS
<1>1. /\ ~waiting /\ sent < MaxRequests /\ sent' = sent + 1
      /\ sentAt' = [sentAt EXCEPT ![sent + 1] = clock]
      /\ elapsed' = TRUE /\ waiting' = elapsed
      /\ clock' = IF elapsed THEN clock ELSE clock + Interval
  BY DEF P!Request
<1>2. /\ sent \in Nat /\ MaxRequests \in Nat /\ sent \in 0..MaxRequests
      /\ clock \in Nat /\ sentAt \in [0..MaxRequests -> Nat] /\ Interval \in Nat /\ Limit \in Nat
  BY RoundsTypes
<1>3. /\ sent' \in 0..MaxRequests /\ sentAt' \in [0..MaxRequests -> Nat]
      /\ sentAt'[sent + 1] = clock /\ \A i \in 1..sent : sentAt'[i] = sentAt[i] /\ sentAt[i] \in Nat
  <2>1. sent + 1 \in 0..MaxRequests
    BY <1>1, <1>2
  <2>2. ASSUME NEW i \in 1..sent PROVE sentAt'[i] = sentAt[i] /\ sentAt[i] \in Nat
    <3>1. i \in 0..MaxRequests /\ i # sent + 1
      BY <1>2
    <3> QED
      BY <1>1, <1>2, <3>1
  <2> QED
    BY <1>1, <1>2, <2>1, <2>2
<1>4. ASSUME NEW i \in 1..sent PROVE clock - sentAt[i] <= Rounds(sent + 1 - i)
  <2>1. clock - sentAt[i] <= Rounds(sent - i + (IF waiting THEN 0 ELSE 1))
    BY DEF RoundsInv
  <2>2. sent - i + (IF waiting THEN 0 ELSE 1) = sent + 1 - i
    BY <1>1, <1>2
  <2> QED
    BY <2>1, <2>2
<1>5. clock' \in Nat /\ waiting' \in BOOLEAN /\ elapsed' \in BOOLEAN
  <2>1. elapsed \in BOOLEAN
    BY DEF RoundsInv
  <2>2. clock' \in Nat
    BY <1>1, <1>2
  <2> QED
    BY <1>1, <2>1, <2>2
<1>6. ASSUME NEW i \in 1..sent', NEW j \in i..sent' PROVE sentAt'[j] - sentAt'[i] <= Rounds(j - i)
  <2>1. CASE j # sent + 1
    <3>1. i \in 1..sent /\ j \in i..sent /\ j \in 1..sent
      BY <1>1, <1>2, <2>1
    <3>2. sentAt[j] - sentAt[i] <= Rounds(j - i)
      BY <3>1 DEF RoundsInv
    <3> QED
      BY <1>3, <3>1, <3>2
  <2>2. CASE j = sent + 1 /\ i # sent + 1
    <3>1. i \in 1..sent
      BY <1>1, <1>2, <2>2
    <3>2. sentAt'[i] = sentAt[i] /\ sentAt'[j] = clock
      BY <1>3, <2>2, <3>1
    <3>3. clock - sentAt[i] <= Rounds(sent + 1 - i)
      BY <1>4, <3>1
    <3>4. sent + 1 - i = j - i
      BY <1>2, <2>2
    <3> QED
      BY <3>2, <3>3, <3>4
  <2>3. CASE j = sent + 1 /\ i = sent + 1
    <3>1. j - i = 0 /\ sentAt'[j] = clock /\ sentAt'[i] = clock
      BY <1>2, <1>3, <2>3
    <3>2. sentAt'[j] - sentAt'[i] = 0
      BY <1>2, <3>1
    <3> QED
      BY <3>1, <3>2, RoundsAdd
  <2> QED
    BY <2>1, <2>2, <2>3
<1>7. ASSUME NEW i \in 1..sent'
      PROVE  clock' - sentAt'[i] <= Rounds(sent' - i + (IF waiting' THEN 0 ELSE 1))
  <2> DEFINE d == sent + 1 - i
  <2>1. d \in Nat /\ sent' - i = d /\ sentAt'[i] \in Nat
    BY <1>1, <1>2, <1>3
  <2>2. clock - sentAt'[i] <= Rounds(d)
    <3>1. CASE i = sent + 1
      <4>1. d = 0 /\ sentAt'[i] = clock /\ clock - clock = 0
        BY <1>2, <1>3, <3>1
      <4>2. Rounds(d) = 0
        BY <4>1, RoundsAdd
      <4>3. clock - sentAt'[i] = 0
        BY <4>1
      <4> QED
        BY <4>2, <4>3
    <3>2. CASE i # sent + 1
      <4>1. i \in 1..sent
        BY <1>1, <1>2, <3>2
      <4> QED
        BY <1>3, <1>4, <4>1
    <3> QED
      BY <3>1, <3>2
  <2> HIDE DEF d
  <2>3. Rounds(d) \in Nat /\ Rounds(d + 1) = Rounds(d) + Interval + Limit
    BY <2>1, RoundsAdd
  <2>4. CASE elapsed
    <3>1. waiting' /\ clock' = clock /\ (IF waiting' THEN 0 ELSE 1) = 0
      BY <1>1, <2>4
    <3>2. sent' - i + (IF waiting' THEN 0 ELSE 1) = d
      BY <2>1, <3>1
    <3> QED
      BY <2>2, <3>1, <3>2
  <2>5. CASE ~elapsed
    <3>1. ~waiting' /\ clock' = clock + Interval /\ (IF waiting' THEN 0 ELSE 1) = 1
      BY <1>1, <2>5
    <3>2. sent' - i + (IF waiting' THEN 0 ELSE 1) = d + 1
      BY <2>1, <3>1
    <3>3. clock + Interval - sentAt'[i] <= Rounds(d) + Interval + Limit
      BY <1>2, <2>1, <2>2, <2>3
    <3>4. clock' - sentAt'[i] <= Rounds(d + 1)
      BY <1>2, <2>1, <2>3, <3>1, <3>3
    <3> QED
      BY <3>2, <3>4
  <2> QED
    BY <2>4, <2>5
<1> QED
  BY <1>3, <1>5, <1>6, <1>7 DEF RoundsInv

\* The end of a wait, with or without a message.
LEMMA RoundsWaited ==
  ASSUME RoundsInv, waiting, waiting' = FALSE, NEW w \in 0..Limit, P!Waited(w),
         UNCHANGED <<sent, elapsed, sentAt>>
  PROVE  RoundsInv'
<1>1. clock' = clock + w + Interval /\ sent' = sent /\ elapsed' = elapsed /\ sentAt' = sentAt
  BY DEF P!Waited
<1>2. /\ sent \in 0..MaxRequests /\ clock \in Nat /\ sent \in Nat /\ MaxRequests \in Nat
      /\ sentAt \in [0..MaxRequests -> Nat] /\ Interval \in Nat /\ Limit \in Nat /\ w \in Nat /\ w <= Limit
  BY RoundsTypes
<1>3. clock' \in Nat /\ (IF waiting' THEN 0 ELSE 1) = 1
  BY <1>1, <1>2
<1>6. waiting' \in BOOLEAN /\ elapsed' \in BOOLEAN
  BY <1>1, Zenon DEF RoundsInv
<1>4. ASSUME NEW i \in 1..sent
      PROVE  clock' - sentAt[i] <= Rounds(sent - i + (IF waiting' THEN 0 ELSE 1))
  <2> DEFINE d == sent - i
  <2>1. d \in Nat /\ sentAt[i] \in Nat
    BY <1>2
  <2>2. clock - sentAt[i] <= Rounds(d)
    <3>1. clock - sentAt[i] <= Rounds(sent - i + (IF waiting THEN 0 ELSE 1))
      BY DEF RoundsInv
    <3>2. sent - i + (IF waiting THEN 0 ELSE 1) = d
      BY <1>2
    <3> QED
      BY <3>1, <3>2
  <2>3. sent - i + (IF waiting' THEN 0 ELSE 1) = d + 1
    BY <1>3
  <2> HIDE DEF d
  <2>4. Rounds(d) \in Nat /\ Rounds(d + 1) = Rounds(d) + Interval + Limit
    BY <2>1, RoundsAdd
  <2>5. clock + w + Interval - sentAt[i] <= Rounds(d + 1)
    BY <1>2, <2>1, <2>2, <2>4
  <2>6. clock' - sentAt[i] <= Rounds(d + 1)
    BY <1>1, <1>2, <2>5
  <2> QED
    BY <2>3, <2>6
<1>5. \A i \in 1..sent : \A j \in i..sent : sentAt[j] - sentAt[i] <= Rounds(j - i)
  BY DEF RoundsInv
<1> QED
  BY <1>1, <1>2, <1>3, <1>4, <1>5, <1>6, Zenon DEF RoundsInv

LEMMA RoundsStep == RoundsInv /\ [P!Next]_(P!counterVars) => RoundsInv'
<1> SUFFICES ASSUME RoundsInv, [P!Next]_(P!counterVars) PROVE RoundsInv'
  OBVIOUS
<1>1. CASE P!Request
  BY <1>1, RoundsRequest
<1>2. CASE P!OnRecvData
  BY <1>2 DEF P!OnRecvData, RoundsInv
<1>3. CASE P!CalcSpeedData
  <2>1. waiting /\ waiting' = FALSE /\ UNCHANGED <<sent, elapsed, sentAt>>
    BY <1>3 DEF P!CalcSpeedData, P!RecvDataGet
  <2>2. PICK w \in 0..Limit : P!Waited(w)
    BY <1>3 DEF P!CalcSpeedData, P!RecvDataGet
  <2> QED
    BY <2>1, <2>2, RoundsWaited
<1>4. CASE P!NoAnswer
  <2>1. waiting /\ waiting' = FALSE /\ UNCHANGED <<sent, elapsed, sentAt>> /\ P!Waited(Limit)
    BY <1>4 DEF P!NoAnswer
  <2>2. Limit \in 0..Limit
    BY RoundsAdd
  <2> QED
    BY <2>1, <2>2, RoundsWaited
<1>5. CASE UNCHANGED P!counterVars
  BY <1>5 DEF RoundsInv, P!counterVars
<1> QED
  BY <1>1, <1>2, <1>3, <1>4, <1>5 DEF P!Next

\* The speed was computed from values that were taken.
SpeedInv == exact => /\ speed.from \in Nat /\ speed.to \in Nat
                     /\ speed.from <= speed.to /\ speed.to <= Taken
                     /\ P!OverstatedByWaits

CounterInv == PulsesInv /\ RoundsInv /\ SpeedInv

LEMMA CounterInit == P!Init => CounterInv
<1> SUFFICES ASSUME P!Init PROVE SpeedInv
  BY PulsesInit, RoundsInit DEF CounterInv
<1>1. speed.from = 0 /\ speed.to = 0
  BY DEF P!Init, P!Reset
<1>2. Taken = 0
  <2>1. sent = 0 /\ Len(wire) = 0 /\ Len(recvArray) = 0
    BY DEF P!Init
  <2> DEFINE a == Len(wire)
  <2> DEFINE b == Len(recvArray)
  <2>2. sent = 0 /\ a = 0 /\ b = 0 /\ Taken = sent - a - b
    BY <2>1 DEF Taken
  <2> HIDE DEF a, b
  <2> QED
    BY <2>2
<1>3. P!OverstatedByWaits
  BY <1>1 DEF P!OverstatedByWaits, P!Reset
<1> QED
  BY <1>1, <1>2, <1>3 DEF SpeedInv

\* A value is computed: the rounds since the last one are those between the two.
LEMMA SpeedTake == CounterInv /\ P!CalcSpeedData /\ nowpulse # P!None => SpeedInv'
<1> SUFFICES ASSUME CounterInv, P!CalcSpeedData, nowpulse # P!None, exact' PROVE SpeedInv'
  BY DEF SpeedInv
<1>1. /\ nowpulse' = Head(recvArray)[1] /\ exact /\ sent' = sent /\ sentAt' = sentAt
      /\ speed' = [from |-> kilometer, to |-> nowpulse', over |-> Interval + interval]
  BY DEF P!CalcSpeedData
<1>2. PulsesInv /\ PulsesInv' /\ RoundsInv
  BY PulsesTake DEF CounterInv
<1>3. CounterTypes /\ WayIsCounted /\ CounterTypes' /\ WayIsCounted' /\ AnswersInOrder'
  BY <1>1, <1>2 DEF PulsesInv
<1>4. Taken \in Nat /\ Taken' = Taken + 1 /\ nowpulse' = Taken + 1 /\ Taken + 1 <= sent
  <2>1. Taken \in Nat /\ Taken' = Taken + 1 /\ nowpulse' = Taken + 1
    BY <1>1, <1>2, PulsesTake, TakenBounds
  <2> QED
    BY <1>1, <1>2, <2>1, TakenBoundsNext
<1>5. kilometer \in Nat /\ interval \in Nat /\ kilometer <= Taken /\ Waits(Taken - kilometer) <= interval
  <2>1. Taken - kilometer + (IF nowpulse = P!None THEN 1 ELSE 0) = Taken - kilometer
    BY <1>3, <1>4 DEF CounterTypes
  <2> QED
    BY <1>3, <2>1 DEF CounterTypes, WayIsCounted
<1>6. speed'.from = kilometer /\ speed'.to = Taken + 1 /\ speed'.over = Interval + interval
  BY <1>1, <1>4
<1>7. P!OverstatedByWaits'
  <2> SUFFICES ASSUME speed'.from # P!Reset
               PROVE  /\ speed'.to - speed'.from >= 1
                      /\ sentAt'[speed'.to] - sentAt'[speed'.from]
                           <= speed'.over + Limit + (speed'.to - speed'.from - 1) * Interval
    BY DEF P!OverstatedByWaits
  <2>9. kilometer # P!Reset /\ kilometer \in Nat
    BY <1>5, <1>6
  <2> DEFINE d == Taken - kilometer
  <2>1. d \in Nat /\ Taken + 1 - kilometer = d + 1 /\ Taken + 1 - kilometer - 1 = d
    BY <1>4, <1>5
  <2>2. kilometer \in 1..sent /\ Taken + 1 \in kilometer..sent
    BY <1>3, <1>4, <1>5, <2>9 DEF CounterTypes, P!Reset
  <2>3. sentAt[Taken + 1] - sentAt[kilometer] <= Rounds(d + 1)
    <3>1. \A i \in 1..sent : \A j \in i..sent : sentAt[j] - sentAt[i] <= Rounds(j - i)
      BY <1>2, Zenon DEF RoundsInv
    <3> DEFINE j == Taken + 1
    <3>2. kilometer \in 1..sent /\ j \in kilometer..sent
      BY <2>2
    <3>3. j - kilometer = d + 1
      BY <1>4, <2>1, <2>9
    <3> HIDE DEF j
    <3>4. sentAt[j] - sentAt[kilometer] <= Rounds(j - kilometer)
      BY <3>1, <3>2
    <3> QED
      BY <3>3, <3>4 DEF j
  <2>4. Waits(d) <= interval
    BY <1>5
  <2>5. sentAt[Taken + 1] \in Nat /\ sentAt[kilometer] \in Nat
    <3>1. Taken + 1 \in 0..MaxRequests /\ kilometer \in 0..MaxRequests
      BY <1>2, <1>4, <2>2, DevicesAssumption DEF RoundsInv, P!RequestAssumption
    <3> QED
      BY <1>2, <3>1 DEF RoundsInv
  <2> HIDE DEF d
  <2> DEFINE r == d * Interval
  <2>6. /\ Rounds(d + 1) = Rounds(d) + Interval + Limit /\ Rounds(d) = r + Waits(d)
        /\ r \in Nat /\ Waits(d) \in Nat /\ Interval \in Nat /\ Limit \in Nat
    BY <2>1, RoundsAdd, WaitsAdd
  <2> HIDE DEF r
  <2>7. sentAt[Taken + 1] - sentAt[kilometer] <= Interval + interval + Limit + r
    BY <1>5, <2>3, <2>4, <2>5, <2>6
  <2>10. speed'.to - speed'.from = d + 1 /\ speed'.to - speed'.from - 1 = d
    BY <1>4, <1>6, <2>1, <2>9
  <2>11. sentAt'[speed'.to] - sentAt'[speed'.from] = sentAt[Taken + 1] - sentAt[kilometer]
    BY <1>1, <1>6
  <2>12. (speed'.to - speed'.from - 1) * Interval = r
    BY <2>10 DEF r
  <2>13. speed'.over + Limit + r = Interval + interval + Limit + r
    BY <1>6
  <2> QED
    BY <2>1, <2>7, <2>10, <2>11, <2>12, <2>13
<1> QED
  BY <1>4, <1>5, <1>6, <1>7 DEF SpeedInv

\* A step that computes no speed.
LEMMA SpeedKept ==
  ASSUME CounterInv, speed' = speed, exact' => exact,
         exact' => Taken \in Nat /\ Taken' \in {Taken, Taken + 1} /\ Taken <= sent,
         \A i \in 0..sent : sentAt'[i] = sentAt[i]
  PROVE  SpeedInv'
<1> SUFFICES ASSUME exact' PROVE SpeedInv'
  BY DEF SpeedInv
<1>1. /\ speed.from \in Nat /\ speed.to \in Nat /\ speed.from <= speed.to /\ speed.to <= Taken
      /\ P!OverstatedByWaits /\ exact
  BY DEF CounterInv, SpeedInv
<1>2. sent \in Nat
  BY DEF CounterInv, RoundsInv
<1>3. sentAt'[speed.to] = sentAt[speed.to] /\ sentAt'[speed.from] = sentAt[speed.from]
  <2>1. speed.to \in 0..sent /\ speed.from \in 0..sent
    BY <1>1, <1>2
  <2> QED
    BY <2>1
<1>4. P!OverstatedByWaits'
  BY <1>1, <1>3 DEF P!OverstatedByWaits
<1> QED
  BY <1>1, <1>4 DEF SpeedInv

LEMMA CounterStep == CounterInv /\ [P!Next]_(P!counterVars) => CounterInv'
<1> SUFFICES ASSUME CounterInv, [P!Next]_(P!counterVars) PROVE SpeedInv'
  BY PulsesStep, RoundsStep DEF CounterInv
<1>1. PulsesInv /\ PulsesInv' /\ RoundsInv
  BY PulsesStep DEF CounterInv
<1>2. CASE P!CalcSpeedData /\ nowpulse # P!None
  BY <1>2, SpeedTake
<1>3. CASE P!Request
  <2>1. speed' = speed /\ (exact' => exact)
    BY <1>3 DEF P!Request
  <2>2. ASSUME NEW i \in 0..sent PROVE sentAt'[i] = sentAt[i]
    <3>1. i # sent + 1 /\ i \in 0..MaxRequests
      BY <1>1, DevicesAssumption DEF RoundsInv, P!RequestAssumption
    <3> QED
      BY <1>1, <1>3, <3>1 DEF P!Request, RoundsInv
  <2>3. exact' => Taken \in Nat /\ Taken' \in {Taken, Taken + 1} /\ Taken <= sent
    BY <1>1, TakenRises, TakenBounds
  <2> QED
    BY <2>1, <2>2, <2>3, SpeedKept
<1>4. CASE P!OnRecvData \/ P!NoAnswer \/ UNCHANGED P!counterVars
  <2>1. speed' = speed /\ (exact' => exact) /\ sentAt' = sentAt
    <3>1. CASE P!OnRecvData
      BY <3>1, Zenon DEF P!OnRecvData
    <3>2. CASE P!NoAnswer \/ UNCHANGED P!counterVars
      BY <3>2 DEF P!NoAnswer, P!counterVars
    <3> QED
      BY <1>4, <3>1, <3>2
  <2>2. exact' => Taken \in Nat /\ Taken' \in {Taken, Taken + 1} /\ Taken <= sent
    BY <1>1, TakenRises, TakenBounds
  <2> QED
    BY <2>1, <2>2, SpeedKept
<1>5. CASE P!CalcSpeedData /\ nowpulse = P!None
  <2>1. exact' => Taken \in Nat /\ Taken' \in {Taken, Taken + 1} /\ Taken <= sent
    BY <1>1, TakenRises, TakenBounds
  <2>2. speed' = speed /\ (exact' => exact) /\ sentAt' = sentAt
    BY <1>5 DEF P!CalcSpeedData
  <2> QED
    BY <2>1, <2>2, SpeedKept
<1> QED
  BY <1>2, <1>3, <1>4, <1>5 DEF P!Next

LEMMA CounterSound == CounterInv => P!SpeedOfLateAnswers
<1> SUFFICES ASSUME CounterInv PROVE P!OverstatedByWaits
  BY PulsesSound DEF CounterInv, P!SpeedOfLateAnswers
<1> QED
  BY DEF CounterInv, SpeedInv, P!OverstatedByWaits

-----------------------------------------------------------------------------
(* The reader of the tags.                                                  *)

\* A frame has a tag if it is one of a tag, and a count of none has seen none.
Frames == {f \in [frame : {"count", "tag", "other"}, number : Nat, tag : Tags \cup {NoTag},
                  seen : SUBSET Tags] :
             /\ f.frame = "tag" <=> f.tag \in Tags
             /\ f.frame # "count" \/ f.number = 0 => f.seen = {}}

Messages == {m \in Seq(Frames) : Len(m) >= 1}

\* A clear is decided on when nothing is counted.
Commands == [command : Int, counted : {{}}]

ReaderTypes == /\ passed \in SUBSET Tags /\ buffer \in Seq(Tags)
               /\ requests \in Seq(Commands) /\ readerReplies \in Seq(Frames) /\ tasks \in Seq(Messages)
               /\ told \in SUBSET (Tags \cup {NoTag})

\* The tags of a message with several frames are noted.
MergedNoted == \A k \in 1..Len(tasks) :
                 Len(tasks[k]) > 1 => \A i \in 1..Len(tasks[k]) : tasks[k][i].tag \in merged

EmptyToldIfMerged == NoTag \in told => merged # {}

NothingCountedErased == erased.counted = {}

\* Where a tag that was passed is.
Somewhere(t) == \/ \E i \in 1..Len(buffer) : buffer[i] = t
                \/ t \in told \cup merged \cup erased.uncounted
                \/ \E i \in 1..Len(readerReplies) : readerReplies[i].tag = t
                \/ \E k \in 1..Len(tasks) : tasks[k][1].tag = t

NoneLost == \A t \in passed : Somewhere(t)

ReaderInv == /\ ReaderTypes /\ MergedNoted /\ EmptyToldIfMerged /\ NothingCountedErased
             /\ NoneLost

\* A sequence without its k-th element has all others, and no more.
LEMMA WithoutIs ==
  ASSUME NEW S, NEW s \in Seq(S), NEW k \in 1..Len(s)
  PROVE  /\ R!RemoveAt(s, k) \in Seq(S)
         /\ \A j \in 1..Len(s) : j # k =>
              \E i \in 1..Len(R!RemoveAt(s, k)) : R!RemoveAt(s, k)[i] = s[j]
         /\ \A i \in 1..Len(R!RemoveAt(s, k)) : \E j \in 1..Len(s) : R!RemoveAt(s, k)[i] = s[j]
<1> DEFINE a == SubSeq(s, 1, k - 1)
<1> DEFINE b == SubSeq(s, k + 1, Len(s))
<1> DEFINE l == Len(s)
<1> DEFINE c == a \o b
<1>1. l \in Nat /\ k \in Nat /\ 1 <= k /\ k <= l
  OBVIOUS
<1>2. \A i \in 1..l : s[i] \in S
  BY ElementOfSeq
<1>3. /\ a \in Seq(S) /\ Len(a) = k - 1 /\ \A i \in 1..(k - 1) : a[i] = s[i]
  <2>1. \A i \in 1..(k - 1) : s[i] \in S
    BY <1>1, <1>2
  <2>2. /\ a \in Seq(S) /\ Len(a) = IF 1 <= k - 1 THEN k - 1 - 1 + 1 ELSE 0
        /\ \A i \in 1..(k - 1 - 1 + 1) : a[i] = s[1 + i - 1]
    BY <1>1, <2>1, SubSeqProperties
  <2> HIDE DEF a
  <2>3. Len(a) = k - 1 /\ k - 1 - 1 + 1 = k - 1
    BY <1>1, <2>2
  <2>4. \A i \in 1..(k - 1) : 1 + i - 1 = i
    BY <1>1
  <2>5. \A i \in 1..(k - 1) : a[i] = s[1 + i - 1]
    BY <2>2, <2>3
  <2> QED
    BY <2>2, <2>3, <2>4, <2>5
<1>4. /\ b \in Seq(S) /\ Len(b) = l - k /\ \A i \in 1..(l - k) : b[i] = s[k + i]
  <2>1. \A i \in (k + 1)..l : s[i] \in S
    BY <1>1, <1>2
  <2>2. /\ b \in Seq(S) /\ Len(b) = IF k + 1 <= l THEN l - (k + 1) + 1 ELSE 0
        /\ \A i \in 1..(l - (k + 1) + 1) : b[i] = s[(k + 1) + i - 1]
    BY <1>1, <2>1, SubSeqProperties
  <2> HIDE DEF b, l
  <2>3. Len(b) = l - k /\ l - (k + 1) + 1 = l - k
    BY <1>1, <2>2
  <2>4. \A i \in 1..(l - k) : (k + 1) + i - 1 = k + i
    BY <1>1
  <2>5. \A i \in 1..(l - k) : b[i] = s[(k + 1) + i - 1]
    BY <2>2, <2>3
  <2> QED
    BY <2>2, <2>3, <2>4, <2>5
<1>5. R!RemoveAt(s, k) = c
  BY DEF R!RemoveAt
<1> HIDE DEF a, b, l
<1>6. /\ c \in Seq(S) /\ Len(c) = l - 1
      /\ \A i \in 1..(l - 1) : c[i] = IF i <= k - 1 THEN a[i] ELSE b[i - (k - 1)]
  <2>1. /\ c \in Seq(S) /\ Len(c) = Len(a) + Len(b)
        /\ \A i \in 1..(Len(a) + Len(b)) : c[i] = IF i <= Len(a) THEN a[i] ELSE b[i - Len(a)]
    BY <1>3, <1>4, ConcatProperties
  <2>2. Len(a) + Len(b) = l - 1
    BY <1>1, <1>3, <1>4
  <2> QED
    BY <1>3, <2>1, <2>2
<1> HIDE DEF c
<1>7. ASSUME NEW i \in 1..(l - 1) PROVE c[i] = IF i <= k - 1 THEN s[i] ELSE s[i + 1]
  <2>1. CASE i <= k - 1
    <3>1. i \in 1..(k - 1)
      BY <1>1, <2>1
    <3> QED
      BY <1>3, <1>6, <2>1, <3>1
  <2>2. CASE ~(i <= k - 1)
    <3>1. i - (k - 1) \in 1..(l - k) /\ k + (i - (k - 1)) = i + 1
      BY <1>1, <2>2
    <3>2. b[i - (k - 1)] = s[k + (i - (k - 1))]
      BY <1>4, <3>1
    <3> QED
      BY <1>6, <2>2, <3>1, <3>2
  <2> QED
    BY <2>1, <2>2
<1>8. ASSUME NEW j \in 1..l, j # k PROVE \E i \in 1..Len(c) : c[i] = s[j]
  <2>1. CASE j < k
    <3>1. j \in 1..(l - 1) /\ j <= k - 1
      BY <1>1, <2>1
    <3> QED
      BY <1>6, <1>7, <3>1
  <2>2. CASE j > k
    <3>1. j - 1 \in 1..(l - 1) /\ ~(j - 1 <= k - 1) /\ (j - 1) + 1 = j
      BY <1>1, <2>2
    <3>2. c[j - 1] = s[(j - 1) + 1]
      BY <1>7, <3>1
    <3> QED
      BY <1>6, <3>1, <3>2
  <2> QED
    BY <1>1, <1>8, <2>1, <2>2
<1>9. ASSUME NEW i \in 1..Len(c) PROVE \E j \in 1..l : c[i] = s[j]
  <2>1. i \in 1..(l - 1) /\ i \in 1..l /\ i + 1 \in 1..l
    BY <1>1, <1>6
  <2> QED
    BY <1>7, <2>1
<1> QED
  BY <1>5, <1>6, <1>8, <1>9 DEF l

LEMMA ReaderInit == R!Init => ReaderInv
<1> SUFFICES ASSUME R!Init PROVE ReaderInv
  OBVIOUS
<1>1. /\ passed = {} /\ buffer = <<>> /\ requests = <<>> /\ readerReplies = <<>> /\ tasks = <<>>
      /\ told = {} /\ erased.counted = {}
  BY DEF R!Init
<1>2. Len(tasks) = 0
  BY <1>1
<1>3. ReaderTypes
  <2>1. <<>> \in Seq(Tags) /\ <<>> \in Seq(Commands) /\ <<>> \in Seq(Frames) /\ <<>> \in Seq(Messages)
    OBVIOUS
  <2> QED
    BY <1>1, <2>1 DEF ReaderTypes
<1>4. MergedNoted
  BY <1>2 DEF MergedNoted
<1> QED
  BY <1>1, <1>3, <1>4 DEF ReaderInv, EmptyToldIfMerged, NothingCountedErased, NoneLost

\* The reader answers a request.
LEMMA ReaderAnswers ==
  ASSUME ReaderInv, NEW c, NEW f, R!Answer(c, f), f \in Frames
  PROVE  /\ requests' \in Seq(Commands) /\ readerReplies' \in Seq(Frames)
         /\ \A i \in 1..Len(readerReplies) : i \in 1..Len(readerReplies') /\ readerReplies'[i] = readerReplies[i]
         /\ Len(readerReplies) + 1 \in 1..Len(readerReplies') /\ readerReplies'[Len(readerReplies) + 1] = f
         /\ Head(requests).counted = {}
         /\ UNCHANGED <<passed, tasks, told, merged>>
<1>1. /\ requests # <<>> /\ requests' = Tail(requests) /\ readerReplies' = Append(readerReplies, f)
      /\ UNCHANGED <<passed, tasks, told, merged>>
  BY DEF R!Answer
<1>2. requests \in Seq(Commands) /\ readerReplies \in Seq(Frames)
  BY DEF ReaderInv, ReaderTypes
<1>3. requests' \in Seq(Commands) /\ Head(requests) \in Commands
  BY <1>1, <1>2, TailIs
<1>4. Head(requests).counted = {}
  BY <1>3 DEF Commands
<1> QED
  BY <1>1, <1>2, <1>3, <1>4, AppendIs

LEMMA ReaderStepReader == ReaderInv /\ R!Reader => ReaderInv'
<1> SUFFICES ASSUME ReaderInv, R!Reader PROVE ReaderInv'
  OBVIOUS
<1>1. /\ ReaderTypes /\ MergedNoted /\ EmptyToldIfMerged /\ NothingCountedErased
      /\ NoneLost
  BY DEF ReaderInv
<1>2. buffer \in Seq(Tags) /\ Len(buffer) \in Nat /\ NoTag \notin Tags
  BY <1>1, DevicesAssumption DEF ReaderTypes, R!RfidAssumption
<1>4. CASE R!Count \/ R!GiveNone
  <2>1. PICK c \in Int, f \in Frames : R!Answer(c, f)
    <3>1. CASE R!Count
      <4> DEFINE f == [frame |-> "count", number |-> Len(buffer), tag |-> NoTag, seen |-> R!InBuffer]
      <4>1. R!Answer(R!Inventory, f)
        BY <3>1 DEF R!Count
      <4>2. R!InBuffer \in SUBSET Tags
        BY <1>2, ElementOfSeq DEF R!InBuffer
      <4>3. Len(buffer) = 0 => R!InBuffer = {}
        BY <1>2 DEF R!InBuffer
      <4>4. f \in Frames
        BY <1>2, <4>2, <4>3 DEF Frames
      <4> HIDE DEF f
      <4> QED
        BY <4>1, <4>4 DEF R!Inventory
    <3>2. CASE R!GiveNone
      <4> DEFINE f == [frame |-> "other", number |-> 0, tag |-> NoTag, seen |-> {}]
      <4>1. R!Answer(R!Tag, f)
        BY <3>2 DEF R!GiveNone
      <4>2. f \in Frames
        BY <1>2 DEF Frames
      <4> HIDE DEF f
      <4> QED
        BY <4>1, <4>2 DEF R!Tag
    <3> QED
      BY <1>4, <3>1, <3>2
  <2>2. UNCHANGED <<buffer, erased>>
    BY <1>4 DEF R!Count, R!GiveNone
  <2>3. /\ requests' \in Seq(Commands) /\ readerReplies' \in Seq(Frames)
        /\ \A i \in 1..Len(readerReplies) : i \in 1..Len(readerReplies') /\ readerReplies'[i] = readerReplies[i]
        /\ UNCHANGED <<passed, tasks, told, merged>>
    BY <2>1, ReaderAnswers
  <2>4. ReaderTypes' /\ MergedNoted' /\ EmptyToldIfMerged' /\ NothingCountedErased'
    BY <1>1, <2>2, <2>3 DEF ReaderTypes, MergedNoted, EmptyToldIfMerged, NothingCountedErased
  <2>5. NoneLost'
    BY <1>1, <2>2, <2>3 DEF NoneLost, Somewhere
  <2> QED
    BY <2>4, <2>5 DEF ReaderInv
<1>5. CASE R!Give
  <2> DEFINE f == [frame |-> "tag", number |-> 1, tag |-> Head(buffer), seen |-> {}]
  <2>1. buffer # <<>> /\ R!Answer(R!Tag, f) /\ buffer' = Tail(buffer) /\ erased' = erased
    BY <1>5 DEF R!Give
  <2>2. /\ buffer' \in Seq(Tags) /\ Head(buffer) = buffer[1] /\ buffer[1] \in Tags
        /\ \A i \in 1..Len(buffer) : i # 1 => i - 1 \in 1..Len(buffer') /\ buffer'[i - 1] = buffer[i]
    BY <1>2, <2>1, TailIs
  <2>3. f \in Frames /\ f.tag = buffer[1]
    BY <1>2, <2>2 DEF Frames
  <2> HIDE DEF f
  <2>4. /\ requests' \in Seq(Commands) /\ readerReplies' \in Seq(Frames)
        /\ \A i \in 1..Len(readerReplies) : i \in 1..Len(readerReplies') /\ readerReplies'[i] = readerReplies[i]
        /\ Len(readerReplies) + 1 \in 1..Len(readerReplies') /\ readerReplies'[Len(readerReplies) + 1] = f
        /\ UNCHANGED <<passed, tasks, told, merged>>
    BY <2>1, <2>3, ReaderAnswers
  <2>5. ReaderTypes' /\ MergedNoted' /\ EmptyToldIfMerged' /\ NothingCountedErased'
    BY <1>1, <2>1, <2>2, <2>4 DEF ReaderTypes, MergedNoted, EmptyToldIfMerged, NothingCountedErased
  <2>6. ASSUME NEW t \in passed PROVE Somewhere(t)'
    <3>1. Somewhere(t)
      BY <1>1 DEF NoneLost
    <3>2. CASE \E i \in 1..Len(buffer) : buffer[i] = t
      <4>1. PICK i \in 1..Len(buffer) : buffer[i] = t
        BY <3>2
      <4>2. CASE i = 1
        BY <2>3, <2>4, <4>1, <4>2 DEF Somewhere
      <4>3. CASE i # 1
        BY <2>2, <4>1, <4>3 DEF Somewhere
      <4> QED
        BY <4>2, <4>3
    <3>3. CASE ~\E i \in 1..Len(buffer) : buffer[i] = t
      BY <2>1, <2>4, <3>1, <3>3 DEF Somewhere
    <3> QED
      BY <3>2, <3>3
  <2>7. NoneLost'
    BY <2>4, <2>6 DEF NoneLost
  <2> QED
    BY <2>5, <2>7 DEF ReaderInv
<1>6. CASE R!Clear
  <2> DEFINE f == [frame |-> "other", number |-> 0, tag |-> NoTag, seen |-> {}]
  <2>1. R!Answer(R!Buffer, f) /\ buffer' = <<>>
    BY <1>6 DEF R!Clear
  <2>2. f \in Frames
    BY <1>2 DEF Frames
  <2> HIDE DEF f
  <2>3. /\ requests' \in Seq(Commands) /\ readerReplies' \in Seq(Frames)
        /\ \A i \in 1..Len(readerReplies) : i \in 1..Len(readerReplies') /\ readerReplies'[i] = readerReplies[i]
        /\ Head(requests).counted = {}
        /\ UNCHANGED <<passed, tasks, told, merged>>
    BY <2>1, <2>2, ReaderAnswers
  <2>4. /\ erased'.counted = erased.counted
        /\ erased'.uncounted = erased.uncounted \cup R!InBuffer
    <3>1. R!InBuffer \cap Head(requests).counted = {}
      BY <2>3
    <3>2. erased' = [counted |-> erased.counted \cup (R!InBuffer \cap Head(requests).counted),
                     uncounted |-> erased.uncounted \cup
                                     (R!InBuffer \ (R!InBuffer \cap Head(requests).counted))]
      BY <1>6 DEF R!Clear
    <3> QED
      BY <3>1, <3>2
  <2>5. <<>> \in Seq(Tags)
    OBVIOUS
  <2>6. ReaderTypes' /\ MergedNoted' /\ EmptyToldIfMerged' /\ NothingCountedErased'
    BY <1>1, <2>1, <2>3, <2>4, <2>5
       DEF ReaderTypes, MergedNoted, EmptyToldIfMerged, NothingCountedErased
  <2>7. ASSUME NEW t \in passed PROVE Somewhere(t)'
    <3>1. Somewhere(t)
      BY <1>1 DEF NoneLost
    <3>2. CASE \E i \in 1..Len(buffer) : buffer[i] = t
      <4>1. t \in R!InBuffer
        BY <1>2, <3>2 DEF R!InBuffer
      <4> QED
        BY <2>4, <4>1 DEF Somewhere
    <3>3. CASE ~\E i \in 1..Len(buffer) : buffer[i] = t
      BY <2>3, <2>4, <3>1, <3>3 DEF Somewhere
    <3> QED
      BY <3>2, <3>3
  <2>8. NoneLost'
    BY <2>3, <2>7 DEF NoneLost
  <2> QED
    BY <2>6, <2>8 DEF ReaderInv
<1> QED
  BY <1>4, <1>5, <1>6 DEF R!Reader

\* What comes from the socket becomes a task.
LEMMA ReaderReceives == ReaderInv /\ R!Receive => ReaderInv'
<1> SUFFICES ASSUME ReaderInv, NEW n \in 1..MaxWire, R!OnrecvData(n) PROVE ReaderInv'
  BY DEF R!Receive
<1> DEFINE m == SubSeq(readerReplies, 1, n)
<1> DEFINE l == Len(readerReplies)
<1>1. /\ n \in 1..l /\ tasks' = Append(tasks, m) /\ readerReplies' = SubSeq(readerReplies, n + 1, l)
      /\ merged' = IF n = 1 THEN merged ELSE merged \cup {readerReplies[i].tag : i \in 1..n}
      /\ UNCHANGED <<passed, buffer, requests, told, erased>>
  BY DEF R!OnrecvData
<1>2. /\ ReaderTypes /\ MergedNoted /\ EmptyToldIfMerged /\ NothingCountedErased
      /\ NoneLost
  BY DEF ReaderInv
<1>3. readerReplies \in Seq(Frames) /\ tasks \in Seq(Messages) /\ l \in Nat /\ n \in Nat /\ 1 <= n /\ n <= l
  BY <1>1, <1>2 DEF ReaderTypes
<1>4. \A i \in 1..l : readerReplies[i] \in Frames
  BY <1>3, ElementOfSeq
<1>5. m \in Messages /\ Len(m) = n /\ \A i \in 1..n : m[i] = readerReplies[i]
  <2>1. \A i \in 1..n : readerReplies[i] \in Frames
    BY <1>3, <1>4
  <2>2. /\ m \in Seq(Frames) /\ Len(m) = IF 1 <= n THEN n - 1 + 1 ELSE 0
        /\ \A i \in 1..(n - 1 + 1) : m[i] = readerReplies[1 + i - 1]
    BY <1>3, <2>1, SubSeqProperties
  <2> HIDE DEF m
  <2>3. Len(m) = n /\ n - 1 + 1 = n
    BY <1>3, <2>2
  <2>4. \A i \in 1..n : 1 + i - 1 = i
    BY <1>3
  <2>5. \A i \in 1..n : m[i] = readerReplies[1 + i - 1]
    BY <2>2, <2>3
  <2>6. m \in Messages
    BY <1>3, <2>2, <2>3 DEF Messages
  <2> QED
    BY <2>3, <2>4, <2>5, <2>6
<1>6. /\ readerReplies' \in Seq(Frames) /\ Len(readerReplies') = l - n
      /\ \A i \in 1..(l - n) : readerReplies'[i] = readerReplies[n + i]
  <2>1. \A i \in (n + 1)..l : readerReplies[i] \in Frames
    BY <1>3, <1>4
  <2> DEFINE a == SubSeq(readerReplies, n + 1, l)
  <2>2. /\ a \in Seq(Frames) /\ Len(a) = IF n + 1 <= l THEN l - (n + 1) + 1 ELSE 0
        /\ \A i \in 1..(l - (n + 1) + 1) : a[i] = readerReplies[(n + 1) + i - 1]
    BY <1>3, <2>1, SubSeqProperties
  <2>6. readerReplies' = a
    BY <1>1
  <2> HIDE DEF a, l
  <2>3. Len(a) = l - n /\ l - (n + 1) + 1 = l - n
    BY <1>3, <2>2
  <2>4. \A i \in 1..(l - n) : (n + 1) + i - 1 = n + i
    BY <1>3
  <2>5. \A i \in 1..(l - n) : a[i] = readerReplies[(n + 1) + i - 1]
    BY <2>2, <2>3
  <2> QED
    BY <2>2, <2>3, <2>4, <2>5, <2>6
<1> HIDE DEF m, l
<1>7. /\ tasks' \in Seq(Messages)
      /\ \A i \in 1..Len(tasks) : i \in 1..Len(tasks') /\ tasks'[i] = tasks[i]
      /\ Len(tasks) + 1 \in 1..Len(tasks') /\ tasks'[Len(tasks) + 1] = m
      /\ \A i \in 1..Len(tasks') : i = Len(tasks) + 1 \/ i \in 1..Len(tasks)
  BY <1>1, <1>3, <1>5, AppendIs
<1>8. ReaderTypes'
  BY <1>1, <1>2, <1>6, <1>7 DEF ReaderTypes
<1>9. merged \subseteq merged' /\ (n > 1 => \A i \in 1..n : readerReplies[i].tag \in merged')
  BY <1>1, <1>3
<1>10. MergedNoted'
  <2>1. ASSUME NEW k \in 1..Len(tasks'), Len(tasks'[k]) > 1, NEW i \in 1..Len(tasks'[k])
        PROVE  tasks'[k][i].tag \in merged'
    <3>1. CASE k = Len(tasks) + 1
      <4>1. tasks'[k] = m
        BY <1>7, <3>1
      <4>2. n > 1 /\ i \in 1..n
        BY <1>5, <2>1, <4>1
      <4>3. m[i] = readerReplies[i] /\ readerReplies[i].tag \in merged'
        BY <1>5, <1>9, <4>2
      <4> QED
        BY <4>1, <4>3
    <3>2. CASE k \in 1..Len(tasks)
      <4>1. tasks'[k] = tasks[k]
        BY <1>7, <3>2
      <4>2. tasks[k][i].tag \in merged
        BY <1>2, <2>1, <3>2, <4>1 DEF MergedNoted
      <4> QED
        BY <1>9, <4>1, <4>2
    <3> QED
      BY <1>7, <3>1, <3>2
  <2> QED
    BY <2>1 DEF MergedNoted
<1>11. EmptyToldIfMerged' /\ NothingCountedErased'
  BY <1>1, <1>2, <1>9 DEF EmptyToldIfMerged, NothingCountedErased
<1>12. ASSUME NEW t \in passed PROVE Somewhere(t)'
  <2>1. Somewhere(t)
    BY <1>2 DEF NoneLost
  <2>2. CASE \E i \in 1..Len(readerReplies) : readerReplies[i].tag = t
    <3>1. PICK i \in 1..l : readerReplies[i].tag = t
      BY <2>2 DEF l
    <3>2. CASE i = 1 /\ n = 1
      <4>1. m[1] = readerReplies[1]
        BY <1>5, <3>2
      <4>2. tasks'[Len(tasks) + 1][1].tag = t
        BY <1>7, <3>1, <3>2, <4>1
      <4> QED
        BY <1>7, <4>2 DEF Somewhere
    <3>3. CASE i <= n /\ n > 1
      <4>1. i \in 1..n
        BY <1>3, <3>3
      <4> QED
        BY <1>9, <3>1, <3>3, <4>1 DEF Somewhere
    <3>4. CASE i > n
      <4>1. i - n \in 1..(l - n) /\ n + (i - n) = i
        BY <1>3, <3>4
      <4>2. i - n \in 1..Len(readerReplies') /\ readerReplies'[i - n] = readerReplies[n + (i - n)]
        BY <1>6, <4>1
      <4>3. readerReplies'[i - n].tag = t
        BY <3>1, <4>1, <4>2
      <4> QED
        BY <4>2, <4>3 DEF Somewhere
    <3> QED
      BY <1>3, <3>2, <3>3, <3>4
  <2>3. CASE \E k \in 1..Len(tasks) : tasks[k][1].tag = t
    BY <1>7, <2>3 DEF Somewhere
  <2>4. CASE \/ \E i \in 1..Len(buffer) : buffer[i] = t
             \/ t \in told \cup merged \cup erased.uncounted
    BY <1>1, <1>9, <2>4 DEF Somewhere
  <2> QED
    BY <2>1, <2>2, <2>3, <2>4 DEF Somewhere
<1>13. NoneLost'
  BY <1>1, <1>12 DEF NoneLost
<1> QED
  BY <1>8, <1>10, <1>11, <1>13 DEF ReaderInv

\* A task that was handled is gone; the others stay.
LEMMA ReaderHandles ==
  ASSUME ReaderInv, NEW k \in 1..Len(tasks), NEW f, R!Handle(k, f)
  PROVE  /\ tasks[k] \in Messages /\ tasks[k][1] \in Frames /\ tasks[k][1].frame = f
         /\ tasks' \in Seq(Messages) /\ MergedNoted'
         /\ \A t : (\E j \in 1..Len(tasks) : tasks[j][1].tag = t) =>
                     \/ tasks[k][1].tag = t
                     \/ \E j \in 1..Len(tasks') : tasks'[j][1].tag = t
         /\ UNCHANGED <<passed, buffer, readerReplies, merged, erased>>
<1>1. /\ tasks[k][1].frame = f /\ tasks' = R!RemoveAt(tasks, k)
      /\ UNCHANGED <<passed, buffer, readerReplies, merged, erased>>
  BY DEF R!Handle
<1>2. tasks \in Seq(Messages) /\ MergedNoted
  BY DEF ReaderInv, ReaderTypes
<1>3. tasks[k] \in Messages
  BY <1>2, ElementOfSeq
<1>4. tasks[k][1] \in Frames
  <2> DEFINE m == tasks[k]
  <2>1. m \in Seq(Frames) /\ Len(m) >= 1
    BY <1>3 DEF Messages
  <2> HIDE DEF m
  <2>2. 1 \in 1..Len(m)
    BY <2>1
  <2>3. m[1] \in Frames
    BY <2>1, <2>2, ElementOfSeq
  <2> QED
    BY <2>3 DEF m
<1>5. /\ tasks' \in Seq(Messages)
      /\ \A j \in 1..Len(tasks) : j # k => \E i \in 1..Len(tasks') : tasks'[i] = tasks[j]
      /\ \A i \in 1..Len(tasks') : \E j \in 1..Len(tasks) : tasks'[i] = tasks[j]
  BY <1>1, <1>2, WithoutIs
<1>6. MergedNoted'
  <2>1. ASSUME NEW i \in 1..Len(tasks'), Len(tasks'[i]) > 1, NEW j \in 1..Len(tasks'[i])
        PROVE  tasks'[i][j].tag \in merged
    BY <1>2, <1>5, <2>1 DEF MergedNoted
  <2> QED
    BY <1>1, <2>1 DEF MergedNoted
<1>7. ASSUME NEW t, NEW j \in 1..Len(tasks), tasks[j][1].tag = t, tasks[k][1].tag # t
      PROVE  \E i \in 1..Len(tasks') : tasks'[i][1].tag = t
  <2>1. j # k
    BY <1>7
  <2>2. PICK i \in 1..Len(tasks') : tasks'[i] = tasks[j]
    BY <1>5, <2>1
  <2> QED
    BY <1>7, <2>2
<1> QED
  BY <1>1, <1>3, <1>4, <1>5, <1>6, <1>7

\* A command is sent that clears nothing that was counted.
LEMMA ReaderSends ==
  ASSUME ReaderInv, NEW c \in Int, R!Send(c, {})
  PROVE  requests' \in Seq(Commands)
<1> DEFINE r == [command |-> c, counted |-> {}]
<1>1. requests \in Seq(Commands) /\ requests' = Append(requests, r)
  BY DEF ReaderInv, ReaderTypes, R!Send
<1>2. r \in Commands
  BY DEF Commands
<1> HIDE DEF r
<1> QED
  BY <1>1, <1>2, AppendIs

LEMMA ReaderTask == ReaderInv /\ R!Task => ReaderInv'
<1> SUFFICES ASSUME ReaderInv, R!Task PROVE ReaderInv'
  OBVIOUS
<1>1. PICK k \in DOMAIN tasks : \/ R!HandleInventoryResponse(k) \/ R!HandleTagDataResponse(k)
                                \/ R!HandleOther(k)
  BY DEF R!Task
<1>2. /\ ReaderTypes /\ MergedNoted /\ EmptyToldIfMerged /\ NothingCountedErased
      /\ NoneLost
  BY DEF ReaderInv
<1>3. tasks \in Seq(Messages) /\ k \in 1..Len(tasks)
  BY <1>1, <1>2 DEF ReaderTypes
<1>4. NoTag \notin Tags
  BY DevicesAssumption DEF R!RfidAssumption
<1>5. ASSUME NEW f, R!Handle(k, f), f # "tag", told' = told, requests' \in Seq(Commands)
      PROVE  ReaderInv'
  <2>1. /\ tasks[k][1] \in Frames /\ tasks[k][1].frame = f
        /\ tasks' \in Seq(Messages) /\ MergedNoted'
        /\ \A t : (\E j \in 1..Len(tasks) : tasks[j][1].tag = t) =>
                    \/ tasks[k][1].tag = t
                    \/ \E j \in 1..Len(tasks') : tasks'[j][1].tag = t
        /\ UNCHANGED <<passed, buffer, readerReplies, merged, erased>>
    BY <1>3, <1>5, ReaderHandles
  <2>2. tasks[k][1].tag \notin Tags
    BY <1>5, <2>1 DEF Frames
  <2>3. ReaderTypes' /\ EmptyToldIfMerged' /\ NothingCountedErased'
    BY <1>2, <1>5, <2>1 DEF ReaderTypes, EmptyToldIfMerged, NothingCountedErased
  <2>4. ASSUME NEW t \in passed PROVE Somewhere(t)'
    <3>1. Somewhere(t) /\ t \in Tags
      BY <1>2 DEF NoneLost, ReaderTypes
    <3>2. tasks[k][1].tag # t
      BY <2>2, <3>1
    <3>3. CASE \E j \in 1..Len(tasks) : tasks[j][1].tag = t
      BY <2>1, <3>2, <3>3 DEF Somewhere
    <3>4. CASE ~\E j \in 1..Len(tasks) : tasks[j][1].tag = t
      BY <1>5, <2>1, <3>1, <3>4 DEF Somewhere
    <3> QED
      BY <3>3, <3>4
  <2>5. NoneLost'
    BY <2>1, <2>4 DEF NoneLost
  <2> QED
    BY <2>1, <2>3, <2>5 DEF ReaderInv
<1>6. CASE R!HandleInventoryResponse(k)
  <2>1. /\ R!Handle(k, "count") /\ told' = told
    BY <1>6 DEF R!HandleInventoryResponse
  <2>2. PICK tagCount \in R!Read(tasks[k]) :
          IF tagCount > 0 THEN R!Send(R!Tag, {}) ELSE R!Send(R!Buffer, R!Last(tasks[k]).seen)
    BY <1>6 DEF R!HandleInventoryResponse
  <2>3. tasks[k] \in Messages
    BY <1>3, ElementOfSeq
  <2> DEFINE f == R!Last(tasks[k])
  <2>4. f \in Frames
    <3> DEFINE m == tasks[k]
    <3>1. m \in Seq(Frames) /\ Len(m) >= 1 /\ Len(m) \in Nat
      BY <2>3 DEF Messages
    <3> HIDE DEF m
    <3>2. Len(m) \in 1..Len(m)
      BY <3>1
    <3>3. m[Len(m)] \in Frames
      BY <3>1, <3>2, ElementOfSeq
    <3> QED
      BY <3>3 DEF m, R!Last
  <2>5. tagCount \in (IF f.frame = "count" THEN {f.number} ELSE {0, 1})
    BY <2>2 DEF R!Read
  <2>6. IF tagCount > 0 THEN R!Send(R!Tag, {}) ELSE R!Send(R!Buffer, f.seen)
    BY <2>2
  <2> HIDE DEF f
  <2>7. tagCount \in Nat /\ (tagCount = 0 => f.seen = {})
    BY <2>4, <2>5 DEF Frames
  <2>8. requests' \in Seq(Commands)
    <3>1. CASE tagCount > 0
      <4>1. R!Tag \in Int
        BY DEF R!Tag
      <4> QED
        BY <2>6, <3>1, <4>1, ReaderSends
    <3>2. CASE ~(tagCount > 0)
      <4>1. R!Buffer \in Int
        BY DEF R!Buffer
      <4>2. tagCount = 0
        BY <2>7, <3>2
      <4> QED
        BY <2>6, <2>7, <3>2, <4>1, <4>2, ReaderSends
    <3> QED
      BY <3>1, <3>2
  <2> QED
    BY <1>5, <2>1, <2>8
<1>7. CASE R!HandleTagDataResponse(k)
  <2>1. /\ R!Handle(k, "tag") /\ requests' = requests
        /\ told' = told \cup {IF Len(tasks[k]) = 1 THEN tasks[k][1].tag ELSE NoTag}
    BY <1>7 DEF R!HandleTagDataResponse
  <2>2. /\ tasks[k] \in Messages /\ tasks[k][1] \in Frames /\ tasks[k][1].frame = "tag"
        /\ tasks' \in Seq(Messages) /\ MergedNoted'
        /\ \A t : (\E j \in 1..Len(tasks) : tasks[j][1].tag = t) =>
                    \/ tasks[k][1].tag = t
                    \/ \E j \in 1..Len(tasks') : tasks'[j][1].tag = t
        /\ UNCHANGED <<passed, buffer, readerReplies, merged, erased>>
    BY <1>3, <2>1, ReaderHandles
  <2>3. tasks[k][1].tag \in Tags
    BY <2>2 DEF Frames
  <2>4. Len(tasks[k]) # 1 => tasks[k][1].tag \in merged
    <3> DEFINE m == tasks[k]
    <3>1. Len(m) \in Nat /\ Len(m) >= 1
      BY <2>2 DEF Messages
    <3>2. Len(m) > 1 => \A i \in 1..Len(m) : m[i].tag \in merged
      BY <1>2, <1>3 DEF MergedNoted
    <3> HIDE DEF m
    <3> DEFINE l == Len(m)
    <3>4. l \in Nat /\ l >= 1
      BY <3>1
    <3> HIDE DEF l
    <3>5. (l # 1 => l > 1) /\ 1 \in 1..l
      BY <3>4
    <3>3. Len(m) # 1 => m[1].tag \in merged
      BY <3>2, <3>5 DEF l
    <3> QED
      BY <3>3 DEF m
  <2>5. CASE Len(tasks[k]) = 1
    <3>1. told' = told \cup {tasks[k][1].tag}
      BY <2>1, <2>5
    <3>2. ReaderTypes' /\ EmptyToldIfMerged' /\ NothingCountedErased'
      BY <1>2, <1>4, <2>1, <2>2, <2>3, <3>1 DEF ReaderTypes, EmptyToldIfMerged, NothingCountedErased
    <3>3. ASSUME NEW t \in passed PROVE Somewhere(t)'
      <4>1. Somewhere(t)
        BY <1>2 DEF NoneLost
      <4>2. CASE tasks[k][1].tag = t
        BY <3>1, <4>2 DEF Somewhere
      <4>3. CASE tasks[k][1].tag # t /\ \E j \in 1..Len(tasks) : tasks[j][1].tag = t
        BY <2>2, <4>3 DEF Somewhere
      <4>4. CASE ~\E j \in 1..Len(tasks) : tasks[j][1].tag = t
        BY <2>2, <3>1, <4>1, <4>4 DEF Somewhere
      <4> QED
        BY <4>2, <4>3, <4>4
    <3> QED
      BY <2>2, <3>2, <3>3 DEF ReaderInv, NoneLost
  <2>6. CASE Len(tasks[k]) # 1
    <3>1. told' = told \cup {NoTag} /\ merged' = merged /\ tasks[k][1].tag \in merged
      BY <2>1, <2>2, <2>4, <2>6
    <3>2. ReaderTypes' /\ EmptyToldIfMerged' /\ NothingCountedErased'
      BY <1>2, <2>1, <2>2, <3>1 DEF ReaderTypes, EmptyToldIfMerged, NothingCountedErased
    <3>3. ASSUME NEW t \in passed PROVE Somewhere(t)'
      <4>1. Somewhere(t)
        BY <1>2 DEF NoneLost
      <4>2. CASE tasks[k][1].tag = t
        BY <3>1, <4>2 DEF Somewhere
      <4>3. CASE tasks[k][1].tag # t /\ \E j \in 1..Len(tasks) : tasks[j][1].tag = t
        BY <2>2, <4>3 DEF Somewhere
      <4>4. CASE ~\E j \in 1..Len(tasks) : tasks[j][1].tag = t
        BY <2>2, <3>1, <4>1, <4>4 DEF Somewhere
      <4> QED
        BY <4>2, <4>3, <4>4
    <3> QED
      BY <2>2, <3>2, <3>3 DEF ReaderInv, NoneLost
  <2> QED
    BY <2>5, <2>6
<1>8. CASE R!HandleOther(k)
  <2>1. R!Handle(k, "other") /\ told' = told /\ requests' = requests
    BY <1>8 DEF R!HandleOther
  <2>2. requests' \in Seq(Commands)
    BY <1>2, <2>1 DEF ReaderTypes
  <2> QED
    BY <1>5, <2>1, <2>2
<1> QED
  BY <1>1, <1>6, <1>7, <1>8

LEMMA ReaderStep == ReaderInv /\ [R!Next]_(R!rfidVars) => ReaderInv'
<1> SUFFICES ASSUME ReaderInv, [R!Next]_(R!rfidVars) PROVE ReaderInv'
  OBVIOUS
<1>0. /\ ReaderTypes /\ MergedNoted /\ EmptyToldIfMerged /\ NothingCountedErased
      /\ NoneLost
  BY DEF ReaderInv
<1>1. CASE R!SendInventory
  <2>1. R!Send(R!Inventory, {}) /\ UNCHANGED <<passed, buffer, readerReplies, tasks, told, merged, erased>>
    BY <1>1 DEF R!SendInventory
  <2>2. requests' \in Seq(Commands)
    BY <2>1, ReaderSends DEF R!Inventory
  <2> QED
    BY <1>0, <2>1, <2>2 DEF ReaderInv, ReaderTypes, MergedNoted, EmptyToldIfMerged,
       NothingCountedErased, NoneLost, Somewhere
<1>2. CASE R!Reader
  BY <1>2, ReaderStepReader
<1>3. CASE R!Receive
  BY <1>3, ReaderReceives
<1>4. CASE R!Task
  BY <1>4, ReaderTask
<1>5. ASSUME NEW e \in Tags, R!Pass(e) PROVE ReaderInv'
  <2>1. /\ passed' = passed \cup {e} /\ buffer' = Append(buffer, e)
        /\ UNCHANGED <<requests, readerReplies, tasks, told, merged, erased>>
    BY <1>5 DEF R!Pass
  <2>2. buffer \in Seq(Tags)
    BY <1>0 DEF ReaderTypes
  <2>3. /\ buffer' \in Seq(Tags)
        /\ \A i \in 1..Len(buffer) : i \in 1..Len(buffer') /\ buffer'[i] = buffer[i]
        /\ Len(buffer) + 1 \in 1..Len(buffer') /\ buffer'[Len(buffer) + 1] = e
    BY <2>1, <2>2, AppendIs
  <2>4. ReaderTypes' /\ MergedNoted' /\ EmptyToldIfMerged' /\ NothingCountedErased'
    BY <1>0, <2>1, <2>3 DEF ReaderTypes, MergedNoted, EmptyToldIfMerged, NothingCountedErased
  <2>5. Somewhere(e)'
    BY <2>3 DEF Somewhere
  <2>6. ASSUME NEW t \in passed PROVE Somewhere(t)'
    BY <1>0, <2>1, <2>3 DEF NoneLost, Somewhere
  <2>7. NoneLost'
    BY <2>1, <2>5, <2>6 DEF NoneLost
  <2> QED
    BY <2>4, <2>7 DEF ReaderInv
<1>6. CASE UNCHANGED R!rfidVars
  BY <1>0, <1>6 DEF R!rfidVars, ReaderInv, ReaderTypes, MergedNoted, EmptyToldIfMerged,
     NothingCountedErased, NoneLost, Somewhere
<1> QED
  BY <1>1, <1>2, <1>3, <1>4, <1>5, <1>6 DEF R!Next

LEMMA ReaderSound == ReaderInv => R!TagsAccounted
<1> SUFFICES ASSUME ReaderInv PROVE R!TagsAccounted
  OBVIOUS
<1>1. /\ buffer \in Seq(Tags) /\ readerReplies \in Seq(Frames) /\ tasks \in Seq(Messages)
      /\ EmptyToldIfMerged /\ NothingCountedErased /\ NoneLost
  BY DEF ReaderInv, ReaderTypes
<1>2. /\ DOMAIN buffer = 1..Len(buffer) /\ DOMAIN readerReplies = 1..Len(readerReplies)
      /\ DOMAIN tasks = 1..Len(tasks)
  BY <1>1
<1>3. ASSUME NEW t \in passed
      PROVE  \/ t \in R!InBuffer \cup told \cup merged \cup erased.uncounted
             \/ \E i \in DOMAIN readerReplies : readerReplies[i].tag = t
             \/ \E k \in DOMAIN tasks : tasks[k][1].tag = t
  BY <1>1, <1>2 DEF NoneLost, Somewhere, R!InBuffer
<1> QED
  BY <1>1, <1>3 DEF R!TagsAccounted, EmptyToldIfMerged, NothingCountedErased

-----------------------------------------------------------------------------
(* The recorder without a cache.                                            *)

\* The steps at which the muxer starts.
MuxerStarts == {"context", "stream", "file", "header"}

\* While the owner makes a new encoder and muxer there is no old one; an open
\* encoder has its muxer, or the muxer starts or failed to; a packet comes from
\* an open encoder.
RecorderInv ==
  /\ headers \in Nat /\ trailers \in Nat /\ m_initialized \in BOOLEAN /\ failed \in BOOLEAN
  /\ owner \in {"idle", "endEncode", "finish", "encoder", "context", "stream", "file", "header",
                "join", "gone"}
  /\ owner \in {"encoder"} \cup MuxerStarts => ~m_initialized
  /\ owner \in {"finish", "encoder"} => encoder = "closed"
  /\ encoder = "open" => m_initialized \/ failed \/ owner \in MuxerStarts
  /\ recorder = "packet" => encoder = "open"
  /\ V!FilesAreEnded

LEMMA RecorderInit == V!Init => RecorderInv
<1> SUFFICES ASSUME V!Init PROVE RecorderInv
  OBVIOUS
<1>1. /\ headers = 0 /\ trailers = 0 /\ m_initialized = FALSE /\ failed = FALSE /\ owner = "idle"
      /\ encoder = "closed" /\ recorder = "idle"
  BY DEF V!Init
<1>2. V!FilesAreEnded
  <2>1. (IF m_initialized THEN 1 ELSE 0) = 0
    BY <1>1
  <2> QED
    BY <1>1, <2>1 DEF V!FilesAreEnded
<1> QED
  BY <1>1, <1>2, Zenon DEF RecorderInv, MuxerStarts

LEMMA RecorderStep == RecorderInv /\ [V!Next]_(V!recorderVars) => RecorderInv'
<1> SUFFICES ASSUME RecorderInv, [V!Next]_(V!recorderVars) PROVE RecorderInv'
  OBVIOUS
<1> USE DEF RecorderInv, V!FilesAreEnded, MuxerStarts
<1>1. CASE UNCHANGED V!recorderVars
  BY <1>1 DEF V!recorderVars
<1>2. CASE V!StartRecord \/ V!StopRecord \/ V!ClearFlag \/ V!Join
  BY <1>2 DEF V!StartRecord, V!StopRecord, V!ClearFlag, V!Join, V!Owner, V!encoderVars, V!muxerVars
<1>3. CASE V!EndEncode
  BY <1>3 DEF V!EndEncode, V!Owner, V!encoderVars, V!muxerVars
<1>4. CASE V!Finished
  <2>1. CASE m_initialized
    <3>1. /\ trailers' = trailers + 1 /\ m_initialized' = FALSE /\ encoder = "closed"
          /\ owner' \in {"encoder", "idle"}
          /\ UNCHANGED <<headers, failed, encoder, recorder>>
      BY <1>4, <2>1 DEF V!Finished, V!Owner, V!encoderVars
    <3>2. headers = trailers + 1 /\ (IF m_initialized' THEN 1 ELSE 0) = 0
      BY <2>1, <3>1
    <3>3. V!FilesAreEnded'
      BY <3>1, <3>2
    <3>4. headers' \in Nat /\ trailers' \in Nat
      BY <3>1
    <3> HIDE DEF V!FilesAreEnded
    <3>5. RecorderInv /\ owner = "finish"
      BY <1>4 DEF V!Finished, V!Owner
    <3> QED
      BY <3>1, <3>3, <3>4, <3>5
  <2>2. CASE ~m_initialized
    BY <1>4, <2>2 DEF V!Finished, V!Owner, V!encoderVars
  <2> QED
    BY <2>1, <2>2
<1>5. CASE V!InitEncoder
  BY <1>5 DEF V!InitEncoder, V!Owner, V!muxerVars
<1>6. CASE V!AllocContext \/ V!AddStream \/ V!OpenFile
  <2>1. /\ owner \in {"context", "stream", "file"} /\ ~m_initialized
        /\ UNCHANGED <<m_initialized, headers, trailers, encoder, recorder>>
        /\ \/ owner' \in MuxerStarts /\ failed' = failed
           \/ owner' = "idle" /\ failed' = TRUE
    BY <1>6 DEF V!AllocContext, V!AddStream, V!OpenFile, V!Mux, V!Owner, V!encoderVars, V!muxerVars
  <2> QED
    BY <2>1
<1>7. CASE V!WriteHeader
  <2>1. /\ owner = "header" /\ owner' = "idle" /\ m_initialized' = ~failed' /\ ~m_initialized
        /\ headers' = IF failed' THEN headers ELSE headers + 1
        /\ UNCHANGED <<trailers, encoder, recorder>>
        /\ failed' \in BOOLEAN
    BY <1>7 DEF V!WriteHeader, V!Mux, V!Owner, V!encoderVars
  <2>2. CASE failed'
    BY <2>1, <2>2
  <2>3. CASE ~failed'
    <3>1. headers' = headers + 1
      BY <2>1, <2>3, Zenon
    <3>2. V!FilesAreEnded'
      <4>1. m_initialized' = TRUE
        BY <2>1, <2>3, Zenon
      <4>2. (IF m_initialized' THEN 1 ELSE 0) = 1
        BY <4>1
      <4>3. headers = trailers
        BY <2>1
      <4> QED
        BY <2>1, <3>1, <4>2, <4>3
    <3>3. m_initialized' \in BOOLEAN /\ failed' \in BOOLEAN
      BY <2>1
    <3>4. headers' \in Nat /\ trailers' \in Nat
      BY <2>1, <3>1
    <3>5. m_initialized' = TRUE
      BY <2>1, <2>3, Zenon
    <3>6. owner' = "idle" /\ encoder' = encoder /\ recorder' = recorder
      BY <2>1
    <3> HIDE DEF V!FilesAreEnded
    <3> QED
      BY <3>2, <3>3, <3>4, <3>5, <3>6
  <2> QED
    BY <2>2, <2>3
<1>8. CASE V!PushImage \/ V!TakeImage \/ V!NotEncoded \/ V!NoFrame \/ V!WriteRGBData \/ V!WriteVideo \/ V!ThreadEnds
  BY <1>8 DEF V!PushImage, V!TakeImage, V!NotEncoded, V!NoFrame, V!WriteRGBData, V!WriteVideo, V!ThreadEnds,
     V!Record, V!Others, V!encoderVars, V!muxerVars
<1> QED
  BY <1>1, <1>2, <1>3, <1>4, <1>5, <1>6, <1>7, <1>8 DEF V!Next

LEMMA RecorderSound == RecorderInv => V!PacketsHaveFile /\ V!FilesAreEnded
  BY DEF RecorderInv, V!PacketsHaveFile, MuxerStarts

-----------------------------------------------------------------------------
(* The thread that starts a recording at each station.                      *)

\* The station told last, by a signal or by the recording that one started.
LastTold == IF signals # <<>> THEN signals[Len(signals)] ELSE recording[1]
NothingTold == signals = <<>> /\ recording = <<>>

LocationTypes ==
  LET Place == Stations \cup {NoStation}
  IN /\ variant \in {"user", "kit"}
     /\ m_str_new_location \in Place /\ m_str_now_location \in Place /\ newLocation \in Place
     /\ m_startFlag \in BOOLEAN
     /\ signals \in Seq(Place)
     /\ recording \in Seq(Place) /\ Len(recording) <= 1
     /\ locator \in {"start", "test", "wait", "asleep", "woken", "emit", "relock", "ended"}
     /\ caller \in {"idle", "clear", "notify", "notifyAll", "join", "ended"}

\* Where the module's thread is: what it has told, and what is cleared for good.
CallerAt == /\ caller = "clear" => m_str_new_location = NoStation
            /\ ~m_startFlag => caller \in {"notifyAll", "join", "ended"}

\* What was told is what the thread remembers, but for the moment between the
\* emission and the lock, and after a reset.
Remembered ==
  /\ locator = "relock" => ~NothingTold /\ LastTold = newLocation
  /\ locator # "relock" => \/ m_str_now_location = NoStation
                           \/ ~NothingTold /\ LastTold = m_str_now_location

\* CameraUser's class: the thread sleeps where it is, unless it missed the first
\* station.
UserSleeps ==
  variant = "user" =>
    /\ locator \notin {"emit", "relock"}
    /\ locator = "start" => NothingTold
    /\ locator \in {"test", "wait", "asleep"} =>
         \/ ~m_startFlag
         \/ m_str_now_location = m_str_new_location
         \/ NothingTold

\* The kit's: what is told to a thread that sleeps is owed a notification.
KitSleeps ==
  variant = "kit" =>
    /\ locator = "wait" => m_str_now_location = m_str_new_location
    /\ locator = "asleep" => \/ m_str_now_location = m_str_new_location
                             \/ caller \in {"clear", "notify"}

StationInv == LocationTypes /\ CallerAt /\ Remembered /\ UserSleeps /\ KitSleeps

LEMMA StationInit == L!Init => StationInv
<1> SUFFICES ASSUME L!Init PROVE StationInv
  OBVIOUS
<1> USE DEF L!Init
<1>1. LocationTypes
  BY DEF LocationTypes
<1>2. CallerAt /\ Remembered /\ UserSleeps /\ KitSleeps
  BY DEF CallerAt, Remembered, UserSleeps, KitSleeps, NothingTold
<1> QED
  BY <1>1, <1>2 DEF StationInv

LEMMA LocationTypesStep == StationInv /\ L!Next => LocationTypes'
<1> SUFFICES ASSUME StationInv, L!Next PROVE LocationTypes'
  OBVIOUS
<1> USE DEF StationInv, LocationTypes
<1>1. ASSUME NEW s \in Stations \cup {NoStation}, L!Update(s) PROVE LocationTypes'
  BY <1>1 DEF L!Update, L!Woken
<1>2. CASE L!ClearNow \/ L!Notify
  BY <1>2 DEF L!ClearNow, L!Notify, L!Woken
<1>3. CASE L!OnStartRecord
  BY <1>3 DEF L!OnStartRecord
<1>4. CASE L!Locator \/ L!Spurious
  <2>1. signals' = signals \/ \E s \in Stations \cup {NoStation} : signals' = Append(signals, s)
    BY <1>4 DEF L!Locator, L!Spurious, L!Lock, L!Test, L!Sleep, L!WokenUser, L!WokenKit, L!Emit, L!Relock, L!Step
  <2>2. signals' \in Seq(Stations \cup {NoStation})
    BY <2>1
  <2> QED
    BY <1>4, <2>2 DEF L!Locator, L!Spurious, L!Lock, L!Test, L!Sleep, L!WokenUser, L!WokenKit, L!Emit, L!Relock, L!Step
<1>5. CASE L!ClearFlag \/ L!NotifyAll \/ L!Join
  BY <1>5 DEF L!ClearFlag, L!NotifyAll, L!Join, L!End, L!Woken
<1> QED
  BY <1>1, <1>2, <1>3, <1>4, <1>5 DEF L!Next, L!OnLocation, L!NotifyTask

\* A signal that is handled leaves what was told last, and one that is emitted
\* becomes it.
LEMMA ToldHandled ==
  ASSUME LocationTypes, L!OnStartRecord
  PROVE  ~NothingTold /\ ~NothingTold' /\ LastTold' = LastTold
<1> USE DEF NothingTold, LastTold
<1>1. /\ signals # <<>> /\ recording' = <<Head(signals)>> /\ signals' = Tail(signals)
      /\ signals \in Seq(Stations \cup {NoStation})
  BY DEF L!OnStartRecord, LocationTypes
<1>2. recording' # <<>> /\ recording'[1] = signals[1]
  BY <1>1
<1>3. CASE Len(signals) = 1
  BY <1>1, <1>2, <1>3
<1>4. CASE Len(signals) # 1
  <2>1. signals' # <<>> /\ Len(signals') = Len(signals) - 1 /\ Len(signals) \in Nat
    BY <1>1, <1>4
  <2>2. signals'[Len(signals')] = signals[Len(signals)]
    BY <1>1, <2>1
  <2> QED
    BY <1>1, <1>2, <2>1, <2>2
<1> QED
  BY <1>1, <1>2, <1>3, <1>4

LEMMA ToldEmitted ==
  ASSUME LocationTypes, NEW s, signals' = Append(signals, s)
  PROVE  ~NothingTold' /\ LastTold' = s
<1>1. signals \in Seq(Stations \cup {NoStation})
  BY DEF LocationTypes
<1>2. signals' # <<>> /\ signals'[Len(signals')] = s
  BY <1>1
<1> QED
  BY <1>2 DEF NothingTold, LastTold

LEMMA ToldKept ==
  ASSUME UNCHANGED <<signals, recording>>
  PROVE  (NothingTold' <=> NothingTold) /\ LastTold' = LastTold
  BY DEF NothingTold, LastTold

LEMMA StationStep == StationInv /\ [L!Next]_(L!locationVars) => StationInv'
<1> SUFFICES ASSUME StationInv, [L!Next]_(L!locationVars) PROVE StationInv'
  OBVIOUS
<1>a. LocationTypes /\ CallerAt /\ Remembered /\ UserSleeps /\ KitSleeps
  BY DEF StationInv
<1>b. LocationTypes'
  <2>1. CASE L!Next
    BY <2>1, LocationTypesStep
  <2>2. CASE UNCHANGED L!locationVars
    BY <1>a, <2>2 DEF LocationTypes, L!locationVars
  <2> QED
    BY <2>1, <2>2
<1>t. /\ variant \in {"user", "kit"}
      /\ caller \in {"idle", "clear", "notify", "notifyAll", "join", "ended"}
      /\ locator \in {"start", "test", "wait", "asleep", "woken", "emit", "relock", "ended"}
      /\ m_startFlag \in BOOLEAN
  BY <1>a DEF LocationTypes
<1> DEFINE Rest == CallerAt' /\ Remembered' /\ UserSleeps' /\ KitSleeps'
<1> SUFFICES Rest
  BY <1>b DEF StationInv
<1> USE DEF CallerAt, Remembered, UserSleeps, KitSleeps
<1>1. CASE UNCHANGED L!locationVars
  BY <1>1, <1>a, ToldKept DEF L!locationVars
<1>2. ASSUME NEW s \in Stations \cup {NoStation}, L!Update(s) PROVE Rest
  BY <1>2, <1>a, <1>t, ToldKept DEF L!Update, L!Woken, L!MutexFree
<1>3. CASE L!ClearNow
  BY <1>3, <1>a, <1>t, ToldKept DEF L!ClearNow
<1>4. CASE L!Notify
  BY <1>4, <1>a, <1>t, ToldKept DEF L!Notify, L!Woken
<1>5. CASE L!OnStartRecord
  <2>1. ~NothingTold /\ ~NothingTold' /\ LastTold' = LastTold
    BY <1>5, <1>a, ToldHandled
  <2> QED
    BY <1>5, <2>1, <1>a, <1>t DEF L!OnStartRecord
<1>6. CASE L!Lock \/ L!Sleep \/ L!Spurious \/ L!WokenKit
  BY <1>6, <1>a, <1>t, ToldKept DEF L!Lock, L!Sleep, L!Spurious, L!WokenKit, L!Step
<1>7. CASE L!Test
  BY <1>7, <1>a, <1>t, ToldKept DEF L!Test, L!Step
<1>8. CASE L!WokenUser
  <2>1. CASE m_startFlag /\ m_str_new_location # m_str_now_location
    <3>1. ~NothingTold' /\ LastTold' = m_str_new_location
      BY <1>8, <2>1, <1>a, ToldEmitted DEF L!WokenUser
    <3> QED
      BY <1>8, <2>1, <3>1, <1>a, <1>t DEF L!WokenUser, L!Step
  <2>2. CASE ~(m_startFlag /\ m_str_new_location # m_str_now_location)
    BY <1>8, <2>2, <1>a, <1>t, ToldKept DEF L!WokenUser, L!Step
  <2> QED
    BY <2>1, <2>2
<1>9. CASE L!Emit
  <2>1. ~NothingTold' /\ LastTold' = newLocation
    BY <1>9, <1>a, ToldEmitted DEF L!Emit
  <2>2. /\ locator' = "relock" /\ newLocation' = newLocation /\ variant # "user"
        /\ UNCHANGED <<variant, m_str_new_location, m_startFlag, caller>>
    BY <1>9, <1>a DEF L!Emit, L!Step
  <2> QED
    BY <2>1, <2>2, <1>a
<1>10. CASE L!Relock
  BY <1>10, <1>a, <1>t, ToldKept DEF L!Relock, L!Step
<1>11. CASE L!ClearFlag \/ L!NotifyAll \/ L!Join
  BY <1>11, <1>a, <1>t, ToldKept DEF L!ClearFlag, L!NotifyAll, L!Join, L!End, L!Woken
<1> QED
  BY <1>1, <1>2, <1>3, <1>4, <1>5, <1>6, <1>7, <1>8, <1>9, <1>10, <1>11
     DEF L!Next, L!OnLocation, L!NotifyTask, L!Locator

LEMMA StationSound == StationInv => L!RecordsWhereItIs
<1> SUFFICES ASSUME StationInv, L!AtRest PROVE
      /\ m_str_now_location = m_str_new_location \/ (variant = "user" /\ recording = <<>>)
      /\ recording = <<m_str_now_location>> \/ m_str_now_location = NoStation
  BY DEF L!RecordsWhereItIs
<1>1. /\ locator = "asleep" /\ caller = "idle" /\ signals = <<>> /\ m_startFlag
      /\ variant \in {"user", "kit"}
  BY DEF L!AtRest, StationInv, CallerAt, LocationTypes
<1>2. m_str_now_location = m_str_new_location \/ (variant = "user" /\ recording = <<>>)
  BY <1>1 DEF StationInv, UserSleeps, KitSleeps, NothingTold
<1>3. recording = <<m_str_now_location>> \/ m_str_now_location = NoStation
  <2> SUFFICES ASSUME m_str_now_location # NoStation PROVE recording = <<m_str_now_location>>
    OBVIOUS
  <2>1. recording # <<>> /\ recording[1] = m_str_now_location
    BY <1>1 DEF StationInv, Remembered, NothingTold, LastTold
  <2>2. recording \in Seq(Stations \cup {NoStation}) /\ Len(recording) <= 1
    BY DEF StationInv, LocationTypes
  <2> DEFINE o == <<m_str_now_location>>
  <2>3. o \in Seq(Stations \cup {NoStation}) /\ Len(o) = 1 /\ o[1] = m_str_now_location
    BY DEF StationInv, LocationTypes
  <2>4. Len(recording) = 1
    <3> DEFINE l == Len(recording)
    <3>1. l \in Nat /\ l # 0 /\ l <= 1
      BY <2>1, <2>2, EmptySeq
    <3> HIDE DEF l
    <3>2. l = 1
      BY <3>1
    <3> QED
      BY <3>2 DEF l
  <2> HIDE DEF o
  <2>5. \A i \in 1..Len(recording) : recording[i] = o[i]
    BY <2>1, <2>3, <2>4
  <2>6. recording = o
    BY <2>2, <2>3, <2>4, <2>5, SeqEqual
  <2> QED
    BY <2>6 DEF o
<1> QED
  BY <1>2, <1>3

-----------------------------------------------------------------------------
(* The machines side by side.                                               *)

\* A step of all is a step of each machine, or leaves it alone.
LEMMA StepsOfMachines ==
  ASSUME [MCNext]_vars
  PROVE  /\ [Next]_consumerVars
         /\ [P!Next]_(P!counterVars)
         /\ [L!Next]_(L!locationVars)
         /\ [V!Next]_(V!recorderVars)
         /\ [R!Next]_(R!rfidVars)
         /\ [Q!Next]_(Q!qmlVars)
<1> USE DEF MCNext, vars, NotConsumer, NotCounter, NotCameras, NotDetect, NotStation, NotVideo,
            NotWeb, NotBasler, NotRfid, NotPage
<1>1. [Next]_consumerVars
  BY DEF consumerVars
<1>2. [P!Next]_(P!counterVars)
  BY DEF counterVars, P!counterVars
<1>3. [L!Next]_(L!locationVars)
  BY DEF stationVars, L!locationVars
<1>4. [V!Next]_(V!recorderVars)
  BY DEF videoVars, V!recorderVars, V!muxerVars
<1>5. [R!Next]_(R!rfidVars)
  BY DEF rfidVars, R!rfidVars
<1>6. [Q!Next]_(Q!qmlVars)
  BY DEF pageVars, Q!qmlVars
<1> QED
  BY <1>1, <1>2, <1>3, <1>4, <1>5, <1>6

\* Items that consumers work on come in the order they were put, and once
\* (CameraCtrl.cpp:98-124), and calls are told to the user interface in theirs
\* (QmlPrivateEngine.cpp:204-239), whatever the bounds.
THEOREM ItemsComeInOrder == MCSpec => []HandedOnInOrder
<1> DEFINE Inv == ConsumerInv /\ CallInv
<1>1. MCInit => Inv
  BY ConsumerInit, CallInit DEF MCInit
<1>2. Inv /\ [MCNext]_vars => Inv'
  BY StepsOfMachines, ConsumerStep, CallStep
<1>3. Inv => HandedOnInOrder
  BY ConsumerSound, CallSound DEF HandedOnInOrder
<1> QED
  BY <1>1, <1>2, <1>3, PTL DEF MCSpec

\* A speed is that of as many rounds as its distance
\* (ConnectivityManager6051.cpp:180), and a tag that has passed is in the reader,
\* under way or told, unless it came after a count (RfidVFR61M.cpp:113).
THEOREM DevicesAnswer == MCSpec => []AnswersOfDevices
<1> DEFINE Inv == CounterInv /\ ReaderInv
<1>1. MCInit => Inv
  BY CounterInit, ReaderInit DEF MCInit
<1>2. Inv /\ [MCNext]_vars => Inv'
  BY StepsOfMachines, CounterStep, ReaderStep
<1>3. Inv => AnswersOfDevices
  BY CounterSound, ReaderSound DEF AnswersOfDevices
<1> QED
  BY <1>1, <1>2, <1>3, PTL DEF MCSpec

\* A recording is started where the train is (LocationCtrl.cpp:28-50); a packet
\* has a file that is open, and a file with a header gets its end
\* (SaveVideo.cpp:51-81).
THEOREM RecordingsAreSound == MCSpec => []RecordingsSound
<1> DEFINE Inv == StationInv /\ RecorderInv
<1>1. MCInit => Inv
  BY StationInit, RecorderInit DEF MCInit
<1>2. Inv /\ [MCNext]_vars => Inv'
  BY StepsOfMachines, StationStep, RecorderStep
<1>3. Inv => RecordingsSound
  BY StationSound, RecorderSound DEF RecordingsSound
<1> QED
  BY <1>1, <1>2, <1>3, PTL DEF MCSpec
=============================================================================
