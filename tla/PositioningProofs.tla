-------------------------- MODULE PositioningProofs --------------------------
(***************************************************************************)
(* For any line, tasks, offsets and number of readings: readings are stored *)
(* once and in order, the end of an image follows its start, a position has *)
(* the pole behind it or the last one, and an image moves the position by a *)
(* bounded way.                                                             *)
(***************************************************************************)
EXTENDS Positioning, TLAPS

-----------------------------------------------------------------------------
(* What JiHeService collects and stores.                                   *)

Reading(n) == [n : 1..n, img : BOOLEAN]
Rising(s)     == \A i, j \in DOMAIN s : i < j => s[i].n < s[j].n
Precede(s, t) == \A i \in DOMAIN s, j \in DOMAIN t : s[i].n < t[j].n

\* Where a reading is, it came before those that are in a place behind.
ReadingInv ==
  /\ received \in Nat
  /\ storedData \in Seq(Reading(received))
  /\ vecData \in Seq(Reading(received))
  /\ vecJiHeData \in Seq(Reading(received))
  /\ Rising(storedData) /\ Rising(vecData) /\ Rising(vecJiHeData)
  /\ Precede(storedData, vecData) /\ Precede(storedData, vecJiHeData)
  /\ Precede(vecData, vecJiHeData)

\* The type that the timer remembers is that of the last reading it sent.
SentInv ==
  /\ sent \in Seq(BOOLEAN) /\ lastType \in BOOLEAN
  /\ lastType <=> (sent # <<>> /\ sent[Len(sent)])
  /\ EndFollowsStart

\* The fields of a reading.
LEMMA ReadingFields ==
  ASSUME NEW n \in Nat, NEW s \in Seq(Reading(n)), NEW i \in DOMAIN s
  PROVE  s[i].n \in 1..n /\ s[i].img \in BOOLEAN
<1>1. s[i] \in Reading(n)
  OBVIOUS
<1> QED
  BY <1>1 DEF Reading

\* What precedes and what follows, each in order, is in order together.
LEMMA RisingConcat ==
  ASSUME NEW n \in Nat, NEW s \in Seq(Reading(n)), NEW t \in Seq(Reading(n)),
         Rising(s), Rising(t), Precede(s, t)
  PROVE  Rising(s \o t)
<1> SUFFICES ASSUME NEW i \in DOMAIN (s \o t), NEW j \in DOMAIN (s \o t), i < j
             PROVE  (s \o t)[i].n < (s \o t)[j].n
  BY DEF Rising
<1>1. /\ Len(s) \in Nat /\ Len(t) \in Nat /\ DOMAIN s = 1..Len(s) /\ DOMAIN t = 1..Len(t)
      /\ DOMAIN (s \o t) = 1..(Len(s) + Len(t))
      /\ \A k \in 1..(Len(s) + Len(t)) :
            (s \o t)[k] = IF k <= Len(s) THEN s[k] ELSE t[k - Len(s)]
  OBVIOUS
<1>2. CASE j <= Len(s)
  BY <1>1, <1>2 DEF Rising
<1>3. CASE i <= Len(s) /\ j > Len(s)
  <2>1. i \in DOMAIN s /\ j - Len(s) \in DOMAIN t
    BY <1>1, <1>3
  <2> QED
    BY <1>1, <1>3, <2>1 DEF Precede
<1>4. CASE i > Len(s)
  <2>1. i - Len(s) \in DOMAIN t /\ j - Len(s) \in DOMAIN t /\ i - Len(s) < j - Len(s)
    BY <1>1, <1>4
  <2>2. t[i - Len(s)].n < t[j - Len(s)].n
    BY <2>1 DEF Rising
  <2> QED
    BY <1>1, <1>4, <2>2
<1> QED
  BY <1>1, <1>2, <1>3, <1>4

\* What precedes two precedes both, one after the other.
LEMMA PrecedeConcat ==
  ASSUME NEW n \in Nat, NEW s \in Seq(Reading(n)), NEW t \in Seq(Reading(n)),
         NEW u \in Seq(Reading(n)), Precede(s, u), Precede(t, u)
  PROVE  Precede(s \o t, u)
<1> SUFFICES ASSUME NEW i \in DOMAIN (s \o t), NEW j \in DOMAIN u
             PROVE  (s \o t)[i].n < u[j].n
  BY DEF Precede
<1>1. /\ Len(s) \in Nat /\ Len(t) \in Nat /\ DOMAIN s = 1..Len(s) /\ DOMAIN t = 1..Len(t)
      /\ i \in 1..(Len(s) + Len(t))
      /\ (s \o t)[i] = IF i <= Len(s) THEN s[i] ELSE t[i - Len(s)]
  OBVIOUS
<1>2. CASE i <= Len(s)
  BY <1>1, <1>2 DEF Precede
<1>3. CASE i > Len(s)
  <2>1. i - Len(s) \in DOMAIN t
    BY <1>1, <1>3
  <2> QED
    BY <1>1, <1>3, <2>1 DEF Precede
<1> QED
  BY <1>1, <1>2, <1>3

LEMMA ReadingInit == J!Init => ReadingInv /\ SentInv
<1> SUFFICES ASSUME J!Init PROVE ReadingInv /\ SentInv
  OBVIOUS
<1>1. received = 0 /\ storedData = <<>> /\ vecData = <<>> /\ vecJiHeData = <<>>
      /\ lastType = FALSE /\ sent = <<>>
  BY DEF J!Init
<1>2. ReadingInv
  BY <1>1 DEF ReadingInv, Rising, Precede
<1>3. SentInv
  <2>1. sent \in Seq(BOOLEAN) /\ DOMAIN sent = {} /\ ~(sent # <<>>) /\ ~lastType
    BY <1>1
  <2>2. EndFollowsStart
    BY <2>1 DEF EndFollowsStart, J!EndFollowsStart
  <2> QED
    BY <1>1, <2>1, <2>2 DEF SentInv
<1> QED
  BY <1>2, <1>3

\* A new reading has the greatest number.
LEMMA ReadDataKeeps ==
  ASSUME ReadingInv, NEW img \in BOOLEAN, J!ReadData(img)
  PROVE  ReadingInv'
<1> DEFINE new == [n |-> received + 1, img |-> img]
<1>1. /\ received' = received + 1 /\ vecJiHeData' = Append(vecJiHeData, new)
      /\ storedData' = storedData /\ vecData' = vecData
  BY DEF J!ReadData
<1>2. received \in Nat /\ received' \in Nat
  BY <1>1 DEF ReadingInv
<1>3. Reading(received) \subseteq Reading(received') /\ new \in Reading(received')
  BY <1>1, <1>2 DEF Reading
<1>4. /\ storedData' \in Seq(Reading(received')) /\ vecData' \in Seq(Reading(received'))
      /\ vecJiHeData' \in Seq(Reading(received'))
  <2>1. /\ storedData \in Seq(Reading(received')) /\ vecData \in Seq(Reading(received'))
        /\ vecJiHeData \in Seq(Reading(received'))
    BY <1>3 DEF ReadingInv
  <2> HIDE DEF new
  <2> QED
    BY <1>1, <1>3, <2>1
<1>5. /\ \A i \in DOMAIN storedData : storedData[i].n \in 1..received
      /\ \A i \in DOMAIN vecData : vecData[i].n \in 1..received
      /\ \A i \in DOMAIN vecJiHeData : vecJiHeData[i].n \in 1..received
  BY ReadingFields DEF ReadingInv
<1>6. /\ DOMAIN vecJiHeData = 1..Len(vecJiHeData) /\ Len(vecJiHeData) \in Nat
      /\ DOMAIN vecJiHeData' = 1..(Len(vecJiHeData) + 1)
      /\ vecJiHeData'[Len(vecJiHeData) + 1].n = received + 1
      /\ \A i \in DOMAIN vecJiHeData : vecJiHeData'[i] = vecJiHeData[i]
  BY <1>1 DEF ReadingInv
<1>7. Rising(vecJiHeData')
  BY <1>2, <1>5, <1>6 DEF ReadingInv, Rising
<1>8. Precede(storedData', vecJiHeData') /\ Precede(vecData', vecJiHeData')
  BY <1>1, <1>2, <1>5, <1>6 DEF ReadingInv, Precede
<1> QED
  BY <1>1, <1>2, <1>4, <1>7, <1>8 DEF ReadingInv

\* What is stored, all of it or nothing, is behind what was stored before.
LEMMA StoreKeeps == ASSUME ReadingInv, J!Store PROVE ReadingInv'
<1>1. /\ storedData' \in {storedData, storedData \o vecData} /\ vecData' = <<>>
      /\ received' = received /\ vecJiHeData' = vecJiHeData
  BY DEF J!Store
<1>2. <<>> \in Seq(Reading(received)) /\ Rising(<<>>) /\ Precede(<<>>, vecJiHeData)
  BY DEF Rising, Precede
<1>3. Precede(storedData', <<>>)
  BY DEF Precede
<1>4. CASE storedData' = storedData
  BY <1>1, <1>2, <1>3, <1>4 DEF ReadingInv
<1>5. CASE storedData' = storedData \o vecData
  <2>1. storedData' \in Seq(Reading(received))
    BY <1>5 DEF ReadingInv
  <2>2. Rising(storedData') /\ Precede(storedData', vecJiHeData)
    BY <1>5, RisingConcat, PrecedeConcat DEF ReadingInv
  <2> QED
    BY <1>1, <1>2, <1>3, <2>1, <2>2 DEF ReadingInv
<1> QED
  BY <1>1, <1>4, <1>5

LEMMA ReadingStep == ASSUME ReadingInv, [J!Next]_(J!jiheVars) PROVE ReadingInv'
<1>1. CASE UNCHANGED <<received, vecJiHeData, vecData, storedData>>
  BY <1>1 DEF ReadingInv, Reading, Rising, Precede
<1>2. CASE J!Collect
  <2>1. /\ vecData = <<>> /\ vecData' = vecJiHeData /\ vecJiHeData' = <<>>
        /\ received' = received /\ storedData' = storedData
    BY <1>2 DEF J!Collect
  <2>2. <<>> \in Seq(Reading(received)) /\ Rising(<<>>)
        /\ Precede(storedData, <<>>) /\ Precede(vecJiHeData, <<>>)
    BY DEF Rising, Precede
  <2> QED
    BY <2>1, <2>2 DEF ReadingInv
<1>3. ASSUME J!NotifyTask \/ J!OnDataToLocationTimer \/ J!SendLatest \/ UNCHANGED J!jiheVars
      PROVE  UNCHANGED <<received, vecJiHeData, vecData, storedData>>
  BY <1>3 DEF J!NotifyTask, J!OnDataToLocationTimer, J!SendLatest, J!jiheVars
<1> QED
  BY <1>1, <1>2, <1>3, ReadDataKeeps, StoreKeeps DEF J!Next

\* The timer sends an end only where it remembers a start.
LEMMA SentStep == ASSUME ReadingInv, SentInv, [J!Next]_(J!jiheVars) PROVE SentInv'
<1>1. CASE UNCHANGED <<sent, lastType>>
  BY <1>1 DEF SentInv, EndFollowsStart, J!EndFollowsStart
<1>2. CASE J!SendLatest
  <2>1. PICK img \in J!Latest : /\ sent' = IF img \/ lastType THEN Append(sent, img) ELSE sent
                                /\ lastType' = img
    BY <1>2 DEF J!SendLatest
  <2>2. img \in BOOLEAN
    <3>1. CASE vecJiHeData = <<>>
      BY <3>1, <2>1 DEF J!Latest
    <3>2. CASE vecJiHeData # <<>>
      <4>1. received \in Nat /\ vecJiHeData \in Seq(Reading(received))
            /\ Len(vecJiHeData) \in DOMAIN vecJiHeData
        BY <3>2 DEF ReadingInv
      <4>2. img = vecJiHeData[Len(vecJiHeData)].img
        BY <3>2, <2>1 DEF J!Latest
      <4> QED
        BY <4>1, <4>2, ReadingFields
    <3> QED
      BY <3>1, <3>2
  <2>3. CASE ~img /\ ~lastType
    <3>1. sent' = sent /\ lastType' = lastType
      BY <2>1, <2>2, <2>3 DEF SentInv
    <3> QED
      BY <1>1, <3>1
  <2>4. CASE img \/ lastType
    <3>1. sent' = Append(sent, img) /\ lastType' = img
      BY <2>1, <2>4
    <3>2. /\ sent' \in Seq(BOOLEAN) /\ Len(sent') = Len(sent) + 1 /\ Len(sent) \in Nat
          /\ sent'[Len(sent) + 1] = img /\ DOMAIN sent' = 1..(Len(sent) + 1)
          /\ DOMAIN sent = 1..Len(sent) /\ \A i \in 1..Len(sent) : sent'[i] = sent[i]
      BY <3>1, <2>2 DEF SentInv
    <3>3. lastType' \in BOOLEAN /\ (lastType' <=> (sent' # <<>> /\ (sent'[Len(sent')])))
      BY <3>1, <3>2, <2>2
    <3>4. ASSUME NEW i \in DOMAIN sent', ~sent'[i] PROVE i > 1 /\ sent'[i - 1]
      <4>1. CASE i \in 1..Len(sent)
        <5>1. ~sent[i] /\ i \in DOMAIN sent
          BY <3>2, <3>4, <4>1
        <5>2. i > 1 /\ sent[i - 1]
          BY <5>1 DEF SentInv, EndFollowsStart, J!EndFollowsStart
        <5> QED
          BY <5>2, <4>1, <3>2
      <4>2. CASE i = Len(sent) + 1
        <5>1. lastType
          BY <4>2, <3>2, <3>4, <2>4
        <5>2. sent # <<>> /\ sent[Len(sent)] /\ Len(sent) \in 1..Len(sent)
          BY <5>1, <3>2 DEF SentInv
        <5> QED
          BY <5>2, <4>2, <3>2
      <4> QED
        BY <4>1, <4>2, <3>2, <3>4
    <3> QED
      BY <3>2, <3>3, <3>4 DEF SentInv, EndFollowsStart, J!EndFollowsStart
  <2> QED
    BY <2>2, <2>3, <2>4 DEF SentInv
<1>3. ASSUME J!NotifyTask \/ (\E img \in BOOLEAN : J!ReadData(img)) \/ J!Collect \/ J!Store
             \/ J!OnDataToLocationTimer \/ UNCHANGED J!jiheVars
      PROVE  UNCHANGED <<sent, lastType>>
  BY <1>3 DEF J!NotifyTask, J!ReadData, J!Collect, J!Store, J!OnDataToLocationTimer, J!jiheVars
<1> QED
  BY <1>1, <1>2, <1>3 DEF J!Next

\* Readings are in order over all places.
LEMMA ReadingsInOrder == ReadingInv => StoredOnceInOrder
<1> SUFFICES ASSUME ReadingInv PROVE StoredOnceInOrder
  OBVIOUS
<1> DEFINE both == storedData \o vecData
           all  == both \o vecJiHeData
<1>1. received \in Nat /\ both \in Seq(Reading(received)) /\ Rising(both)
      /\ Precede(both, vecJiHeData)
  BY RisingConcat, PrecedeConcat DEF ReadingInv
<1>2. vecJiHeData \in Seq(Reading(received)) /\ Rising(vecJiHeData)
  BY DEF ReadingInv
<1>3. Rising(all) /\ all \in Seq(Reading(received))
  <2> HIDE DEF both
  <2> QED
    BY <1>1, <1>2, RisingConcat
<1>4. \A i \in 2..Len(all) : all[i - 1].n < all[i].n
  <2> HIDE DEF all
  <2>1. \A i \in 2..Len(all) : i \in DOMAIN all /\ i - 1 \in DOMAIN all /\ i - 1 < i
    BY <1>3
  <2> QED
    BY <1>3, <2>1 DEF Rising
<1> QED
  BY <1>4 DEF StoredOnceInOrder, J!StoredOnceInOrder

-----------------------------------------------------------------------------
(* Where LocationService finds the train.                                  *)

LocationInv == /\ task \in [run : BOOLEAN, start : Int, dir : {1, -1}]
               /\ distance \in Int /\ speed \in Int /\ update \in Int \cup {None}
               /\ isAdjust \in BOOLEAN /\ pre \in Int

\* The poles of the line lie further apart than what is added to a position.
PolesApart == Offset > 0 /\ \A p, q \in Poles : p < q => q - p >= Offset

LEMMA TaskFields ==
  ASSUME LocationInv
  PROVE  /\ task.run \in BOOLEAN /\ task.start \in Int /\ task.dir \in {1, -1}
         /\ \A d \in Int : L!Position(task, d) \in Int
         /\ \A d \in Int : task.dir * d \in Int
<1>1. task.run \in BOOLEAN /\ task.start \in Int /\ task.dir \in {1, -1}
  BY DEF LocationInv
<1>2. \A d \in Int : task.dir * d \in Int
  BY <1>1
<1> QED
  BY <1>1, <1>2 DEF L!Position

\* A correction to any place leaves the distance a number.
LEMMA Adjusted ==
  ASSUME LocationInv, NEW d \in Int, L!AdjustData(d)
  PROVE  distance' \in Int
BY DEF L!AdjustData, LocationInv

LEMMA LocationInit == L!Init => LocationInv
<1> SUFFICES ASSUME L!Init PROVE LocationInv
  OBVIOUS
<1>1. task = [run |-> FALSE, start |-> 0, dir |-> 1]
  BY DEF L!Init
<1>2. task \in [run : BOOLEAN, start : Int, dir : {1, -1}]
  BY <1>1
<1> QED
  BY <1>2 DEF L!Init, LocationInv

\* What a reading does to the distance: nothing, or it puts the train at a near
\* pole and the way that the pole was in the image.
LEMMA ImageStep ==
  ASSUME LocationInv, NEW img \in BOOLEAN, L!RecvImageData(img)
  PROVE  /\ LocationInv' /\ task' = task
         /\ \/ distance' = distance
            \/ \E p \in Poles : /\ L!Abs(L!Position(task, distance) + Offset - p) < SpanPart
                              /\ L!Abs(distance - pre) < Far
                              /\ distance' = task.dir * (p - task.start + distance - pre)
<1>1. task' = task /\ speed' = speed /\ update' = update
  BY DEF L!RecvImageData
<1>2. CASE ~(task.run /\ img # isAdjust)
  <2>1. distance' = distance /\ isAdjust' = isAdjust /\ pre' = pre
    BY <1>2 DEF L!RecvImageData
  <2> QED
    BY <1>1, <2>1 DEF LocationInv
<1>3. CASE task.run /\ img # isAdjust /\ img
  <2>1. distance' = distance /\ isAdjust' = img /\ pre' = distance
    BY <1>3 DEF L!RecvImageData
  <2> QED
    BY <1>1, <2>1 DEF LocationInv
<1>4. CASE task.run /\ img # isAdjust /\ ~img
  <2>1. L!EndOfImage /\ isAdjust' = img /\ pre' = 0
    BY <1>4 DEF L!RecvImageData
  <2>2. CASE distance' = distance
    BY <1>1, <2>1, <2>2 DEF LocationInv
  <2>3. CASE distance' # distance
    <3>1. PICK p \in L!SelectLineData(L!Position(task, distance)) :
            /\ L!Abs(L!Position(task, distance) + Offset - p) < SpanPart
            /\ L!Abs(distance - pre) \in (Near + 1)..(Far - 1)
            /\ L!AdjustData(task.dir * (p - task.start + distance - pre))
      BY <2>1, <2>3 DEF L!EndOfImage
    <3>2. p \in Poles /\ p \in Int
      BY PositioningAssumption
      DEF L!SelectLineData, L!Highest, PositioningAssumption, L!LocationAssumption
    <3>3. p - task.start + distance - pre \in Int /\ L!Abs(distance - pre) < Far
      BY <3>1, <3>2, TaskFields, PositioningAssumption
      DEF LocationInv, PositioningAssumption, L!LocationAssumption, L!Abs
    <3>4. task.dir * (p - task.start + distance - pre) \in Int
      BY <3>3, TaskFields
    <3>5. distance' = task.dir * (p - task.start + distance - pre) /\ distance' \in Int
      BY <3>1, <3>4, <2>3 DEF L!AdjustData
    <3> QED
      BY <1>1, <2>1, <3>1, <3>2, <3>3, <3>5 DEF LocationInv
  <2> QED
    BY <2>2, <2>3
<1> QED
  BY <1>2, <1>3, <1>4

LEMMA LocationStep == ASSUME LocationInv, L!Next PROVE LocationInv'
<1> USE PositioningAssumption DEF PositioningAssumption
<1>1. Poles \subseteq Int /\ Anchors \subseteq Int /\ Starts \subseteq Int
  BY DEF L!LocationAssumption
<1>2. CASE L!NotifyTask
  <2>1. PICK run \in BOOLEAN, start \in Starts, dir \in {1, -1} :
          task' = [run |-> run, start |-> start, dir |-> dir]
    BY <1>2 DEF L!NotifyTask
  <2> QED
    BY <1>1, <1>2, <2>1 DEF L!NotifyTask, LocationInv
<1>3. ASSUME NEW v \in {0, 1}, L!RecvSpeedDisData(v) PROVE LocationInv'
  BY <1>3 DEF L!RecvSpeedDisData, LocationInv
<1>4. CASE L!UpdateRead
  BY <1>4 DEF L!UpdateRead, LocationInv
<1>5. CASE L!UpdateWrite
  BY <1>5 DEF L!UpdateWrite, LocationInv
<1>6. ASSUME NEW at \in Int
      PROVE  L!Travelled(at) \in Int
  <2>1. at - task.start \in Int
    BY <1>6, TaskFields
  <2> QED
    BY <2>1, TaskFields DEF L!Travelled
<1>7. ASSUME distance' \in Int, UNCHANGED <<task, speed, update, isAdjust, pre>> PROVE LocationInv'
  BY <1>7 DEF LocationInv
<1>8. CASE L!RecvMaoDuanData
  <2>1. \/ \E a \in Anchors : L!AdjustData(L!Travelled(a))
        \/ distance' = distance
    BY <1>8 DEF L!RecvMaoDuanData
  <2>2. distance' \in Int
    BY <2>1, <1>1, <1>6, Adjusted DEF LocationInv
  <2> QED
    BY <2>2, <1>7, <1>8 DEF L!RecvMaoDuanData
<1>9. ASSUME NEW at \in Poles, L!RecvRfidData(at) \/ L!RecvHandData(at) \/ L!RecvMvbData(at)
      PROVE  LocationInv'
  <2>1. at \in Int /\ L!Travelled(at) \in Int
    BY <1>1, <1>6
  <2>2. L!AdjustData(L!Travelled(at)) \/ L!AdjustData(at)
    BY <1>9 DEF L!RecvRfidData, L!RecvHandData, L!RecvMvbData
  <2>3. distance' \in Int
    BY <2>1, <2>2, Adjusted
  <2> QED
    BY <2>3, <1>7, <1>9 DEF L!RecvRfidData, L!RecvHandData, L!RecvMvbData
<1> QED
  BY <1>2, <1>3, <1>4, <1>5, <1>8, <1>9 DEF L!Next

\* Of a set of numbers at most one is the highest.
LEMMA OneHighest ==
  ASSUME NEW S, S \subseteq Int, NEW p \in L!Highest(S), NEW q \in L!Highest(S)
  PROVE  p = q
BY DEF L!Highest

\* The pole of a position.
LEMMA PoleOfPosition ==
  ASSUME PolesApart, NEW at \in Int
  PROVE  LET found == L!SelectLineData(at)
             last == L!Highest(Poles)
         IN /\ \A p, q \in found : p = q
            /\ at \in Poles /\ found # {} => found = {at} \/ found = last
            /\ \A p \in found \ last :
                  p <= at + Offset /\ \A q \in Poles : q <= p \/ q >= at + Offset
<1> DEFINE dis   == at + Offset
           less  == L!Highest({p \in Poles : p < dis})
           great == L!Highest({p \in Poles : p > dis})
           found == L!SelectLineData(at)
           last  == L!Highest(Poles)
<1>1. Poles \subseteq Int /\ Offset \in Nat /\ dis \in Int
  BY PositioningAssumption DEF PositioningAssumption, L!LocationAssumption
<1>2. /\ less \subseteq Poles /\ great \subseteq Poles
      /\ \A p \in less : p < dis /\ \A q \in Poles : q < dis => q <= p
      /\ \A p \in great : p > dis /\ \A q \in Poles : q > dis => q <= p
      /\ \A p, q \in less : p = q
      /\ \A p, q \in great : p = q
  BY <1>1 DEF L!Highest
<1>3. /\ great = {} => found = {}
      /\ great # {} /\ less = {} => found = great
      /\ great # {} /\ less # {} =>
           found = {p \in less : \A g \in great : L!Abs(dis - p) < L!Abs(g - dis)}
                   \cup {g \in great : \A p \in less : L!Abs(dis - p) >= L!Abs(g - dis)}
  BY DEF L!SelectLineData
<1> HIDE DEF dis, less, great, found, last
<1>4. great # {} => great = last
  <2>1. \A g \in great : \A q \in Poles : q <= g
    BY <1>1, <1>2
  <2>2. last = {p \in Poles : \A q \in Poles : q <= p}
    BY DEF last, L!Highest
  <2>3. \A g \in great, p \in last : g = p
    BY <1>1, <1>2, <2>1, <2>2
  <2> QED
    BY <1>2, <2>1, <2>2, <2>3
<1>5. found = {} \/ found = less \/ found = great
  <2>1. CASE great # {} /\ less # {}
    <3>1. PICK g \in great, p \in less : TRUE
      BY <2>1
    <3>2. great = {g} /\ less = {p}
      BY <3>1, <1>2
    <3>3. L!Abs(dis - p) \in Int /\ L!Abs(g - dis) \in Int
      BY <1>1, <1>2 DEF L!Abs
    <3>4. found = IF L!Abs(dis - p) < L!Abs(g - dis) THEN {p} ELSE {g}
      BY <3>2, <3>3, <2>1, <1>3
    <3> QED
      BY <3>2, <3>4
  <2> QED
    BY <2>1, <1>3
<1>6. \A p, q \in found : p = q
  BY <1>2, <1>5
<1>7. ASSUME at \in Poles, found # {} PROVE found = {at} \/ found = last
  <2>1. at < dis
    BY <1>1 DEF PolesApart, dis
  <2>2. \A p \in less : p = at
    <3> SUFFICES ASSUME NEW p \in less, p # at PROVE FALSE
      OBVIOUS
    <3>1. p \in Int /\ p \in Poles /\ p < dis /\ at <= p
      BY <1>1, <1>2, <1>7, <2>1
    <3>2. p - at >= Offset
      BY <3>1, <1>7 DEF PolesApart
    <3> QED
      BY <3>1, <3>2, <1>1 DEF dis
  <2>3. found = less => found = {at}
    BY <2>2, <1>7
  <2>4. found = great => found = last
    BY <1>4, <1>7
  <2> QED
    BY <2>3, <2>4, <1>5, <1>7
<1>8. ASSUME NEW p \in found \ last
      PROVE  p <= at + Offset /\ \A q \in Poles : q <= p \/ q >= at + Offset
  <2>1. p \in less
    BY <1>4, <1>5
  <2>2. p \in Int /\ p < dis /\ \A q \in Poles : q \in Int /\ (q < dis => q <= p)
    BY <2>1, <1>1, <1>2
  <2> QED
    BY <2>2, <1>1 DEF dis
<1> QED
  BY <1>6, <1>7, <1>8 DEF found, last

-----------------------------------------------------------------------------
PositioningInv == ReadingInv /\ SentInv /\ LocationInv /\ handled \in Nat

LEMMA PositioningInit == Init => PositioningInv
BY ReadingInit, LocationInit DEF Init, PositioningInv

\* LocationService handles a reading that was sent.
LEMMA HandledWasSent ==
  ASSUME PositioningInv, RecvImageData
  PROVE  sent[handled'] \in BOOLEAN /\ handled' \in Nat
BY DEF PositioningInv, SentInv, RecvImageData

LEMMA PositioningStep == PositioningInv /\ [Next]_vars => PositioningInv'
<1> SUFFICES ASSUME PositioningInv, [Next]_vars PROVE PositioningInv'
  OBVIOUS
<1>1. ASSUME UNCHANGED locationVars PROVE LocationInv'
  BY <1>1 DEF locationVars, LocationInv, PositioningInv
<1>2. [J!Next]_(J!jiheVars) => (ReadingInv /\ SentInv)'
  BY ReadingStep, SentStep DEF PositioningInv
<1>3. UNCHANGED jiheVars => [J!Next]_(J!jiheVars)
  BY DEF jiheVars, J!jiheVars
<1>4. CASE J!Next /\ UNCHANGED <<locationVars, handled>>
  BY <1>1, <1>2, <1>4 DEF PositioningInv
<1>5. CASE L!Next /\ UNCHANGED <<jiheVars, handled>>
  BY <1>2, <1>3, <1>5, LocationStep DEF PositioningInv
<1>6. CASE RecvImageData
  <2>1. L!RecvImageData(sent[handled']) /\ UNCHANGED jiheVars
    BY <1>6 DEF RecvImageData
  <2>2. LocationInv'
    BY <1>6, <2>1, HandledWasSent, ImageStep DEF PositioningInv
  <2> QED
    BY <1>2, <1>3, <1>6, <2>1, <2>2, HandledWasSent DEF PositioningInv
<1>7. CASE UNCHANGED vars
  BY <1>1, <1>2, <1>3, <1>7 DEF vars, PositioningInv
<1> QED
  BY <1>4, <1>5, <1>6, <1>7 DEF Next

LEMMA PositioningInvariant == Spec => []PositioningInv
BY PositioningInit, PositioningStep, PTL DEF Spec

\* A reading is stored at most once and in the order of receipt
\* (JiHeService.cpp:125-134, :276-292).
THEOREM ReadingsStoredOnce == Spec => []StoredOnceInOrder
<1>1. PositioningInv => StoredOnceInOrder
  BY ReadingsInOrder DEF PositioningInv
<1> QED
  BY <1>1, PositioningInvariant, PTL

\* The end of an image is sent once and after its start (:297-323).
THEOREM ImageEndsOnce == Spec => []EndFollowsStart
<1>1. PositioningInv => EndFollowsStart
  BY DEF PositioningInv, SentInv
<1> QED
  BY <1>1, PositioningInvariant, PTL

\* On a line whose poles lie apart a position has the pole behind it, or the last
\* one when that is nearer (RoughPositionBase.cpp:83-132).
THEOREM PoleOfTheTrain == ASSUME PolesApart PROVE Spec => []PoleBehindOrLast
<1>1. PositioningInv => PoleBehindOrLast
  <2> SUFFICES ASSUME PositioningInv PROVE PoleBehindOrLast
    OBVIOUS
  <2>1. L!Position(task, distance) \in Int
    BY TaskFields DEF PositioningInv, LocationInv
  <2> DEFINE at == L!Position(task, distance)
  <2>2. LET found == L!SelectLineData(at)
            last == L!Highest(Poles)
        IN /\ \A p, q \in found : p = q
           /\ at \in Poles /\ found # {} => found = {at} \/ found = last
           /\ \A p \in found \ last :
                 p <= at + Offset /\ \A q \in Poles : q <= p \/ q >= at + Offset
    <3> HIDE DEF at
    <3>1. at \in Int
      BY <2>1 DEF at
    <3> QED
      BY <3>1, PoleOfPosition
  <2> QED
    BY <2>2 DEF PoleBehindOrLast, L!PoleBehindOrLast
<1> QED
  BY <1>1, PositioningInvariant, PTL

\* A reading moves the position by no more than the way to a near pole and the
\* way the pole was in the image (LocationService.cpp:266-305).
THEOREM ImageMovesLittle == Spec => ImageShiftBounded
<1> DEFINE Shift == handled' # handled =>
                      L!Abs(L!Position(task, distance') - L!Position(task, distance))
                        < SpanPart + Offset + Far
<1>1. PositioningInv /\ [Next]_vars => [Shift]_vars
  <2> SUFFICES ASSUME PositioningInv, [Next]_vars, handled' # handled PROVE Shift
    OBVIOUS
  <2>1. RecvImageData
    BY DEF Next, vars
  <2>2. \/ distance' = distance
        \/ \E p \in Poles : /\ L!Abs(L!Position(task, distance) + Offset - p) < SpanPart
                          /\ L!Abs(distance - pre) < Far
                          /\ distance' = task.dir * (p - task.start + distance - pre)
    BY <2>1, HandledWasSent, ImageStep DEF RecvImageData, PositioningInv
  <2>3. /\ Poles \subseteq Int /\ SpanPart \in Nat /\ Offset \in Nat /\ Far \in Nat /\ Far > 0
        /\ task.start \in Int /\ task.dir \in {1, -1} /\ distance \in Int /\ pre \in Int
    BY PositioningAssumption, TaskFields
    DEF PositioningAssumption, L!LocationAssumption, PositioningInv, LocationInv
  <2>4. CASE distance' = distance
    <3>1. L!Position(task, distance) \in Int
      BY <2>3, TaskFields DEF PositioningInv
    <3>2. L!Position(task, distance') - L!Position(task, distance) = 0
      BY <3>1, <2>4
    <3> QED
      BY <3>2, <2>3 DEF L!Abs
  <2>5. CASE distance' # distance
    <3>1. PICK p \in Poles : /\ L!Abs(L!Position(task, distance) + Offset - p) < SpanPart
                            /\ L!Abs(distance - pre) < Far
                            /\ distance' = task.dir * (p - task.start + distance - pre)
      BY <2>2, <2>5
    <3>2. p \in Int
      BY <2>3
    <3>3. L!Position(task, distance') = p + distance - pre
      <4>1. CASE task.dir = 1
        BY <4>1, <3>1, <3>2, <2>3 DEF L!Position
      <4>2. CASE task.dir = -1
        BY <4>2, <3>1, <3>2, <2>3 DEF L!Position
      <4> QED
        BY <4>1, <4>2, <2>3
    <3>4. L!Position(task, distance) \in Int
      BY TaskFields, <2>3 DEF PositioningInv
    <3> DEFINE at == L!Position(task, distance)
    <3> HIDE DEF at
    <3>5. L!Abs(at + Offset - p) < SpanPart /\ at \in Int
      BY <3>1, <3>4 DEF at
    <3>6. L!Abs((p + distance - pre) - at) < SpanPart + Offset + Far
      BY <3>1, <3>2, <3>5, <2>3 DEF L!Abs
    <3> QED
      BY <3>3, <3>6 DEF at
  <2> QED
    BY <2>4, <2>5
<1> QED
  BY <1>1, PositioningInvariant, PTL DEF Spec, ImageShiftBounded
=============================================================================
