--------------------------- MODULE ServicesProofs ---------------------------
(***************************************************************************)
(* Services that MCServices composes, for any values of their constants.    *)
(* The packet of the train bus shows what was told and no fault without a   *)
(* cause.  Of the database: no two statements of a thread in a row are lost *)
(* while the server is up, a query answers what it asks, every arc is in    *)
(* one row, a position of one thread in one batch, and a row of the earlier *)
(* program in the database of its task.  Of the cameras: an image has the   *)
(* name and the lines that were told, and its buffer, values and picture.   *)
(***************************************************************************)
EXTENDS MCServices, SequenceTheorems, WellFoundedInduction, TLAPS

-----------------------------------------------------------------------------
(* Numbers and sequences.                                                   *)

\* Induction on the natural numbers, from the order being well founded.
LEMMA NatSet ==
  ASSUME NEW N, 0 \in N, \A n \in Nat : n \in N => n + 1 \in N
  PROVE  Nat \subseteq N
<1>1. SUFFICES ASSUME NEW X, X = Nat \ N, X # {} PROVE FALSE
  OBVIOUS
<1> DEFINE R == OpToRel(<, Nat)
<1>2. IsWellFoundedOn(R, Nat)
  BY NatLessThanWellFounded
<1>3. X \subseteq Nat
  BY <1>1
<1> HIDE DEF R
<1>4. \E x \in X : \A y \in X : ~ (<<y, x>> \in R)
  BY <1>1, <1>2, <1>3, WFMin, Zenon
<1>5. PICK x \in X : \A y \in X : ~ (y < x)
  BY <1>3, <1>4 DEF R, OpToRel
<1>6. x # 0 /\ x - 1 \in Nat /\ x - 1 \notin X
  BY <1>1, <1>5
<1> QED
  BY <1>1, <1>6

\* A set of indexes has a last one.
LEMMA LastOf ==
  ASSUME NEW n \in Nat, NEW X \in SUBSET (1..n), X # {}
  PROVE  \E j \in X : \A k \in X : k <= j
<1> DEFINE HaveLast == {m \in Nat : \A Y \in SUBSET (1..m) : Y # {} => \E j \in Y : \A k \in Y : k <= j}
<1>1. 0 \in HaveLast
  <2>1. 1..0 = {} /\ SUBSET {} = {{}}
    OBVIOUS
  <2> QED
    BY <2>1
<1>2. ASSUME NEW m \in Nat, m \in HaveLast PROVE m + 1 \in HaveLast
  <2> SUFFICES ASSUME NEW Y \in SUBSET (1..(m + 1)), Y # {}
               PROVE  \E j \in Y : \A k \in Y : k <= j
    OBVIOUS
  <2>1. CASE m + 1 \in Y
    BY <2>1
  <2>2. CASE m + 1 \notin Y
    <3>1. Y \in SUBSET (1..m)
      BY <2>2
    <3> QED
      BY <1>2, <3>1
  <2> QED
    BY <2>1, <2>2
<1> HIDE DEF HaveLast
<1>3. n \in HaveLast
  BY <1>1, <1>2, NatSet
<1> QED
  BY <1>3 DEF HaveLast

\* One sequence after the other.
LEMMA TwoOf ==
  ASSUME NEW V, NEW a \in Seq(V), NEW b \in Seq(V)
  PROVE  /\ a \o b \in Seq(V) /\ Len(a \o b) = Len(a) + Len(b)
         /\ \A i \in 1..(Len(a) + Len(b)) :
               (a \o b)[i] = IF i <= Len(a) THEN a[i] ELSE b[i - Len(a)]
OBVIOUS

\* One element more.
LEMMA AppendIs ==
  ASSUME NEW V, NEW s \in Seq(V), NEW x \in V
  PROVE  /\ Append(s, x) = s \o <<x>> /\ Append(s, x) \in Seq(V) /\ Append(s, x) # <<>>
         /\ Len(Append(s, x)) = Len(s) + 1
OBVIOUS

LEMMA SeqGrows ==
  ASSUME NEW V, NEW W, V \subseteq W, NEW s \in Seq(V) PROVE s \in Seq(W)
OBVIOUS

-----------------------------------------------------------------------------
(* The packet of MvbHeartbeat.                                             *)

\* Where the bits of alarms begin: four bits each, before the bytes of faults.
AlarmPlaces == (42..48) \X {0, 4}
FaultPlaces == (50..51) \X (0..7)

PacketType ==
  /\ m_modulStatussetlist \in BOOLEAN /\ terminated \in BOOLEAN
  /\ DOMAIN m_modulStatus \subseteq ModulNos
  /\ \A n \in DOMAIN m_modulStatus : m_modulStatus[n] \in Int /\ m_modulStatus[n] >= -1
  /\ silent \in [ModulNos -> 0..AliveTime + 2]
  /\ DOMAIN level \subseteq M!AsDocumented

\* A counter is never behind the silence of its module.
CountersTell == \A n \in DOMAIN m_modulStatus : silent[n] >= AliveTime - m_modulStatus[n]

\* Until the first packet the number of the port is missing.
FirstLacksNumber == comId # ComId => comId = 0 /\ m_AliveNum = 1 % AliveLimit

PacketInv == PacketType /\ CountersTell /\ FirstLacksNumber /\ M!PacketsSound

\* Where the registered functions write.
LEMMA AlarmsBegin == \A t \in DOMAIN M!FirstBit : M!FirstBit[t] \in AlarmPlaces
  BY DEF M!FirstBit, AlarmPlaces

\* The numbers of AsDocumented are registered for their types, and no other number
\* is for one of these.
LEMMA TypesApart ==
  ASSUME NEW b \in M!AsDocumented
  PROVE  /\ M!Registered[b] = M!AlarmTypes[b] /\ M!AlarmTypes[b] \in DOMAIN M!FirstBit
         /\ \A a \in DOMAIN M!Registered :
              a # b /\ M!Registered[a] \in DOMAIN M!FirstBit =>
                M!FirstBit[M!Registered[a]] # M!FirstBit[M!AlarmTypes[b]]
<1>1. b \in 5..8 \/ b \in 10..13
  BY DEF M!AsDocumented
<1>2. M!Registered[b] = M!AlarmTypes[b] /\ M!AlarmTypes[b] \in DOMAIN M!FirstBit
  BY <1>1 DEF M!Registered, M!AlarmTypes, M!FirstBit
<1>3. ASSUME NEW a \in DOMAIN M!Registered, a # b, M!Registered[a] \in DOMAIN M!FirstBit
      PROVE  M!FirstBit[M!Registered[a]] # M!FirstBit[M!AlarmTypes[b]]
  <2>1. a \in 0..4 \/ a \in 5..8 \/ a \in 9..14
    BY DEF M!Registered
  <2>2. CASE a \in 0..4
    <3>1. M!Registered[a] \in {"Temp", "CatOff", "CatHei", "Arc"}
      BY <2>2 DEF M!Registered, M!AlarmTypes
    <3>2. M!AlarmTypes[b] \notin {"Temp", "CatOff", "CatHei", "Arc"}
      BY <1>1 DEF M!AlarmTypes
    <3> QED
      BY <1>2, <3>1, <3>2 DEF M!FirstBit
  <2>3. CASE a \in 5..8 \/ a \in 9..14
    <3>1. M!Registered[a] = M!AlarmTypes[a]
      BY <2>3 DEF M!Registered
    <3>2. M!AlarmTypes[a] # M!AlarmTypes[b]
      BY <1>1, <1>3, <2>3 DEF M!AlarmTypes
    <3> QED
      BY <1>2, <1>3, <3>1, <3>2 DEF M!FirstBit
  <2> QED
    BY <2>1, <2>2, <2>3
<1> QED
  BY <1>2, <1>3

LEMMA FaultsLie == \A n \in DOMAIN M!FaultBit : M!FaultBit[n] \in FaultPlaces
  BY DEF M!FaultBit, FaultPlaces

\* Bits of different alarms differ.
LEMMA AlarmsApart ==
  ASSUME NEW p \in AlarmPlaces, NEW q \in AlarmPlaces, p # q, NEW k \in 1..3, NEW l \in 1..3
  PROVE  M!Bit(p, k) # M!Bit(q, l)
<1>1. PICK b \in 42..48, s \in {0, 4} : p = <<b, s>>
  BY DEF AlarmPlaces
<1>2. PICK c \in 42..48, t \in {0, 4} : q = <<c, t>>
  BY DEF AlarmPlaces
<1>3. M!Bit(p, k) = <<b, s + k - 1>> /\ M!Bit(q, l) = <<c, t + l - 1>>
  BY <1>1, <1>2 DEF M!Bit
<1>4. b # c \/ s # t
  BY <1>1, <1>2
<1> QED
  BY <1>3, <1>4

\* No bit of an alarm is the bit of a fault.
LEMMA AlarmsNoFaults ==
  ASSUME NEW p \in AlarmPlaces, NEW q \in FaultPlaces, NEW l \in 1..3
  PROVE  M!Bit(p, l) # q
<1>1. PICK b \in 42..48, s \in {0, 4} : p = <<b, s>>
  BY DEF AlarmPlaces
<1>2. PICK c \in 50..51, t \in 0..7 : q = <<c, t>>
  BY DEF FaultPlaces
<1> QED
  BY <1>1, <1>2 DEF M!Bit

LEMMA PacketInit == ASSUME M!MvbAssumption, M!Init PROVE PacketInv
<1> USE DEF M!MvbAssumption
<1>1. PacketType /\ CountersTell
  <2>1. DOMAIN m_modulStatus = {} /\ DOMAIN level = {}
    BY DEF M!Init
  <2>2. silent \in [ModulNos -> 0..AliveTime + 2]
    BY DEF M!Init
  <2> QED
    BY <2>1, <2>2 DEF M!Init, PacketType, CountersTell
<1>2. FirstLacksNumber /\ M!CheckedAsSent
  BY DEF M!Init, FirstLacksNumber, M!CheckedAsSent, M!NotSent
<1>3. M!AlarmsOfTheirType /\ M!FaultsHaveCause
  BY DEF M!Init, M!AlarmsOfTheirType, M!FaultsHaveCause
<1> QED
  BY <1>1, <1>2, <1>3 DEF PacketInv, M!PacketsSound

-----------------------------------------------------------------------------
(* Steps that only tell of life change counters, and nothing of the packet. *)

LEMMA SignsKeep ==
  ASSUME M!MvbAssumption, PacketInv, M!InitModuleStatus \/ \E n \in ModulNos : M!UpdateModulesStaus(n)
  PROVE  PacketInv'
<1> USE DEF M!MvbAssumption
<1>1. PICK n \in ModulNos : /\ m_modulStatus' = M!Entered(m_modulStatus, n, AliveTime)
                            /\ silent' = [silent EXCEPT ![n] = 0]
  BY DEF M!InitModuleStatus, M!UpdateModulesStaus
<1>2. UNCHANGED <<m_modulStatussetlist, terminated, m_AliveNum, raised, comId, sent, level, levels, faulty>>
  BY DEF M!InitModuleStatus, M!UpdateModulesStaus
<1>3. PacketType'
  BY <1>1, <1>2 DEF PacketInv, PacketType, M!Entered
<1>4. CountersTell'
  BY <1>1, <1>2 DEF PacketInv, PacketType, CountersTell, M!Entered
<1>5. FirstLacksNumber' /\ M!PacketsSound'
  BY <1>2 DEF PacketInv, FirstLacksNumber, M!PacketsSound, M!CheckedAsSent, M!AlarmsOfTheirType, M!FaultsHaveCause
<1> QED
  BY <1>3, <1>4, <1>5 DEF PacketInv

\* A level raises its own bit, or lowers that of its alarm's first level.
LEMMA AlarmKeeps ==
  ASSUME M!MvbAssumption, PacketInv, NEW a \in ArmNos, NEW l \in 0..3, M!UpdateAlarmInfo(a, l)
  PROVE  PacketInv'
<1> DEFINE p == M!FirstBit[M!Registered[a]]
<1>1. a \in DOMAIN M!Registered /\ M!Registered[a] \in DOMAIN M!FirstBit /\ p \in AlarmPlaces
  BY AlarmsBegin DEF M!UpdateAlarmInfo
<1>2. UNCHANGED <<m_modulStatussetlist, m_modulStatus, m_AliveNum, comId, sent, faulty, silent>>
  BY DEF M!UpdateAlarmInfo
<1>3. CASE M!OutOfRange(p, l)
  <2>1. terminated' = TRUE /\ UNCHANGED <<raised, level, levels>>
    BY <1>3 DEF M!UpdateAlarmInfo
  <2> QED
    BY <1>2, <2>1 DEF PacketInv, PacketType, CountersTell, FirstLacksNumber, M!PacketsSound,
                      M!CheckedAsSent, M!AlarmsOfTheirType, M!FaultsHaveCause
<1>4. CASE ~M!OutOfRange(p, l)
  <2>1. /\ raised' = M!SetBits(p, l) /\ UNCHANGED terminated
        /\ level' = IF a \in M!AsDocumented THEN M!Entered(level, a, l) ELSE level
        /\ levels' = IF a \in M!AsDocumented THEN levels \cup {<<a, l>>} ELSE levels
    BY <1>4 DEF M!UpdateAlarmInfo
  <2>2. PacketType'
    BY <1>2, <2>1 DEF PacketInv, PacketType, M!Entered
  <2>3. CountersTell' /\ FirstLacksNumber' /\ M!CheckedAsSent'
    BY <1>2 DEF PacketInv, M!PacketsSound, CountersTell, FirstLacksNumber, M!CheckedAsSent
  <2>4. M!AlarmsOfTheirType'
    <3> SUFFICES ASSUME NEW b \in M!AsDocumented
                 PROVE  LET q == M!FirstBit[M!AlarmTypes[b]]
                        IN /\ b \in DOMAIN level' /\ level'[b] \in 1..2 => M!Bit(q, level'[b]) \in raised'
                           /\ \A k \in 1..3 : M!Bit(q, k) \in raised' => <<b, k>> \in levels'
      BY DEF M!AlarmsOfTheirType
    <3> DEFINE q == M!FirstBit[M!AlarmTypes[b]]
    <3>1. /\ b \in DOMAIN level /\ level[b] \in 1..2 => M!Bit(q, level[b]) \in raised
          /\ \A k \in 1..3 : M!Bit(q, k) \in raised => <<b, k>> \in levels
      BY DEF PacketInv, M!PacketsSound, M!AlarmsOfTheirType
    <3>2. q \in AlarmPlaces
      BY TypesApart, AlarmsBegin
    <3>3. CASE b = a
      <4>1. p = q
        BY <3>3, TypesApart
      <4>2. b \in DOMAIN level' /\ level'[b] = l /\ levels' = levels \cup {<<b, l>>}
        BY <2>1, <3>3 DEF M!Entered
      <4>3. ASSUME NEW k \in 1..3, M!Bit(q, k) \in raised', k # l PROVE M!Bit(q, k) \in raised
        <5>1. l \in 1..3 => M!Bit(q, k) # M!Bit(q, l)
          <6>1. PICK c \in 42..48, t \in {0, 4} : q = <<c, t>>
            BY <3>2 DEF AlarmPlaces
          <6> QED
            BY <4>3, <6>1 DEF M!Bit
        <5> QED
          BY <2>1, <4>1, <4>3, <5>1 DEF M!SetBits
      <4>4. \A k \in 1..3 : M!Bit(q, k) \in raised' => <<b, k>> \in levels'
        BY <3>1, <4>2, <4>3
      <4>5. level'[b] \in 1..2 => M!Bit(q, level'[b]) \in raised'
        BY <2>1, <4>1, <4>2 DEF M!SetBits
      <4> QED
        BY <4>4, <4>5
    <3>4. CASE b # a
      <4>1. p # q
        BY <1>1, <3>4, TypesApart
      <4>2. /\ b \in DOMAIN level' <=> b \in DOMAIN level
            /\ b \in DOMAIN level => level'[b] = level[b]
            /\ levels \subseteq levels'
        BY <2>1, <3>4 DEF M!Entered
      <4>3. \A j, k \in 1..3 : M!Bit(p, j) # M!Bit(q, k)
        BY <1>1, <3>2, <4>1, AlarmsApart
      <4>4. \A k \in 1..3 : M!Bit(q, k) \in raised' <=> M!Bit(q, k) \in raised
        BY <2>1, <4>3 DEF M!SetBits
      <4> QED
        BY <3>1, <4>2, <4>4
    <3> QED
      BY <3>3, <3>4
  <2>5. M!FaultsHaveCause'
    <3>1. ASSUME NEW n \in DOMAIN M!FaultBit, M!FaultBit[n] \in raised' PROVE M!FaultBit[n] \in raised
      <4>1. M!FaultBit[n] \in FaultPlaces
        BY FaultsLie
      <4>2. \A k \in 1..3 : M!Bit(p, k) # M!FaultBit[n]
        BY <1>1, <4>1, AlarmsNoFaults
      <4> QED
        BY <2>1, <3>1, <4>2 DEF M!SetBits
    <3> QED
      BY <1>2, <3>1 DEF PacketInv, M!PacketsSound, M!FaultsHaveCause
  <2> QED
    BY <2>2, <2>3, <2>4, <2>5 DEF PacketInv, M!PacketsSound
<1> QED
  BY <1>3, <1>4

\* A module's word moves its own bit only.
LEMMA FaultKeeps ==
  ASSUME M!MvbAssumption, PacketInv, NEW n \in ModulNos, NEW value \in BOOLEAN, M!UpdateModulStatus(n, value)
  PROVE  PacketInv'
<1>1. n \in DOMAIN M!FaultBit
  BY DEF M!UpdateModulStatus, M!Known
<1>2. UNCHANGED <<m_modulStatussetlist, terminated, m_modulStatus, m_AliveNum, comId, sent, level, levels, silent>>
  BY DEF M!UpdateModulStatus
<1>3. /\ raised' = IF value THEN raised \cup {M!FaultBit[n]} ELSE raised \ {M!FaultBit[n]}
      /\ faulty' = IF value THEN faulty \cup {n} ELSE faulty \ {n}
  BY DEF M!UpdateModulStatus
<1>4. PacketType' /\ CountersTell' /\ FirstLacksNumber' /\ M!CheckedAsSent'
  BY <1>2 DEF PacketInv, PacketType, M!PacketsSound, CountersTell, FirstLacksNumber, M!CheckedAsSent
<1>5. M!AlarmsOfTheirType'
  <2>1. ASSUME NEW b \in M!AsDocumented, NEW k \in 1..3
        PROVE  M!Bit(M!FirstBit[M!AlarmTypes[b]], k) # M!FaultBit[n]
    <3>1. M!FirstBit[M!AlarmTypes[b]] \in AlarmPlaces
      BY TypesApart, AlarmsBegin
    <3> QED
      BY <1>1, <3>1, FaultsLie, AlarmsNoFaults
  <2>2. \A b \in M!AsDocumented, k \in 1..3 :
          M!Bit(M!FirstBit[M!AlarmTypes[b]], k) \in raised' <=> M!Bit(M!FirstBit[M!AlarmTypes[b]], k) \in raised
    BY <1>3, <2>1
  <2>3. M!AlarmsOfTheirType
    BY DEF PacketInv, M!PacketsSound
  <2>4. level' = level /\ levels' = levels /\ \A k \in 1..2 : k \in 1..3
    BY <1>2
  <2> QED
    BY <2>2, <2>3, <2>4, Zenon DEF M!AlarmsOfTheirType
<1>6. M!FaultsHaveCause'
  BY <1>1, <1>3 DEF PacketInv, M!PacketsSound, M!FaultsHaveCause
<1> QED
  BY <1>4, <1>5, <1>6 DEF PacketInv, M!PacketsSound

\* Who expires with a heartbeat has been silent for long enough.
LEMMA HeartbeatKeeps ==
  ASSUME M!MvbAssumption, PacketInv, NEW port \in BusPorts, M!Timeout(port)
  PROVE  PacketInv'
<1> USE DEF M!MvbAssumption
<1>1. PacketType'
  BY DEF M!Timeout, PacketInv, PacketType, M!Decreased
<1>2. CountersTell'
  <2> SUFFICES ASSUME NEW n \in DOMAIN m_modulStatus PROVE silent'[n] >= AliveTime - m_modulStatus'[n]
    BY DEF M!Timeout, CountersTell
  <2>1. n \in ModulNos /\ m_modulStatus[n] \in Int /\ m_modulStatus[n] >= -1
    BY DEF PacketInv, PacketType
  <2>2. silent[n] \in 0..AliveTime + 2
    BY <2>1 DEF PacketInv, PacketType
  <2>3. silent[n] >= AliveTime - m_modulStatus[n]
    BY DEF PacketInv, CountersTell
  <2>4. m_modulStatus'[n] = M!Decreased(m_modulStatus[n])
    BY DEF M!Timeout
  <2>5. silent'[n] = IF silent[n] < AliveTime + 2 THEN silent[n] + 1 ELSE silent[n]
    BY <2>1 DEF M!Timeout
  <2> QED
    BY <2>1, <2>2, <2>3, <2>4, <2>5 DEF M!Decreased
<1>3. FirstLacksNumber'
  BY DEF M!Timeout, FirstLacksNumber
<1>4. M!CheckedAsSent'
  BY DEF M!Timeout, PacketInv, FirstLacksNumber, M!CheckedAsSent, M!CheckedContent
<1>5. M!AlarmsOfTheirType'
  <2>1. /\ raised' = raised \cup {M!FaultBit[n] : n \in M!Known(M!Expired)}
        /\ UNCHANGED <<level, levels>>
    BY DEF M!Timeout
  <2>2. ASSUME NEW b \in M!AsDocumented, NEW k \in 1..3, NEW n \in DOMAIN M!FaultBit
        PROVE  M!Bit(M!FirstBit[M!AlarmTypes[b]], k) # M!FaultBit[n]
    <3>1. M!FirstBit[M!AlarmTypes[b]] \in AlarmPlaces
      BY TypesApart, AlarmsBegin
    <3> QED
      BY <3>1, FaultsLie, AlarmsNoFaults
  <2>3. M!Known(M!Expired) \subseteq DOMAIN M!FaultBit
    BY DEF M!Known
  <2>4. \A b \in M!AsDocumented, k \in 1..3 :
          M!Bit(M!FirstBit[M!AlarmTypes[b]], k) \in raised' <=> M!Bit(M!FirstBit[M!AlarmTypes[b]], k) \in raised
    BY <2>1, <2>2, <2>3
  <2>5. M!AlarmsOfTheirType
    BY DEF PacketInv, M!PacketsSound
  <2>6. level' = level /\ levels' = levels /\ \A k \in 1..2 : k \in 1..3
    BY <2>1
  <2> QED
    BY <2>4, <2>5, <2>6, Zenon DEF M!AlarmsOfTheirType
<1>6. M!FaultsHaveCause'
  <2>1. ASSUME NEW n \in M!Expired PROVE n \in faulty'
    <3>1. n \in DOMAIN m_modulStatus /\ n \in ModulNos /\ m_modulStatus[n] = -1
      BY <2>1 DEF M!Expired, PacketInv, PacketType
    <3>2. silent[n] \in 0..AliveTime + 2 /\ silent[n] >= AliveTime + 1
      <4>1. silent[n] \in 0..AliveTime + 2
        BY <3>1 DEF PacketInv, PacketType
      <4>2. silent[n] >= AliveTime - m_modulStatus[n]
        BY <3>1 DEF PacketInv, CountersTell
      <4> QED
        BY <3>1, <4>1, <4>2
    <3>3. silent'[n] = AliveTime + 2
      BY <3>1, <3>2 DEF M!Timeout
    <3> QED
      BY <3>1, <3>3 DEF M!Timeout
  <2>2. /\ raised' = raised \cup {M!FaultBit[n] : n \in M!Known(M!Expired)}
        /\ faulty \subseteq faulty'
    BY DEF M!Timeout
  <2>3. M!Known(M!Expired) \subseteq M!Expired \cap DOMAIN M!FaultBit
    BY DEF M!Known
  <2> QED
    BY <2>1, <2>2, <2>3 DEF PacketInv, M!PacketsSound, M!FaultsHaveCause
<1> QED
  BY <1>1, <1>2, <1>3, <1>4, <1>5, <1>6 DEF PacketInv, M!PacketsSound

LEMMA PacketNext == ASSUME M!MvbAssumption, PacketInv, [M!Next]_packetVars PROVE PacketInv'
<1>1. CASE M!Start \/ M!InitSetAlarmFunc \/ M!InitSetModulStatusFunc \/ UNCHANGED packetVars
  BY <1>1 DEF packetVars, M!Start, M!InitSetAlarmFunc, M!InitSetModulStatusFunc, M!packetVars, PacketInv, PacketType,
              CountersTell, FirstLacksNumber, M!PacketsSound, M!CheckedAsSent, M!AlarmsOfTheirType, M!FaultsHaveCause
<1>2. CASE M!InitModuleStatus \/ \E n \in ModulNos : M!UpdateModulesStaus(n)
  BY <1>2, SignsKeep
<1>3. ASSUME NEW a \in ArmNos, NEW l \in 0..3, M!UpdateAlarmInfo(a, l) PROVE PacketInv'
  BY <1>3, AlarmKeeps
<1>4. ASSUME NEW n \in ModulNos, NEW value \in BOOLEAN, M!UpdateModulStatus(n, value) PROVE PacketInv'
  BY <1>4, FaultKeeps
<1>5. ASSUME NEW port \in BusPorts, M!Timeout(port) PROVE PacketInv'
  BY <1>5, HeartbeatKeeps
<1> QED
  BY <1>1, <1>2, <1>3, <1>4, <1>5 DEF M!Next, M!Alarms, M!Modules, M!Heartbeats

\* The check sum is that of the packet but for the first one; an alarm whose number
\* has its documented type is shown at the last of the levels 1 and 2 that was told,
\* and nothing is shown there that was not told of it; and of who is shown as faulty
\* 1 was told, or it was silent (MVBNBDataGenerator.cpp:20-448,
\* MVBPmsDataGenerator.cpp:17-153).
THEOREM PacketShowsWhatWasTold == MCSpec => []PacketsSound
<1>1. PacketInv => PacketsSound
  BY DEF PacketInv, PacketsSound
<1>2. MCInit => PacketInv
  BY MCAssumption, PacketInit DEF MCInit
<1>3. PacketInv /\ [MCNext]_vars => PacketInv'
  <2>1. [MCNext]_vars => [M!Next]_packetVars
    BY DEF MCNext, vars, packetVars, M!Next, NotPlayer, NotDatabase, NotTitles, NotPacket,
           NotDetector, NotStream, NotThermal, NotPositions, NotProgram
  <2> QED
    BY <2>1, MCAssumption, PacketNext
<1> QED
  BY <1>1, <1>2, <1>3, PTL DEF MCSpec

-----------------------------------------------------------------------------
(* The connections of Database.                                            *)

ConnectionType ==
  /\ alive \subseteq ThreadIds /\ thread \in [ThreadIds -> Nat]
  /\ step \in [ThreadIds -> {"idle", "add", "name", "query"}]
  /\ registered \in [ThreadIds -> Nat]
  /\ connection \in [ThreadIds -> {"none", "open", "broken", "closed"}]
  /\ held \in [ThreadIds -> BOOLEAN] /\ m_connectionNames \subseteq ThreadIds
  /\ server \in {"up", "down"} /\ outages \in Nat /\ stopped \in BOOLEAN
  /\ lost \in [ThreadIds -> Nat]

\* A thread that is in getConnection runs, and runs under its own number.
OwnSteps == \A i \in ThreadIds : /\ i \in alive => thread[i] # 0
                                 /\ step[i] # "idle" => i \in alive

\* What the registry has for the names, and for the thread that adds one.
Registry ==
  \A i \in ThreadIds :
    /\ i \in m_connectionNames => registered[i] # 0 /\ connection[i] # "none"
    /\ registered[i] # 0 => i \in m_connectionNames \/ step[i] = "name"
    /\ step[i] \in {"add", "name"} => i \notin m_connectionNames
    /\ step[i] = "name" => registered[i] = thread[i] /\ connection[i] # "none" /\ held[i]
    /\ step[i] = "query" /\ i \in m_connectionNames => held[i] /\ registered[i] = thread[i]

\* After a lost statement the thread has no connection, or one of its own that
\* is known to be closed; the next one works.
NextOneWorks ==
  \A i \in ThreadIds :
    /\ lost[i] <= 1
    /\ lost[i] = 1 /\ server = "up" =>
         /\ i \in m_connectionNames => /\ registered[i] = thread[i]
                                       /\ connection[i] \in {"open", "closed"}
         /\ step[i] \in {"name", "query"} => connection[i] = "open" /\ held[i]

ConnectionInv == ConnectionType /\ OwnSteps /\ Registry /\ NextOneWorks

LEMMA ConnectionInit == D!Init => ConnectionInv
<1> SUFFICES ASSUME D!Init PROVE ConnectionInv
  OBVIOUS
<1>1. ConnectionType
  BY DEF D!Init, ConnectionType
<1>2. OwnSteps /\ Registry /\ NextOneWorks
  BY DEF D!Init, OwnSteps, Registry, NextOneWorks
<1> QED
  BY <1>1, <1>2 DEF ConnectionInv

\* No step of a thread, the server or stop() breaks it.
LEMMA ConnectionNext == ConnectionInv /\ [D!Next]_(D!databaseVars) => ConnectionInv'
<1> SUFFICES ASSUME ConnectionInv, [D!Next]_(D!databaseVars) PROVE ConnectionInv'
  OBVIOUS
<1>t. ConnectionType /\ OwnSteps /\ Registry /\ NextOneWorks
  BY DEF ConnectionInv
<1>1. ASSUME D!ServerDown PROVE ConnectionInv'
  <2>1. ConnectionType'
    BY <1>t, <1>1 DEF D!ServerDown, ConnectionType
  <2>2. OwnSteps'
    BY <1>t, <1>1 DEF D!ServerDown, OwnSteps, ConnectionType
  <2>3. Registry'
    BY <1>t, <1>1 DEF D!ServerDown, Registry, OwnSteps, ConnectionType
  <2>4. NextOneWorks'
    BY <1>t, <1>1 DEF D!ServerDown, NextOneWorks, Registry, OwnSteps, ConnectionType
  <2> QED
    BY <2>1, <2>2, <2>3, <2>4 DEF ConnectionInv
<1>2. ASSUME D!ServerUp PROVE ConnectionInv'
  <2>1. ConnectionType'
    BY <1>t, <1>2 DEF D!ServerUp, ConnectionType
  <2>2. OwnSteps'
    BY <1>t, <1>2 DEF D!ServerUp, OwnSteps, ConnectionType
  <2>3. Registry'
    BY <1>t, <1>2 DEF D!ServerUp, Registry, OwnSteps, ConnectionType
  <2>4. NextOneWorks'
    BY <1>t, <1>2 DEF D!ServerUp, NextOneWorks, Registry, OwnSteps, ConnectionType
  <2> QED
    BY <2>1, <2>2, <2>3, <2>4 DEF ConnectionInv
<1>3. ASSUME D!Stop PROVE ConnectionInv'
  <2>1. ConnectionType'
    BY <1>t, <1>3 DEF D!Stop, ConnectionType
  <2>2. OwnSteps'
    BY <1>t, <1>3 DEF D!Stop, OwnSteps, ConnectionType
  <2>3. Registry'
    BY <1>t, <1>3 DEF D!Stop, Registry, OwnSteps, ConnectionType
  <2>4. NextOneWorks'
    BY <1>t, <1>3 DEF D!Stop, NextOneWorks, Registry, OwnSteps, ConnectionType
  <2> QED
    BY <2>1, <2>2, <2>3, <2>4 DEF ConnectionInv
<1>4. ASSUME NEW i \in ThreadIds, D!ThreadBegins(i) PROVE ConnectionInv'
  <2>1. ConnectionType'
    BY <1>t, <1>4 DEF D!ThreadBegins, ConnectionType
  <2>2. OwnSteps'
    BY <1>t, <1>4 DEF D!ThreadBegins, OwnSteps, ConnectionType
  <2>3. Registry'
    BY <1>t, <1>4 DEF D!ThreadBegins, Registry, OwnSteps, ConnectionType
  <2>4. NextOneWorks'
    BY <1>t, <1>4 DEF D!ThreadBegins, NextOneWorks, Registry, OwnSteps, ConnectionType
  <2> QED
    BY <2>1, <2>2, <2>3, <2>4 DEF ConnectionInv
<1>5. ASSUME NEW i \in ThreadIds, D!ThreadEnds(i) PROVE ConnectionInv'
  <2>1. ConnectionType'
    BY <1>t, <1>5 DEF D!ThreadEnds, ConnectionType
  <2>2. OwnSteps'
    BY <1>t, <1>5 DEF D!ThreadEnds, OwnSteps, ConnectionType
  <2>3. Registry'
    BY <1>t, <1>5 DEF D!ThreadEnds, Registry, OwnSteps, ConnectionType
  <2>4. NextOneWorks'
    BY <1>t, <1>5 DEF D!ThreadEnds, NextOneWorks, Registry, OwnSteps, ConnectionType
  <2> QED
    BY <2>1, <2>2, <2>3, <2>4 DEF ConnectionInv
<1>6. ASSUME NEW i \in ThreadIds, D!NoName(i) PROVE ConnectionInv'
  <2>1. ConnectionType'
    BY <1>t, <1>6 DEF D!NoName, D!Step, ConnectionType
  <2>2. OwnSteps'
    BY <1>t, <1>6 DEF D!NoName, D!Step, OwnSteps, ConnectionType
  <2>3. Registry'
    BY <1>t, <1>6 DEF D!NoName, D!Step, Registry, OwnSteps, ConnectionType
  <2>4. NextOneWorks'
    BY <1>t, <1>6 DEF D!NoName, D!Step, NextOneWorks, Registry, OwnSteps, ConnectionType
  <2> QED
    BY <2>1, <2>2, <2>3, <2>4 DEF ConnectionInv
<1>7. ASSUME NEW i \in ThreadIds, D!Reuse(i) PROVE ConnectionInv'
  <2>1. ConnectionType'
    BY <1>t, <1>7 DEF D!Reuse, D!Step, ConnectionType
  <2>2. OwnSteps'
    BY <1>t, <1>7 DEF D!Reuse, D!Step, OwnSteps, ConnectionType
  <2>3. Registry'
    BY <1>t, <1>7 DEF D!Reuse, D!Step, Registry, OwnSteps, ConnectionType
  <2>4. NextOneWorks'
    BY <1>t, <1>7 DEF D!Reuse, D!Step, NextOneWorks, Registry, OwnSteps, ConnectionType
  <2> QED
    BY <2>1, <2>2, <2>3, <2>4 DEF ConnectionInv
<1>8. ASSUME NEW i \in ThreadIds, D!NotOpen(i) PROVE ConnectionInv'
  <2>1. ConnectionType'
    BY <1>t, <1>8 DEF D!NotOpen, D!Step, ConnectionType
  <2>2. OwnSteps'
    BY <1>t, <1>8 DEF D!NotOpen, D!Step, OwnSteps, ConnectionType
  <2>3. Registry'
    BY <1>t, <1>8 DEF D!NotOpen, D!Step, Registry, OwnSteps, ConnectionType
  <2>4. NextOneWorks'
    BY <1>t, <1>8 DEF D!NotOpen, D!Step, NextOneWorks, Registry, OwnSteps, ConnectionType
  <2> QED
    BY <2>1, <2>2, <2>3, <2>4 DEF ConnectionInv
<1>9. ASSUME NEW i \in ThreadIds, D!Add(i) PROVE ConnectionInv'
  <2>1. ConnectionType'
    BY <1>t, <1>9 DEF D!Add, D!Step, ConnectionType
  <2>2. OwnSteps'
    BY <1>t, <1>9 DEF D!Add, D!Step, OwnSteps, ConnectionType
  <2>3. Registry'
    BY <1>t, <1>9 DEF D!Add, D!Step, Registry, OwnSteps, ConnectionType
  <2>4. NextOneWorks'
    BY <1>t, <1>9 DEF D!Add, D!Step, NextOneWorks, Registry, OwnSteps, ConnectionType
  <2> QED
    BY <2>1, <2>2, <2>3, <2>4 DEF ConnectionInv
<1>10. ASSUME NEW i \in ThreadIds, D!AddFails(i) PROVE ConnectionInv'
  <2>1. ConnectionType'
    BY <1>t, <1>10 DEF D!AddFails, D!Step, ConnectionType
  <2>2. OwnSteps'
    BY <1>t, <1>10 DEF D!AddFails, D!Step, OwnSteps, ConnectionType
  <2>3. Registry'
    BY <1>t, <1>10 DEF D!AddFails, D!Step, Registry, OwnSteps, ConnectionType
  <2>4. NextOneWorks'
    BY <1>t, <1>10 DEF D!AddFails, D!Step, NextOneWorks, Registry, OwnSteps, ConnectionType
  <2> QED
    BY <2>1, <2>2, <2>3, <2>4 DEF ConnectionInv
<1>11. ASSUME NEW i \in ThreadIds, D!InsertName(i) PROVE ConnectionInv'
  <2>1. ConnectionType'
    BY <1>t, <1>11 DEF D!InsertName, D!Step, ConnectionType
  <2>2. OwnSteps'
    BY <1>t, <1>11 DEF D!InsertName, D!Step, OwnSteps, ConnectionType
  <2>3. Registry'
    <3>1. /\ UNCHANGED <<thread, registered, connection, held, alive>> /\ step[i] = "name" /\ i \in alive
          /\ step' = [step EXCEPT ![i] = "query"] /\ m_connectionNames' = m_connectionNames \cup {i}
      BY <1>11 DEF D!InsertName, D!Step
    <3>2. thread[i] # 0
      BY <1>t, <3>1 DEF OwnSteps
    <3>3. registered[i] = thread[i] /\ connection[i] # "none" /\ held[i]
      BY <1>t, <3>1 DEF Registry
    <3>4. ASSUME NEW j \in ThreadIds, j # i
          PROVE  /\ j \in m_connectionNames' <=> j \in m_connectionNames
                 /\ step'[j] = step[j]
      BY <1>t, <3>1, <3>4 DEF ConnectionType
    <3>5. step'[i] = "query"
      BY <1>t, <3>1 DEF ConnectionType
    <3> QED
      BY <1>t, <3>1, <3>2, <3>3, <3>4, <3>5 DEF Registry
  <2>4. NextOneWorks'
    BY <1>t, <1>11 DEF D!InsertName, D!Step, NextOneWorks, Registry, OwnSteps, ConnectionType
  <2> QED
    BY <2>1, <2>2, <2>3, <2>4 DEF ConnectionInv
<1>12. ASSUME NEW i \in ThreadIds, D!Exec(i) PROVE ConnectionInv'
  <2>1. ConnectionType'
    BY <1>t, <1>12 DEF D!Exec, ConnectionType
  <2>2. OwnSteps'
    BY <1>t, <1>12 DEF D!Exec, OwnSteps, ConnectionType
  <2>3. Registry'
    BY <1>t, <1>12 DEF D!Exec, Registry, OwnSteps, ConnectionType
  <2>4. NextOneWorks'
    BY <1>t, <1>12 DEF D!Exec, NextOneWorks, Registry, OwnSteps, ConnectionType
  <2> QED
    BY <2>1, <2>2, <2>3, <2>4 DEF ConnectionInv
<1>13. CASE D!Select \/ UNCHANGED D!databaseVars
  BY <1>t, <1>13 DEF D!Select, D!Where, D!ExecSelect, D!Set, D!ExecUpdate, D!databaseVars, D!connectionVars,
     ConnectionInv, ConnectionType, OwnSteps, Registry, NextOneWorks
<1> QED
  BY <1>1, <1>2, <1>3, <1>4, <1>5, <1>6, <1>7, <1>8, <1>9, <1>10, <1>11, <1>12, <1>13
     DEF D!Next, D!Connect

LEMMA ConnectionAlways == D!Spec => []ConnectionInv
  BY ConnectionInit, ConnectionNext, PTL DEF D!Spec

\* With the server up a thread loses one statement at most
\* (DatabaseConnections.cpp:46-56).
THEOREM StatementLostOnce == D!Spec => []D!OneStatementLost
<1>1. ConnectionInv => D!OneStatementLost
  BY DEF ConnectionInv, NextOneWorks, D!OneStatementLost
<1> QED
  BY <1>1, ConnectionAlways, PTL

\* The names known are those of connections that Qt has
\* (DatabaseConnections.cpp:58, :72).
THEOREM NamesHaveConnections == D!Spec => []D!NamesRegistered
<1>1. ConnectionInv => D!NamesRegistered
  BY DEF ConnectionInv, Registry, D!NamesRegistered
<1> QED
  BY <1>1, ConnectionAlways, PTL

-----------------------------------------------------------------------------
(* The query of Database.                                                   *)

AnswerInv == /\ m_conditions \in Seq(D!Conditions)
             /\ updated # <<>> => m_setValues # <<>>
             /\ D!AnswersWhatIsAsked

\* Where no field is compared twice, each condition has its own value.
LEMMA BoundAsAsked ==
  ASSUME m_conditions \in Seq(D!Conditions), ~D!ComparedTwice, NEW i \in DOMAIN m_conditions
  PROVE  D!BoundValue(m_conditions, i) = m_conditions[i].value
<1> DEFINE On == {j \in DOMAIN m_conditions : m_conditions[j].field = m_conditions[i].field}
           Last(j) == /\ m_conditions[j].field = m_conditions[i].field
                      /\ \A k \in DOMAIN m_conditions :
                           m_conditions[k].field = m_conditions[i].field => k <= j
<1>1. DOMAIN m_conditions = 1..Len(m_conditions) /\ Len(m_conditions) \in Nat
  OBVIOUS
<1>2. On \in SUBSET (1..Len(m_conditions)) /\ On # {}
  BY <1>1
<1>3. \E j \in On : \A k \in On : k <= j
  BY <1>1, <1>2, LastOf
<1>4. \E j \in DOMAIN m_conditions : Last(j)
  BY <1>3
<1> DEFINE last == CHOOSE j \in DOMAIN m_conditions : Last(j)
<1>5. last \in DOMAIN m_conditions /\ m_conditions[last].field = m_conditions[i].field
  BY <1>4
<1>6. D!BoundValue(m_conditions, i) = m_conditions[last].value
  BY DEF D!BoundValue
<1> HIDE DEF last
<1> QED
  BY <1>5, <1>6 DEF D!ComparedTwice

LEMMA BoundAreAsked ==
  ASSUME m_conditions \in Seq(D!Conditions), ~D!ComparedTwice
  PROVE  [i \in DOMAIN m_conditions |-> D!BoundValue(m_conditions, i)]
           = [i \in DOMAIN m_conditions |-> m_conditions[i].value]
  BY BoundAsAsked

LEMMA AnswerInit == D!Init => AnswerInv
  BY DEF D!Init, AnswerInv, D!AnswersWhatIsAsked

LEMMA AnswerStep == AnswerInv /\ D!Select => AnswerInv'
<1> SUFFICES ASSUME AnswerInv, D!Select PROVE AnswerInv'
  OBVIOUS
<1> DEFINE asked == [i \in DOMAIN m_conditions |-> m_conditions[i].value]
           bound == [i \in DOMAIN m_conditions |-> D!BoundValue(m_conditions, i)]
<1>1. /\ m_conditions \in Seq(D!Conditions) /\ (updated # <<>> => m_setValues # <<>>)
      /\ D!AnswersWhatIsAsked
  BY DEF AnswerInv
<1>2. D!ComparedTwice \/ bound = asked
  BY <1>1, BoundAreAsked
<1>3. CASE D!Where
  <2>1. /\ m_conditions' \in Seq(D!Conditions) /\ updated' = <<>> /\ rows' = <<>>
        /\ m_setValues' = m_setValues
    BY <1>1, <1>3 DEF D!Where
  <2> QED
    BY <2>1 DEF AnswerInv, D!AnswersWhatIsAsked
<1>4. CASE D!ExecSelect
  <2>1. /\ rows' = <<{r \in D!Rows : D!Satisfies(r, m_conditions, bound)}>> /\ updated = <<>>
        /\ UNCHANGED <<m_conditions, m_setValues, updated>>
    BY <1>1, <1>4 DEF D!ExecSelect
  <2>2. D!ComparedTwice \/ rows' = <<{r \in D!Rows : D!Satisfies(r, m_conditions, asked)}>>
    BY <1>2, <2>1
  <2>3. asked' = asked /\ D!ComparedTwice' = D!ComparedTwice
    BY <2>1 DEF D!ComparedTwice
  <2> HIDE DEF asked, bound
  <2>4. D!AnswersWhatIsAsked'
    BY <2>1, <2>2, <2>3 DEF D!AnswersWhatIsAsked, asked
  <2> QED
    BY <1>1, <2>1, <2>4 DEF AnswerInv
<1>5. CASE D!Set
  <2>1. m_conditions = <<>> /\ m_setValues = <<>> /\ rows = <<>> /\ updated = <<>>
        /\ UNCHANGED <<m_conditions, rows, updated>>
    BY <1>1, <1>5 DEF D!Set
  <2> QED
    BY <1>1, <2>1 DEF AnswerInv, D!AnswersWhatIsAsked
<1>6. CASE D!ExecUpdate
  <2> DEFINE meant(r) == IF ~D!Satisfies(r, m_conditions, asked) THEN r
                         ELSE [f \in Fields |-> IF f \in DOMAIN m_setValues THEN m_setValues[f] ELSE r[f]]
  <2>1. /\ m_setValues # <<>> /\ UNCHANGED <<m_conditions, rows, m_setValues>>
        /\ updated' = [r \in D!Rows |->
                        IF ~D!Satisfies(r, m_conditions, bound) THEN r
                        ELSE [f \in Fields |-> IF f \in DOMAIN m_setValues THEN m_setValues[f] ELSE r[f]]]
    BY <1>6 DEF D!ExecUpdate, D!SetBound
  <2>2. D!ComparedTwice \/ \A r \in D!Rows : updated'[r] = meant(r)
    BY <1>2, <2>1
  <2>3. D!ComparedTwice' = D!ComparedTwice
    BY <2>1 DEF D!ComparedTwice
  <2>4. D!AnswersWhatIsAsked'
    BY <1>1, <2>1, <2>2, <2>3 DEF D!AnswersWhatIsAsked
  <2> QED
    BY <1>1, <2>1, <2>4 DEF AnswerInv
<1> QED
  BY <1>3, <1>4, <1>5, <1>6 DEF D!Select

-----------------------------------------------------------------------------
(* The rows of ArcDetector, and the voltages still to be handled.           *)

\* The elements of s weigh n together, by its partial sums.
PartialSums(s, w, g) ==
  /\ g \in [0..Len(s) -> Nat] /\ g[0] = 0
  /\ \A i \in 1..Len(s) : g[i] = g[i - 1] + w[s[i]]

SumIs(s, w, n) == \E g : PartialSums(s, w, g) /\ g[Len(s)] = n

LEMMA SumNone == \A w, n : SumIs(<<>>, w, n) <=> n = 0
<1>1. Len(<<>>) = 0 /\ 1..0 = {} /\ 0..0 = {0}
  OBVIOUS
<1>2. \A w : PartialSums(<<>>, w, [i \in 0..0 |-> 0])
  BY <1>1 DEF PartialSums
<1> QED
  BY <1>1, <1>2 DEF SumIs, PartialSums

LEMMA SumConcat ==
  ASSUME NEW E, NEW w \in [E -> Nat], NEW a \in Seq(E), NEW b \in Seq(E), NEW n, NEW m,
         SumIs(a, w, n), SumIs(b, w, m)
  PROVE  SumIs(a \o b, w, n + m)
<1>1. PICK g : PartialSums(a, w, g) /\ g[Len(a)] = n
  BY DEF SumIs
<1>2. PICK h : PartialSums(b, w, h) /\ h[Len(b)] = m
  BY DEF SumIs
<1> DEFINE c == a \o b
           k == Len(a)
           l == Len(b)
           f == [i \in 0..(k + l) |-> IF i <= k THEN g[i] ELSE n + h[i - k]]
<1>3. k \in Nat /\ l \in Nat
  OBVIOUS
<1>4. c \in Seq(E) /\ Len(c) = k + l /\ \A i \in 1..(k + l) : c[i] = IF i <= k THEN a[i] ELSE b[i - k]
  BY TwoOf
<1>5. /\ g \in [0..k -> Nat] /\ g[0] = 0 /\ g[k] = n
      /\ h \in [0..l -> Nat] /\ h[0] = 0 /\ h[l] = m
  BY <1>1, <1>2 DEF PartialSums
<1>6. \A i \in 1..k : g[i] = g[i - 1] + w[a[i]]
  BY <1>1 DEF PartialSums
<1>7. \A i \in 1..l : h[i] = h[i - 1] + w[b[i]]
  BY <1>2 DEF PartialSums
<1> HIDE DEF c, k, l
<1>8. n \in Nat /\ m \in Nat
  BY <1>3, <1>5
<1>9. f \in [0..(k + l) -> Nat] /\ f[0] = 0
  <2>1. ASSUME NEW i \in 0..(k + l) PROVE f[i] \in Nat
    <3>1. CASE i <= k
      BY <1>3, <1>5, <3>1
    <3>2. CASE i > k
      <4>1. i - k \in 0..l
        BY <1>3, <3>2
      <4> QED
        BY <1>3, <1>5, <1>8, <3>2, <4>1
    <3> QED
      BY <1>3, <3>1, <3>2
  <2> QED
    BY <1>3, <1>5, <2>1
<1>10. ASSUME NEW i \in 1..(k + l) PROVE f[i] = f[i - 1] + w[c[i]]
  <2>0. i - 1 \in 0..(k + l) /\ i \in 0..(k + l)
    BY <1>3
  <2>1. CASE i <= k
    <3>1. i \in 1..k /\ i - 1 <= k
      BY <1>3, <2>1
    <3> QED
      BY <1>3, <1>4, <1>6, <2>0, <2>1, <3>1
  <2>2. CASE i = k + 1
    <3>1. i - k = 1 /\ 1 \in 1..l /\ i - 1 = k /\ ~(i <= k)
      BY <1>3, <2>2
    <3>5. f[i] = n + h[i - k] /\ f[i - 1] = g[i - 1] /\ c[i] = b[i - k]
      <4>1. i - 1 <= k
        BY <1>3, <2>2
      <4> QED
        BY <1>4, <2>0, <3>1, <4>1
    <3>2. f[i] = n + h[1] /\ f[i - 1] = n /\ c[i] = b[1]
      BY <1>5, <3>1, <3>5
    <3>3. h[1] = h[0] + w[b[1]] /\ 1 - 1 = 0
      BY <1>7, <3>1
    <3>4. h[1] \in Nat
      BY <1>3, <1>5, <3>1
    <3>6. h[1] = w[b[1]]
      <4>1. w[b[1]] \in Nat
        <5>1. b[1] \in E
          BY <3>1 DEF l
        <5> QED
          BY <5>1
      <4> QED
        BY <1>5, <3>3, <4>1
    <3> QED
      BY <3>2, <3>6
  <2>3. CASE i > k + 1
    <3>1. i - k \in 1..l /\ (i - 1) - k = (i - k) - 1 /\ ~(i <= k) /\ ~(i - 1 <= k) /\ (i - k) - 1 \in 0..l
      BY <1>3, <2>3
    <3>2. f[i] = n + h[i - k] /\ f[i - 1] = n + h[(i - k) - 1] /\ c[i] = b[i - k]
      BY <1>4, <2>0, <3>1
    <3>3. h[i - k] = h[(i - k) - 1] + w[b[i - k]]
      BY <1>7, <3>1
    <3>4. b[i - k] \in E
      BY <3>1 DEF l
    <3>5. h[(i - k) - 1] \in Nat /\ w[b[i - k]] \in Nat
      BY <1>5, <3>1, <3>4
    <3> QED
      BY <1>8, <3>2, <3>3, <3>5
  <2> QED
    BY <1>3, <2>1, <2>2, <2>3
<1>11. f[k + l] = n + m
  <2>1. CASE l = 0
    BY <1>3, <1>5, <1>8, <2>1
  <2>2. CASE l # 0
    BY <1>3, <1>5, <2>2
  <2> QED
    BY <2>1, <2>2
<1> HIDE DEF f
<1>12. PartialSums(c, w, f) /\ f[Len(c)] = n + m
  BY <1>4, <1>9, <1>10, <1>11 DEF PartialSums
<1> QED
  BY <1>12 DEF SumIs, c

LEMMA SumOne ==
  ASSUME NEW E, NEW w \in [E -> Nat], NEW x \in E PROVE SumIs(<<x>>, w, w[x])
<1> DEFINE g == [i \in 0..1 |-> IF i = 0 THEN 0 ELSE w[x]]
<1>1. Len(<<x>>) = 1 /\ <<x>>[1] = x /\ 1..1 = {1} /\ 1 - 1 = 0 /\ w[x] \in Nat
  OBVIOUS
<1>2. g \in [0..1 -> Nat] /\ g[0] = 0 /\ g[1] = w[x]
  BY <1>1
<1> HIDE DEF g
<1>3. PartialSums(<<x>>, w, g)
  BY <1>1, <1>2 DEF PartialSums
<1> QED
  BY <1>1, <1>2, <1>3 DEF SumIs

LEMMA SumAppend ==
  ASSUME NEW E, NEW w \in [E -> Nat], NEW s \in Seq(E), NEW x \in E, NEW n, SumIs(s, w, n)
  PROVE  SumIs(Append(s, x), w, n + w[x])
<1>1. Append(s, x) = s \o <<x>> /\ <<x>> \in Seq(E)
  BY AppendIs
<1> QED
  BY <1>1, SumOne, SumConcat

\* The first element taken away.
LEMMA SumTail ==
  ASSUME NEW E, NEW w \in [E -> Nat], NEW s \in Seq(E), s # <<>>, NEW n, SumIs(s, w, n)
  PROVE  /\ Head(s) \in E /\ Tail(s) \in Seq(E) /\ n \in Nat /\ n - w[Head(s)] \in Nat
         /\ SumIs(Tail(s), w, n - w[Head(s)])
<1> DEFINE k == Len(s) - 1
           t == Tail(s)
<1>1. /\ k \in Nat /\ Len(s) = k + 1 /\ t \in Seq(E) /\ Len(t) = k
      /\ \A i \in 1..k : t[i] = s[i + 1] /\ i + 1 \in 1..(k + 1)
  OBVIOUS
<1>2. Head(s) = s[1] /\ s[1] \in E /\ w[s[1]] \in Nat
  OBVIOUS
<1>3. PICK g : PartialSums(s, w, g) /\ g[Len(s)] = n
  BY DEF SumIs
<1>5. /\ g \in [0..(k + 1) -> Nat] /\ g[0] = 0 /\ g[k + 1] = n
      /\ \A i \in 1..(k + 1) : g[i] = g[i - 1] + w[s[i]]
  BY <1>1, <1>3 DEF PartialSums
<1>6. g[1] = w[s[1]]
  <2>1. 1 \in 1..(k + 1) /\ 1 - 1 = 0
    BY <1>1
  <2> QED
    BY <1>2, <1>5, <2>1
<1> HIDE DEF k, t
<1>7. \A i \in 1..(k + 1) : w[s[i]] \in Nat /\ g[i] \in Nat /\ g[i - 1] \in Nat
  <2> SUFFICES ASSUME NEW i \in 1..(k + 1) PROVE w[s[i]] \in Nat /\ g[i] \in Nat /\ g[i - 1] \in Nat
    OBVIOUS
  <2>1. i \in 1..Len(s) /\ i \in 0..(k + 1) /\ i - 1 \in 0..(k + 1)
    BY <1>1
  <2> QED
    BY <1>5, <2>1
<1> DEFINE Behind == {j \in Nat : j <= k => g[j + 1] - w[s[1]] \in Nat}
<1>8. Nat \subseteq Behind
  <2>1. 0 \in Behind
    BY <1>1, <1>2, <1>6
  <2>2. ASSUME NEW j \in Nat, j \in Behind PROVE j + 1 \in Behind
    <3> SUFFICES ASSUME j + 1 <= k PROVE g[j + 2] - w[s[1]] \in Nat
      BY <2>2
    <3>1. g[j + 1] - w[s[1]] \in Nat /\ j + 2 \in 1..(k + 1) /\ (j + 2) - 1 = j + 1
      BY <1>1, <2>2
    <3>2. g[j + 2] = g[j + 1] + w[s[j + 2]]
      BY <1>5, <3>1
    <3> QED
      BY <1>2, <1>7, <3>1, <3>2
  <2> HIDE DEF Behind
  <2> QED
    BY <2>1, <2>2, NatSet
<1> DEFINE f == [i \in 0..k |-> g[i + 1] - w[s[1]]]
<1>9. f \in [0..k -> Nat] /\ f[0] = 0 /\ f[k] = n - w[s[1]]
  <2>1. ASSUME NEW i \in 0..k PROVE g[i + 1] - w[s[1]] \in Nat
    BY <1>1, <1>8
  <2>2. f \in [0..k -> Nat]
    BY <2>1
  <2>3. 0 \in 0..k /\ k \in 0..k /\ 0 + 1 = 1
    BY <1>1
  <2>4. f[0] = g[1] - w[s[1]] /\ f[k] = g[k + 1] - w[s[1]]
    BY <2>3
  <2> QED
    BY <1>2, <1>5, <1>6, <2>2, <2>4
<1>10. ASSUME NEW i \in 1..k PROVE f[i] = f[i - 1] + w[t[i]]
  <2>1. i + 1 \in 1..(k + 1) /\ (i + 1) - 1 = i /\ i - 1 \in 0..k /\ i \in 0..k /\ (i - 1) + 1 = i
        /\ i \in 1..(k + 1)
    BY <1>1
  <2>2. g[i + 1] = g[i] + w[s[i + 1]] /\ t[i] = s[i + 1]
    BY <1>1, <1>5, <2>1
  <2>3. f[i] = g[i + 1] - w[s[1]] /\ f[i - 1] = g[i] - w[s[1]]
    BY <2>1
  <2> QED
    BY <1>2, <1>7, <2>1, <2>2, <2>3
<1> HIDE DEF f, Behind
<1>11. PartialSums(t, w, f) /\ f[Len(t)] = n - w[s[1]]
  BY <1>1, <1>9, <1>10 DEF PartialSums
<1>12. n \in Nat /\ n - w[s[1]] \in Nat
  BY <1>1, <1>5, <1>9
<1> QED
  BY <1>1, <1>2, <1>11, <1>12 DEF SumIs, t

\* As often the same, which weighs one or nothing.
LEMMA SumRepeated ==
  ASSUME NEW E, NEW w \in [E -> 0..1], NEW x \in E, NEW m \in Nat
  PROVE  SumIs([k \in 1..m |-> x], w, IF w[x] = 1 THEN m ELSE 0)
<1> DEFINE s == [k \in 1..m |-> x]
           g == [i \in 0..m |-> IF w[x] = 1 THEN i ELSE 0]
<1>1. s \in Seq(E) /\ Len(s) = m /\ \A i \in 1..m : s[i] = x
  OBVIOUS
<1>2. w[x] \in 0..1
  OBVIOUS
<1>3. g \in [0..m -> Nat] /\ g[0] = 0 /\ g[m] = IF w[x] = 1 THEN m ELSE 0
  OBVIOUS
<1>4. ASSUME NEW i \in 1..m PROVE g[i] = g[i - 1] + w[x]
  BY <1>2
<1> HIDE DEF s, g
<1>5. PartialSums(s, w, g)
  BY <1>1, <1>3, <1>4 DEF PartialSums
<1> QED
  BY <1>1, <1>3, <1>5 DEF SumIs, s

\* f is the recursive function that adds from c on.
AddsUp(f, s, w, c) == f = [i \in 0..Len(s) |-> IF i = 0 THEN c ELSE f[i - 1] + w[s[i]]]

\* What such a function adds up to, and that there is one.
LEMMA OneSum ==
  ASSUME NEW E, NEW w \in [E -> Nat], NEW s \in Seq(E), NEW n, SumIs(s, w, n), NEW c \in Nat
  PROVE  /\ \E f : AddsUp(f, s, w, c)
         /\ \A f : AddsUp(f, s, w, c) => f[Len(s)] = n + c
<1>1. PICK g : PartialSums(s, w, g) /\ g[Len(s)] = n
  BY DEF SumIs
<1> DEFINE k == Len(s)
           h == [i \in 0..k |-> g[i] + c]
<1>2. /\ k \in Nat /\ g \in [0..k -> Nat] /\ g[0] = 0 /\ g[k] = n
      /\ \A i \in 1..k : g[i] = g[i - 1] + w[s[i]] /\ w[s[i]] \in Nat
  BY <1>1 DEF PartialSums
<1> HIDE DEF k
<1>3. h = [i \in 0..k |-> IF i = 0 THEN c ELSE h[i - 1] + w[s[i]]]
  <2>1. ASSUME NEW i \in 0..k PROVE h[i] = IF i = 0 THEN c ELSE h[i - 1] + w[s[i]]
    <3>1. CASE i = 0
      BY <1>2, <3>1
    <3>2. CASE i # 0
      <4>1. i \in 1..k /\ i - 1 \in 0..k
        BY <1>2, <3>2
      <4>2. g[i] = g[i - 1] + w[s[i]] /\ g[i - 1] \in Nat /\ w[s[i]] \in Nat
        BY <1>2, <4>1
      <4>3. h[i] = g[i] + c /\ h[i - 1] = g[i - 1] + c
        BY <4>1
      <4> QED
        BY <3>2, <4>2, <4>3
    <3> QED
      BY <3>1, <3>2
  <2>2. h = [i \in 0..k |-> h[i]]
    OBVIOUS
  <2> HIDE DEF h
  <2> QED
    BY <2>1, <2>2
<1> HIDE DEF h
<1>8. \E f : AddsUp(f, s, w, c)
  BY <1>3 DEF k, AddsUp
<1> SUFFICES ASSUME NEW F, AddsUp(F, s, w, c) PROVE F[k] = n + c
  BY <1>8 DEF k
<1>4. F = [i \in 0..k |-> IF i = 0 THEN c ELSE F[i - 1] + w[s[i]]]
  BY DEF AddsUp, k
<1>9. \A i \in 0..k : F[i] = IF i = 0 THEN c ELSE F[i - 1] + w[s[i]]
  BY <1>4
<1> DEFINE Same == {i \in Nat : i <= k => F[i] = g[i] + c}
<1>5. Nat \subseteq Same
  <2>1. 0 \in Same
    <3>1. F[0] = c
      BY <1>2, <1>9
    <3> QED
      BY <1>2, <3>1
  <2>2. ASSUME NEW i \in Nat, i \in Same PROVE i + 1 \in Same
    <3> SUFFICES ASSUME i + 1 <= k PROVE F[i + 1] = g[i + 1] + c
      BY <2>2
    <3>1. i + 1 \in 1..k /\ i + 1 \in 0..k /\ (i + 1) - 1 = i /\ i \in 0..k /\ i + 1 # 0
      BY <1>2, <2>2
    <3>2. F[i + 1] = F[i] + w[s[i + 1]]
      BY <1>9, <3>1
    <3>3. g[i + 1] = g[i] + w[s[i + 1]] /\ g[i] \in Nat /\ w[s[i + 1]] \in Nat
      BY <1>2, <3>1
    <3>4. F[i] = g[i] + c
      BY <1>2, <2>2, <3>1
    <3> QED
      BY <3>2, <3>3, <3>4
  <2> HIDE DEF Same
  <2> QED
    BY <2>1, <2>2, NatSet
<1>6. k \in Same
  BY <1>2, <1>5
<1>7. k <= k
  BY <1>2
<1> QED
  BY <1>2, <1>6, <1>7 DEF k

ArcRows == [number : Nat, arccount : Nat]
Weight == [r \in ArcRows |-> r.arccount]
Above == [v \in Voltages |-> IF A!CheckArcOccurrence(v) THEN 1 ELSE 0]

ArcType ==
  /\ due \in Seq(Voltages) /\ submit \in BOOLEAN /\ tasks \in Nat
  /\ ctx \in [known : BOOLEAN, inProgress : BOOLEAN, arcCount : Nat]
  /\ stored \in Seq(ArcRows) /\ lostRows \in Seq(ArcRows) /\ m_arc_Vector \in Seq(ArcRows)
  /\ voltages \in [all : Nat, arcs : Seq(Nat)]
  /\ \A i \in DOMAIN voltages.arcs : voltages.arcs[i] \in 1..voltages.all

\* The rows are numbered, each with a number of its own.
Numbers(s) == {s[i].number : i \in DOMAIN s}
NumberedOnce(s) == \A i, j \in DOMAIN s : s[i].number = s[j].number => i = j

RowsApart ==
  /\ NumberedOnce(stored) /\ NumberedOnce(lostRows) /\ NumberedOnce(m_arc_Vector)
  /\ Numbers(stored) \cap Numbers(lostRows) = {}
  /\ (Numbers(stored) \cup Numbers(lostRows)) \cap Numbers(m_arc_Vector) = {}
  /\ Numbers(stored) \cup Numbers(lostRows) \cup Numbers(m_arc_Vector)
       \subseteq 1..(Len(stored) + Len(lostRows) + Len(m_arc_Vector))
  /\ m_arc_Vector # <<>> => tasks > 0 \/ submit \/ kept

\* Before the first voltage is handled the counting has not begun, and it waits as
\* the head of those due.
Begins ==
  /\ ctx.inProgress => ctx.known
  /\ ~ctx.inProgress => ctx.arcCount = 0
  /\ ctx.known => voltages.all > 0
  /\ ~ctx.known => IF voltages.all = 0 \/ Devices = 0 THEN due = <<>>
                   ELSE /\ due # <<>>
                        /\ A!Dropped = IF A!CheckArcOccurrence(Head(due)) THEN 1 ELSE 0

\* What is in the rows, in the arc under way and still due makes up all arcs.
Together(n1, n2, n3, d) ==
  /\ SumIs(stored, Weight, n1) /\ SumIs(lostRows, Weight, n2) /\ SumIs(m_arc_Vector, Weight, n3)
  /\ SumIs(due, Above, d)
  /\ n1 + n2 + n3 + ctx.arcCount + d
       = Devices * Len(voltages.arcs) - IF ctx.known THEN A!Dropped ELSE 0

Counting == \E n1, n2, n3, d \in Nat : Together(n1, n2, n3, d)

ArcInv == ArcType /\ RowsApart /\ Begins /\ Counting

LEMMA Weights ==
  /\ Weight \in [ArcRows -> Nat] /\ Above \in [Voltages -> Nat] /\ Above \in [Voltages -> 0..1]
  /\ \A r \in ArcRows : Weight[r] = r.arccount
  /\ \A v \in Voltages : Above[v] = IF A!CheckArcOccurrence(v) THEN 1 ELSE 0
<1>1. \A r \in ArcRows : r.arccount \in Nat
  BY DEF ArcRows
<1> QED
  BY <1>1 DEF Weight, Above

LEMMA ArcInit == A!ArcAssumption /\ A!Init => ArcInv
<1> SUFFICES ASSUME A!ArcAssumption, A!Init PROVE ArcInv
  OBVIOUS
<1>1. /\ due = <<>> /\ ctx = [known |-> FALSE, inProgress |-> FALSE, arcCount |-> 0] /\ submit = FALSE
      /\ m_arc_Vector = <<>> /\ tasks = 0 /\ stored = <<>> /\ lostRows = <<>>
      /\ voltages = [all |-> 0, arcs |-> <<>>]
  BY DEF A!Init, A!NoEvent
<1>2. Numbers(<<>>) = {} /\ NumberedOnce(<<>>)
  BY DEF Numbers, NumberedOnce
<1>3. ArcType
  <2>1. <<>> \in Seq(Voltages) /\ <<>> \in Seq(ArcRows) /\ <<>> \in Seq(Nat) /\ DOMAIN <<>> = {}
    OBVIOUS
  <2>2. ctx \in [known : BOOLEAN, inProgress : BOOLEAN, arcCount : Nat]
    BY <1>1
  <2>3. voltages \in [all : Nat, arcs : Seq(Nat)] /\ voltages.arcs = <<>>
    BY <1>1, <2>1
  <2> QED
    BY <1>1, <2>1, <2>2, <2>3 DEF ArcType
<1>4. RowsApart /\ Begins
  BY <1>1, <1>2 DEF RowsApart, Begins
<1>5. Together(0, 0, 0, 0)
  <2>1. Devices * 0 = 0
    BY DEF A!ArcAssumption
  <2> QED
    BY <1>1, <2>1, SumNone DEF Together
<1> QED
  BY <1>3, <1>4, <1>5 DEF ArcInv, Counting

\* Rows after rows.
LEMMA RowsConcat ==
  ASSUME NEW a \in Seq(ArcRows), NEW b \in Seq(ArcRows)
  PROVE  /\ Numbers(a \o b) = Numbers(a) \cup Numbers(b)
         /\ NumberedOnce(a) /\ NumberedOnce(b) /\ Numbers(a) \cap Numbers(b) = {} => NumberedOnce(a \o b)
<1> DEFINE c == a \o b
           k == Len(a)
           l == Len(b)
<1>1. /\ c \in Seq(ArcRows) /\ Len(c) = k + l /\ k \in Nat /\ l \in Nat
      /\ \A i \in 1..(k + l) : c[i] = IF i <= k THEN a[i] ELSE b[i - k]
  BY TwoOf
<1>2. DOMAIN a = 1..k /\ DOMAIN b = 1..l
  OBVIOUS
<1> HIDE DEF c, k, l
<1>3. DOMAIN c = 1..(k + l)
  BY <1>1
<1>4. \A i \in 1..k : i \in 1..(k + l) /\ c[i] = a[i]
  BY <1>1
<1>5. ASSUME NEW i \in 1..l PROVE i + k \in 1..(k + l) /\ c[i + k] = b[i]
  <2>1. i + k \in 1..(k + l) /\ ~(i + k <= k) /\ (i + k) - k = i
    BY <1>1
  <2> QED
    BY <1>1, <2>1
<1>6. ASSUME NEW i \in 1..(k + l)
      PROVE  \/ i \in 1..k /\ c[i] = a[i]
             \/ ~(i <= k) /\ i - k \in 1..l /\ c[i] = b[i - k]
  BY <1>1
<1>7. Numbers(c) = Numbers(a) \cup Numbers(b)
  <2>1. ASSUME NEW i \in 1..(k + l) PROVE c[i].number \in Numbers(a) \cup Numbers(b)
    BY <1>2, <1>6 DEF Numbers
  <2>2. ASSUME NEW i \in 1..k PROVE a[i].number \in Numbers(c)
    BY <1>3, <1>4 DEF Numbers
  <2>3. ASSUME NEW i \in 1..l PROVE b[i].number \in Numbers(c)
    BY <1>3, <1>5 DEF Numbers
  <2>4. Numbers(c) \subseteq Numbers(a) \cup Numbers(b)
    BY <1>3, <2>1 DEF Numbers
  <2>5. Numbers(a) \subseteq Numbers(c) /\ Numbers(b) \subseteq Numbers(c)
    BY <1>2, <2>2, <2>3 DEF Numbers
  <2> QED
    BY <2>4, <2>5
<1>8. ASSUME NumberedOnce(a), NumberedOnce(b), Numbers(a) \cap Numbers(b) = {} PROVE NumberedOnce(c)
  <2> SUFFICES ASSUME NEW i \in 1..(k + l), NEW j \in 1..(k + l), c[i].number = c[j].number PROVE i = j
    BY <1>3 DEF NumberedOnce
  <2>1. \A x \in 1..k : a[x].number \in Numbers(a)
    BY <1>2 DEF Numbers
  <2>2. \A y \in 1..l : b[y].number \in Numbers(b)
    BY <1>2 DEF Numbers
  <2>3. CASE i \in 1..k /\ c[i] = a[i] /\ j \in 1..k /\ c[j] = a[j]
    BY <1>2, <1>8, <2>3 DEF NumberedOnce
  <2>4. CASE i - k \in 1..l /\ c[i] = b[i - k] /\ j - k \in 1..l /\ c[j] = b[j - k]
    <3>1. i - k = j - k
      BY <1>2, <1>8, <2>4 DEF NumberedOnce
    <3> QED
      BY <1>1, <3>1
  <2>5. CASE i \in 1..k /\ c[i] = a[i] /\ j - k \in 1..l /\ c[j] = b[j - k]
    BY <1>8, <2>1, <2>2, <2>5
  <2>6. CASE i - k \in 1..l /\ c[i] = b[i - k] /\ j \in 1..k /\ c[j] = a[j]
    BY <1>8, <2>1, <2>2, <2>6
  <2>7. \/ i \in 1..k /\ c[i] = a[i]
        \/ ~(i <= k) /\ i - k \in 1..l /\ c[i] = b[i - k]
    BY <1>6
  <2>8. \/ j \in 1..k /\ c[j] = a[j]
        \/ ~(j <= k) /\ j - k \in 1..l /\ c[j] = b[j - k]
    BY <1>6
  <2> QED
    BY <2>3, <2>4, <2>5, <2>6, <2>7, <2>8
<1> QED
  BY <1>7, <1>8 DEF c

LEMMA NoNumbers == Numbers(<<>>) = {} /\ NumberedOnce(<<>>) /\ Len(<<>>) = 0 /\ <<>> \in Seq(ArcRows)
  BY DEF Numbers, NumberedOnce

LEMMA RowsKept ==
  ASSUME RowsApart, UNCHANGED <<m_arc_Vector, stored, lostRows>>,
         m_arc_Vector # <<>> => tasks' > 0 \/ submit' \/ kept'
  PROVE  RowsApart'
<1>1. /\ Numbers(stored)' = Numbers(stored) /\ Numbers(lostRows)' = Numbers(lostRows)
      /\ Numbers(m_arc_Vector)' = Numbers(m_arc_Vector)
  BY DEF Numbers
<1>2. /\ NumberedOnce(stored)' = NumberedOnce(stored) /\ NumberedOnce(lostRows)' = NumberedOnce(lostRows)
      /\ NumberedOnce(m_arc_Vector)' = NumberedOnce(m_arc_Vector)
  BY DEF NumberedOnce
<1> QED
  BY <1>1, <1>2 DEF RowsApart

LEMMA ArcTold == ASSUME A!ArcAssumption, ArcInv, NEW v \in Voltages, A!OnVoltageReceived(v) PROVE ArcInv'
<1> DEFINE more == [k \in 1..Devices |-> v]
           above == A!CheckArcOccurrence(v)
           arcs == voltages.arcs
           arcs1 == voltages'.arcs
<1>1. /\ due' = due \o more
      /\ voltages' = [all |-> voltages.all + 1,
                      arcs |-> IF above THEN Append(arcs, voltages.all + 1) ELSE arcs]
      /\ UNCHANGED <<ctx, submit, m_arc_Vector, tasks, stored, lostRows, kept>>
  BY DEF A!OnVoltageReceived
<1>2. ArcType /\ RowsApart /\ Begins /\ Counting /\ Devices \in Nat
  BY DEF ArcInv, A!ArcAssumption
<1>3. /\ due \in Seq(Voltages) /\ voltages.all \in Nat /\ arcs \in Seq(Nat) /\ Len(arcs) \in Nat
      /\ \A i \in DOMAIN arcs : arcs[i] \in 1..voltages.all
      /\ ctx \in [known : BOOLEAN, inProgress : BOOLEAN, arcCount : Nat] /\ Len(due) \in Nat
  BY <1>2 DEF ArcType
<1>4. more \in Seq(Voltages) /\ Len(more) = Devices /\ \A i \in 1..Devices : more[i] = v
  BY <1>2
<1>m. Devices = 0 => more = <<>>
  BY <1>4
<1> HIDE DEF more
<1>5. /\ due' \in Seq(Voltages) /\ Len(due') = Len(due) + Devices
      /\ \A i \in 1..(Len(due) + Devices) : due'[i] = IF i <= Len(due) THEN due[i] ELSE more[i - Len(due)]
  BY <1>1, <1>3, <1>4, TwoOf
<1>6. voltages'.all = voltages.all + 1 /\ arcs1 = IF above THEN Append(arcs, voltages.all + 1) ELSE arcs
  BY <1>1
<1> HIDE DEF arcs, arcs1
<1>7. /\ arcs1 \in Seq(Nat) /\ Len(arcs1) = Len(arcs) + IF above THEN 1 ELSE 0
      /\ \A i \in 1..Len(arcs) : arcs1[i] = arcs[i]
      /\ above => arcs1[Len(arcs) + 1] = voltages.all + 1
  BY <1>3, <1>6
<1>8. ArcType'
  <2>1. ASSUME NEW i \in DOMAIN arcs1 PROVE arcs1[i] \in 1..voltages'.all
    <3>0. i \in 1..Len(arcs1)
      BY <1>7
    <3>1. i \in 1..Len(arcs) \/ (above /\ i = Len(arcs) + 1)
      BY <1>3, <1>7, <3>0
    <3>2. CASE i \in 1..Len(arcs)
      <4>1. i \in DOMAIN arcs
        BY <1>3, <3>2
      <4>2. arcs[i] \in 1..voltages.all /\ arcs1[i] = arcs[i]
        BY <1>3, <1>7, <3>2, <4>1
      <4> QED
        BY <1>3, <1>6, <4>2
    <3>3. CASE above /\ i = Len(arcs) + 1
      BY <1>3, <1>6, <1>7, <3>3
    <3> QED
      BY <3>1, <3>2, <3>3
  <2>2. voltages' \in [all : Nat, arcs : Seq(Nat)]
    BY <1>1, <1>3, <1>6, <1>7 DEF arcs, arcs1
  <2>3. \A i \in DOMAIN voltages'.arcs : voltages'.arcs[i] \in 1..voltages'.all
    BY <2>1 DEF arcs1
  <2> QED
    BY <1>1, <1>2, <1>5, <2>2, <2>3 DEF ArcType
<1>9. RowsApart'
  <2>1. m_arc_Vector # <<>> => tasks' > 0 \/ submit' \/ kept'
    BY <1>1, <1>2 DEF RowsApart
  <2> QED
    BY <1>1, <1>2, <2>1, RowsKept
<1>10. A!Dropped' = IF voltages.all = 0 THEN IF above THEN 1 ELSE 0 ELSE A!Dropped
  <2>0. /\ A!Dropped = IF arcs # <<>> /\ arcs[1] = 1 THEN 1 ELSE 0
        /\ A!Dropped' = IF arcs1 # <<>> /\ arcs1[1] = 1 THEN 1 ELSE 0
    BY DEF A!Dropped, arcs, arcs1
  <2>1. CASE voltages.all = 0
    <3>1. arcs = <<>>
      <4>1. DOMAIN arcs = 1..Len(arcs) /\ \A i \in DOMAIN arcs : arcs[i] \in 1..0
        BY <1>3, <2>1
      <4>2. 1 \notin 1..Len(arcs)
        BY <4>1
      <4>3. Len(arcs) = 0
        BY <1>3, <4>2
      <4> QED
        BY <1>3, <4>3
    <3>2. Len(arcs) = 0
      BY <3>1
    <3> QED
      BY <1>6, <1>7, <2>0, <2>1, <3>1, <3>2
  <2>2. CASE voltages.all # 0
    <3>1. CASE arcs = <<>>
      <4>1. Len(arcs) = 0
        BY <3>1
      <4>2. arcs1 # <<>> => arcs1[1] # 1
        BY <1>3, <1>6, <1>7, <2>2, <3>1, <4>1
      <4> QED
        BY <2>0, <2>2, <3>1, <4>2
    <3>2. CASE arcs # <<>>
      <4>1. 1 \in 1..Len(arcs) /\ Len(arcs) # 0
        BY <1>3, <3>2
      <4>2. arcs1[1] = arcs[1] /\ arcs1 # <<>>
        BY <1>3, <1>7, <4>1
      <4> QED
        BY <2>0, <2>2, <3>2, <4>2
    <3> QED
      BY <3>1, <3>2
  <2> QED
    BY <2>1, <2>2
<1>11. Begins'
  <2>1. CASE ctx.known
    BY <1>1, <1>2, <1>3, <1>6, <2>1 DEF Begins
  <2>2. CASE ~ctx.known
    <3>1. CASE Devices = 0
      <4>1. due = <<>> /\ more = <<>>
        BY <1>2, <1>m, <2>2, <3>1 DEF Begins
      <4>2. due' = <<>>
        BY <1>1, <4>1
      <4> QED
        BY <1>1, <1>2, <2>2, <3>1, <4>2 DEF Begins
    <3>2. CASE Devices # 0
      <4>1. voltages'.all # 0 /\ 1 \in 1..(Len(due) + Devices) /\ 1 \in 1..Devices
        BY <1>2, <1>3, <1>6, <3>2
      <4>2. due' # <<>> /\ Head(due') = due'[1]
        BY <1>5, <4>1
      <4>3. A!Dropped' = IF A!CheckArcOccurrence(Head(due')) THEN 1 ELSE 0
        <5>1. CASE voltages.all = 0
          <6>1. due = <<>>
            BY <1>2, <2>2, <5>1 DEF Begins
          <6>2. Len(due) = 0
            BY <6>1
          <6>3. ~(1 <= Len(due)) /\ 1 - Len(due) = 1
            BY <6>2
          <6>4. due'[1] = v
            BY <1>4, <1>5, <4>1, <6>3
          <6> QED
            BY <1>10, <4>2, <5>1, <6>4
        <5>2. CASE voltages.all # 0
          <6>1. due # <<>> /\ A!Dropped = IF A!CheckArcOccurrence(Head(due)) THEN 1 ELSE 0
            BY <1>2, <2>2, <3>2, <5>2 DEF Begins
          <6>2. 1 <= Len(due) /\ Head(due) = due[1]
            BY <1>3, <6>1
          <6>3. due'[1] = due[1]
            BY <1>5, <4>1, <6>2
          <6> QED
            BY <1>10, <4>2, <5>2, <6>1, <6>2, <6>3
        <5> QED
          BY <5>1, <5>2
      <4> QED
        BY <1>1, <1>2, <2>2, <3>2, <4>1, <4>2, <4>3 DEF Begins
    <3> QED
      BY <3>1, <3>2
  <2> QED
    BY <1>3, <2>1, <2>2
<1>12. Counting'
  <2>1. PICK n1, n2, n3, d \in Nat : Together(n1, n2, n3, d)
    BY <1>2 DEF Counting
  <2> DEFINE e == IF above THEN Devices ELSE 0
  <2>2. SumIs(due', Above, d + e)
    <3>1. SumIs(more, Above, IF Above[v] = 1 THEN Devices ELSE 0)
      BY <1>2, Weights, SumRepeated DEF more
    <3>2. SumIs(more, Above, e)
      <4>1. (IF Above[v] = 1 THEN Devices ELSE 0) = e
        BY Weights
      <4> QED
        BY <3>1, <4>1
    <3>3. SumIs(due, Above, d)
      BY <2>1 DEF Together
    <3> QED
      BY <1>1, <1>3, <1>4, <3>2, <3>3, Weights, SumConcat
  <2>3. d + e \in Nat
    BY <1>2
  <2>4. n1 + n2 + n3 + ctx.arcCount + d = Devices * Len(arcs) - IF ctx.known THEN A!Dropped ELSE 0
    BY <2>1 DEF Together, arcs
  <2>5. Devices * Len(arcs1) = Devices * Len(arcs) + e
    <3>1. CASE above
      <4>1. Len(arcs1) = Len(arcs) + 1
        BY <1>7, <3>1
      <4>2. \A x, y \in Nat : x * (y + 1) = x * y + x
        OBVIOUS
      <4> QED
        BY <1>2, <1>3, <3>1, <4>1, <4>2
    <3>2. CASE ~above
      <4>1. Len(arcs1) = Len(arcs) /\ e = 0
        BY <1>3, <1>7, <3>2
      <4>2. Devices * Len(arcs) \in Nat
        BY <1>2, <1>3
      <4> QED
        BY <4>1, <4>2
    <3> QED
      BY <3>1, <3>2
  <2>6. (IF ctx.known THEN A!Dropped' ELSE 0) = IF ctx.known THEN A!Dropped ELSE 0
    BY <1>2, <1>3, <1>10 DEF Begins
  <2>7. A!Dropped \in {0, 1} /\ ctx.arcCount \in Nat /\ Devices * Len(arcs) \in Nat
    BY <1>2, <1>3 DEF A!Dropped
  <2> HIDE DEF e
  <2>8. n1 + n2 + n3 + ctx.arcCount + (d + e) = Devices * Len(arcs1) - IF ctx.known THEN A!Dropped' ELSE 0
    <3>1. e \in Nat
      BY <1>2 DEF e
    <3>2. \A a, b, c, f, x, y, z, g \in Nat :
            a + b + c + f + x = y - z => a + b + c + f + (x + g) = (y + g) - z
      OBVIOUS
    <3>3. (IF ctx.known THEN A!Dropped ELSE 0) \in Nat
      BY <2>7
    <3> QED
      BY <2>4, <2>5, <2>6, <2>7, <3>1, <3>2, <3>3
  <2>9. Together(n1, n2, n3, d + e)'
    BY <1>1, <2>1, <2>2, <2>8 DEF Together, arcs1
  <2> QED
    BY <2>3, <2>9 DEF Counting
<1> QED
  BY <1>8, <1>9, <1>11, <1>12 DEF ArcInv

\* A voltage that is handled is no longer due.
LEMMA HandledIs ==
  ASSUME ArcType, A!Handle
  PROVE  /\ due # <<>> /\ Head(due) \in Voltages /\ due' \in Seq(Voltages)
         /\ Above[Head(due)] \in {0, 1}
         /\ \A d : SumIs(due, Above, d) =>
               /\ d \in Nat /\ d - Above[Head(due)] \in Nat
               /\ SumIs(due', Above, d - Above[Head(due)])
<1>1. due # <<>> /\ due' = Tail(due) /\ due \in Seq(Voltages)
  BY DEF A!Handle, ArcType
<1>2. Head(due) \in Voltages /\ due' \in Seq(Voltages)
  BY <1>1
<1>3. Above[Head(due)] \in {0, 1}
  BY <1>2, Weights
<1>4. Above \in [Voltages -> Nat]
  BY Weights
<1>5. ASSUME NEW d, SumIs(due, Above, d)
      PROVE  /\ d \in Nat /\ d - Above[Head(due)] \in Nat
             /\ SumIs(due', Above, d - Above[Head(due)])
  BY <1>1, <1>4, <1>5, SumTail
<1> QED
  BY <1>1, <1>2, <1>3, <1>5

\* One that ends no arc: what the arc under way gains is due no longer.
LEMMA ArcHandled ==
  ASSUME A!ArcAssumption, ArcInv, A!Handle, A!NoRow,
         ctx' \in [known : BOOLEAN, inProgress : BOOLEAN, arcCount : Nat], ctx'.known,
         ~ctx'.inProgress => ctx'.arcCount = 0, voltages.all > 0,
         ctx'.arcCount + A!Dropped
           = ctx.arcCount + Above[Head(due)] + IF ctx.known THEN A!Dropped ELSE 0
  PROVE  ArcInv'
<1>1. UNCHANGED <<submit, m_arc_Vector, tasks, stored, lostRows, kept, voltages>>
  BY DEF A!Handle, A!NoRow
<1>2. ArcType /\ RowsApart /\ Counting
  BY DEF ArcInv
<1>3. ArcType'
  BY <1>1, <1>2, HandledIs DEF ArcType
<1>4. RowsApart'
  <2>1. m_arc_Vector # <<>> => tasks' > 0 \/ submit' \/ kept'
    BY <1>1, <1>2 DEF RowsApart
  <2> QED
    BY <1>1, <1>2, <2>1, RowsKept
<1>5. Begins'
  BY <1>1 DEF Begins
<1>6. A!Dropped' = A!Dropped /\ A!Dropped \in {0, 1}
  BY <1>1 DEF A!Dropped
<1>7. Counting'
  <2>1. PICK n1, n2, n3, d \in Nat : Together(n1, n2, n3, d)
    BY <1>2 DEF Counting
  <2> DEFINE h == Above[Head(due)]
             e == d - h
  <2>2. e \in Nat /\ SumIs(due', Above, e) /\ h \in {0, 1}
    BY <1>2, <2>1, HandledIs DEF Together
  <2>3. n1 + n2 + n3 + ctx.arcCount + d = Devices * Len(voltages.arcs) - IF ctx.known THEN A!Dropped ELSE 0
    BY <2>1 DEF Together
  <2>4. ctx.arcCount \in Nat /\ ctx'.arcCount \in Nat /\ (IF ctx.known THEN A!Dropped ELSE 0) \in {0, 1}
    BY <1>2, <1>6 DEF ArcType
  <2> DEFINE D1 == Devices * Len(voltages.arcs)
             k == IF ctx.known THEN A!Dropped ELSE 0
  <2>5. d = e + h
    BY <2>2
  <2> HIDE DEF e, h, D1
  <2>6. n1 + n2 + n3 + ctx'.arcCount + e = D1 - A!Dropped
    <3>1. n1 + n2 + n3 + ctx.arcCount + (e + h) = D1 - k
      BY <2>3, <2>5 DEF D1
    <3>2. ctx'.arcCount + A!Dropped = ctx.arcCount + h + k
      BY DEF h
    <3>3. k \in {0, 1}
      BY <2>4
    <3> HIDE DEF k
    <3>4. D1 \in Int
      BY <1>2 DEF D1, ArcType, A!ArcAssumption
    <3> QED
      BY <1>6, <2>1, <2>2, <2>4, <3>1, <3>2, <3>3, <3>4
  <2>7. ASSUME NEW m, m = e PROVE Together(n1, n2, n3, m)'
    BY <1>1, <1>6, <2>1, <2>2, <2>6, <2>7 DEF Together, D1
  <2> QED
    BY <2>1, <2>2, <2>7 DEF Counting
<1> QED
  BY <1>3, <1>4, <1>5, <1>7 DEF ArcInv

LEMMA ArcVoltage ==
  ASSUME A!ArcAssumption, ArcInv, A!FirstVoltage \/ A!BeginArc \/ A!ContinueArc \/ A!NotEnded PROVE ArcInv'
<1>1. A!Handle /\ A!NoRow
  BY DEF A!FirstVoltage, A!BeginArc, A!ContinueArc, A!NotEnded
<1>2. ArcType /\ Begins
  BY DEF ArcInv
<1>3. ctx \in [known : BOOLEAN, inProgress : BOOLEAN, arcCount : Nat] /\ voltages.all \in Nat
  BY <1>2 DEF ArcType
<1>4. due # <<>> /\ Head(due) \in Voltages /\ Above[Head(due)] = IF A!CheckArcOccurrence(Head(due)) THEN 1 ELSE 0
  BY <1>1, <1>2, HandledIs, Weights
<1>5. voltages.all > 0 /\ A!Dropped \in {0, 1}
  BY <1>2, <1>3, <1>4 DEF Begins, A!Dropped
<1>6. CASE A!FirstVoltage
  <2>1. ~ctx.known /\ ctx' = [known |-> TRUE, inProgress |-> FALSE, arcCount |-> 0]
    BY <1>6 DEF A!FirstVoltage, A!NoEvent
  <2>2. ctx.arcCount = 0 /\ A!Dropped = Above[Head(due)]
    BY <1>2, <1>4, <1>5, <2>1 DEF Begins
  <2>3. ctx' \in [known : BOOLEAN, inProgress : BOOLEAN, arcCount : Nat] /\ ctx'.known /\ ctx'.arcCount = 0
    BY <2>1
  <2> QED
    BY <1>1, <1>5, <2>1, <2>2, <2>3, ArcHandled
<1>7. CASE A!BeginArc
  <2>1. /\ ctx.known /\ A!CheckArcOccurrence(Head(due)) /\ ~ctx.inProgress
        /\ ctx' = [ctx EXCEPT !.inProgress = TRUE, !.arcCount = 1]
    BY <1>7 DEF A!BeginArc
  <2>2. /\ ctx' \in [known : BOOLEAN, inProgress : BOOLEAN, arcCount : Nat]
        /\ ctx'.known /\ ctx'.arcCount = 1 /\ ctx'.inProgress
    BY <1>3, <2>1
  <2>3. ctx.arcCount = 0 /\ Above[Head(due)] = 1
    BY <1>2, <1>4, <2>1 DEF Begins
  <2> QED
    BY <1>1, <1>5, <2>1, <2>2, <2>3, ArcHandled
<1>8. CASE A!ContinueArc
  <2>1. /\ A!CheckArcOccurrence(Head(due)) /\ ctx.inProgress /\ ctx' = [ctx EXCEPT !.arcCount = @ + 1]
    BY <1>8 DEF A!ContinueArc
  <2>2. /\ ctx' \in [known : BOOLEAN, inProgress : BOOLEAN, arcCount : Nat] /\ ctx.arcCount \in Nat
        /\ ctx'.known = ctx.known /\ ctx'.arcCount = ctx.arcCount + 1 /\ ctx'.inProgress
    BY <1>3, <2>1
  <2>3. ctx.known /\ Above[Head(due)] = 1
    BY <1>2, <1>4, <2>1 DEF Begins
  <2> QED
    BY <1>1, <1>5, <2>1, <2>2, <2>3, ArcHandled
<1>9. CASE A!NotEnded
  <2>1. ctx.known /\ ~A!CheckArcOccurrence(Head(due)) /\ ctx' = ctx
    BY <1>9 DEF A!NotEnded
  <2>2. Above[Head(due)] = 0 /\ (~ctx.inProgress => ctx.arcCount = 0) /\ ctx.arcCount \in Nat
    BY <1>2, <1>3, <1>4, <2>1 DEF Begins
  <2> QED
    BY <1>1, <1>3, <1>5, <2>1, <2>2, ArcHandled
<1> QED
  BY <1>6, <1>7, <1>8, <1>9

\* An arc that ends is a row, with the next number.
LEMMA ArcEnds == ASSUME A!ArcAssumption, ArcInv, A!EndArc PROVE ArcInv'
<1> DEFINE v == m_arc_Vector
           L == Len(stored) + Len(lostRows) + Len(v)
           r == [number |-> L + 1, arccount |-> ctx.arcCount]
<1>1. /\ A!Handle /\ ~A!CheckArcOccurrence(Head(due)) /\ ctx.inProgress
      /\ v' = Append(v, r) /\ submit' = TRUE
      /\ ctx' = [known |-> TRUE, inProgress |-> FALSE, arcCount |-> 0]
      /\ UNCHANGED <<tasks, stored, lostRows, kept, voltages>>
  BY DEF A!EndArc, A!Handle, A!AfterEvent, A!NoEvent
<1>2. ArcType /\ RowsApart /\ Begins /\ Counting
  BY DEF ArcInv
<1>3. /\ stored \in Seq(ArcRows) /\ lostRows \in Seq(ArcRows) /\ v \in Seq(ArcRows)
      /\ Len(stored) \in Nat /\ Len(lostRows) \in Nat /\ Len(v) \in Nat /\ ctx.arcCount \in Nat
      /\ voltages.all \in Nat
  BY <1>2 DEF ArcType
<1>4. r \in ArcRows /\ r.number = L + 1 /\ r.arccount = ctx.arcCount
  BY <1>3 DEF ArcRows
<1>5. v' = v \o <<r>> /\ <<r>> \in Seq(ArcRows) /\ Len(<<r>>) = 1 /\ v' \in Seq(ArcRows)
      /\ Len(v') = Len(v) + 1 /\ v' # <<>>
  <2>1. <<r>> \in Seq(ArcRows) /\ Len(<<r>>) = 1
    BY <1>4
  <2> HIDE DEF r
  <2>2. v' = Append(v, r) /\ v \in Seq(ArcRows) /\ r \in ArcRows
    BY <1>1, <1>3, <1>4
  <2> QED
    BY <2>1, <2>2, AppendIs
<1>6. Numbers(<<r>>) = {L + 1} /\ NumberedOnce(<<r>>)
  <2>1. DOMAIN <<r>> = {1} /\ <<r>>[1] = r
    OBVIOUS
  <2> HIDE DEF r
  <2> QED
    BY <1>4, <2>1 DEF Numbers, NumberedOnce
<1> HIDE DEF v, r
<1>7. ArcType'
  <2>1. ctx' \in [known : BOOLEAN, inProgress : BOOLEAN, arcCount : Nat]
    BY <1>1
  <2>2. due' \in Seq(Voltages)
    BY <1>1, <1>2, HandledIs
  <2> QED
    BY <1>1, <1>2, <1>5, <2>1, <2>2 DEF ArcType, v
<1>8. RowsApart'
  <2>1. Numbers(v) \subseteq 1..L /\ Numbers(stored) \subseteq 1..L /\ Numbers(lostRows) \subseteq 1..L
    BY <1>2 DEF RowsApart, v, L
  <2>2. L + 1 \notin 1..L /\ 1..L \subseteq 1..(L + 1) /\ L + 1 \in 1..(L + 1) /\ L \in Nat
    BY <1>3
  <2>3. Numbers(v') = Numbers(v) \cup {L + 1}
    BY <1>3, <1>5, <1>6, RowsConcat
  <2>4. NumberedOnce(v')
    <3>1. NumberedOnce(v) /\ Numbers(v) \cap Numbers(<<r>>) = {}
      BY <1>2, <1>6, <2>1, <2>2 DEF RowsApart, v
    <3> QED
      BY <1>3, <1>5, <1>6, <3>1, RowsConcat
  <2>5. Len(stored) + Len(lostRows) + Len(v') = L + 1
    BY <1>3, <1>5
  <2>6. /\ Numbers(stored)' = Numbers(stored) /\ Numbers(lostRows)' = Numbers(lostRows)
        /\ NumberedOnce(stored)' = NumberedOnce(stored) /\ NumberedOnce(lostRows)' = NumberedOnce(lostRows)
        /\ Numbers(m_arc_Vector)' = Numbers(v') /\ NumberedOnce(m_arc_Vector)' = NumberedOnce(v')
        /\ (Len(stored) + Len(lostRows) + Len(m_arc_Vector))' = L + 1
    BY <1>1, <2>5 DEF Numbers, NumberedOnce, v
  <2> HIDE DEF L
  <2>7. /\ NumberedOnce(stored) /\ NumberedOnce(lostRows)
        /\ Numbers(stored) \cap Numbers(lostRows) = {}
        /\ (Numbers(stored) \cup Numbers(lostRows)) \cap Numbers(v) = {}
    BY <1>2 DEF RowsApart, v
  <2>8. /\ (Numbers(stored) \cup Numbers(lostRows)) \cap Numbers(v') = {}
        /\ Numbers(stored) \cup Numbers(lostRows) \cup Numbers(v') \subseteq 1..(L + 1)
    BY <2>1, <2>2, <2>3, <2>7
  <2> QED
    BY <1>1, <2>4, <2>6, <2>7, <2>8 DEF RowsApart
<1>9. ctx.known /\ voltages.all > 0
  BY <1>1, <1>2 DEF Begins
<1>10. Begins'
  BY <1>1, <1>9 DEF Begins
<1>11. Counting'
  <2>1. PICK n1, n2, n3, d \in Nat : Together(n1, n2, n3, d)
    BY <1>2 DEF Counting
  <2>2. Above[Head(due)] = 0 /\ SumIs(due', Above, d)
    <3>1. Above[Head(due)] = 0
      BY <1>1, <1>2, HandledIs, Weights
    <3>2. SumIs(due', Above, d - Above[Head(due)])
      BY <1>1, <1>2, <2>1, HandledIs DEF Together
    <3>3. d - 0 = d
      OBVIOUS
    <3> QED
      BY <3>1, <3>2, <3>3
  <2>3. SumIs(v', Weight, n3 + ctx.arcCount)
    <3>1. SumIs(v, Weight, n3)
      BY <2>1 DEF Together, v
    <3>2. SumIs(<<r>>, Weight, ctx.arcCount)
      <4>1. SumIs(<<r>>, Weight, Weight[r])
        BY <1>4, SumOne, Weights
      <4> QED
        BY <1>4, <4>1, Weights
    <3> QED
      BY <1>3, <1>5, <3>1, <3>2, SumConcat, Weights
  <2>4. n1 + n2 + (n3 + ctx.arcCount) + 0 + d = Devices * Len(voltages.arcs) - A!Dropped
    <3>1. n1 + n2 + n3 + ctx.arcCount + d = Devices * Len(voltages.arcs) - A!Dropped
      BY <1>9, <2>1 DEF Together
    <3>2. \A a, b, c, f, x \in Nat : a + b + (c + f) + 0 + x = a + b + c + f + x
      OBVIOUS
    <3> QED
      BY <1>3, <2>1, <3>1, <3>2
  <2>6. n3 + ctx.arcCount \in Nat
    BY <1>3
  <2>7. ASSUME NEW m, m = n3 + ctx.arcCount PROVE Together(n1, n2, m, d)'
    <3>1. A!Dropped' = A!Dropped /\ ctx'.known /\ ctx'.arcCount = 0
      BY <1>1 DEF A!Dropped
    <3> QED
      BY <1>1, <2>1, <2>2, <2>3, <2>4, <2>7, <3>1 DEF Together, v
  <2> QED
    BY <2>1, <2>6, <2>7 DEF Counting
<1> QED
  BY <1>7, <1>8, <1>10, <1>11 DEF ArcInv

\* The rows are taken by the table, or lost.
LEMMA ArcTaken ==
  ASSUME ArcInv, UNCHANGED <<due, ctx, submit, voltages>>, tasks' \in Nat, m_arc_Vector' = <<>>,
         \/ stored' = stored \o m_arc_Vector /\ lostRows' = lostRows
         \/ lostRows' = lostRows \o m_arc_Vector /\ stored' = stored
  PROVE  ArcInv'
<1> DEFINE L == Len(stored) + Len(lostRows) + Len(m_arc_Vector)
<1>1. ArcType /\ RowsApart /\ Begins /\ Counting
  BY DEF ArcInv
<1>2. /\ stored \in Seq(ArcRows) /\ lostRows \in Seq(ArcRows) /\ m_arc_Vector \in Seq(ArcRows)
      /\ Len(stored) \in Nat /\ Len(lostRows) \in Nat /\ Len(m_arc_Vector) \in Nat
  BY <1>1 DEF ArcType
<1>3. /\ stored' \in Seq(ArcRows) /\ lostRows' \in Seq(ArcRows) /\ m_arc_Vector' \in Seq(ArcRows)
      /\ Len(stored') + Len(lostRows') + Len(m_arc_Vector') = L
  <2>1. /\ stored \o m_arc_Vector \in Seq(ArcRows) /\ Len(stored \o m_arc_Vector) = Len(stored) + Len(m_arc_Vector)
        /\ lostRows \o m_arc_Vector \in Seq(ArcRows) /\ Len(lostRows \o m_arc_Vector) = Len(lostRows) + Len(m_arc_Vector)
    BY <1>2, TwoOf
  <2>2. <<>> \in Seq(ArcRows) /\ Len(<<>>) = 0
    BY NoNumbers
  <2>3. /\ stored' \in Seq(ArcRows) /\ lostRows' \in Seq(ArcRows) /\ m_arc_Vector' \in Seq(ArcRows)
        /\ Len(m_arc_Vector') = 0
    BY <1>2, <2>1, <2>2
  <2>4. Len(stored') + Len(lostRows') = L
    <3>1. CASE stored' = stored \o m_arc_Vector /\ lostRows' = lostRows
      <4>1. Len(stored') = Len(stored) + Len(m_arc_Vector) /\ Len(lostRows') = Len(lostRows)
        BY <2>1, <3>1
      <4> QED
        BY <1>2, <4>1
    <3>2. CASE lostRows' = lostRows \o m_arc_Vector /\ stored' = stored
      <4>1. Len(lostRows') = Len(lostRows) + Len(m_arc_Vector) /\ Len(stored') = Len(stored)
        BY <2>1, <3>2
      <4> QED
        BY <1>2, <4>1
    <3> QED
      BY <3>1, <3>2
  <2>5. L \in Nat
    BY <1>2
  <2> HIDE DEF L
  <2>6. Len(stored') + Len(lostRows') + Len(m_arc_Vector') = L
    BY <2>3, <2>4, <2>5
  <2> QED
    BY <2>3, <2>6
<1>4. ArcType'
  BY <1>1, <1>3 DEF ArcType
<1>5. RowsApart'
  <2>1. /\ NumberedOnce(stored) /\ NumberedOnce(lostRows) /\ NumberedOnce(m_arc_Vector)
        /\ Numbers(stored) \cap Numbers(lostRows) = {}
        /\ (Numbers(stored) \cup Numbers(lostRows)) \cap Numbers(m_arc_Vector) = {}
        /\ Numbers(stored) \cup Numbers(lostRows) \cup Numbers(m_arc_Vector) \subseteq 1..L
    BY <1>1 DEF RowsApart
  <2>2. Numbers(m_arc_Vector') = {} /\ NumberedOnce(m_arc_Vector')
    BY NoNumbers
  <2>3. /\ NumberedOnce(stored') /\ NumberedOnce(lostRows')
        /\ Numbers(stored') \cap Numbers(lostRows') = {}
        /\ Numbers(stored') \cup Numbers(lostRows') \subseteq 1..L
    <3>1. CASE stored' = stored \o m_arc_Vector /\ lostRows' = lostRows
      <4>1. Numbers(stored') = Numbers(stored) \cup Numbers(m_arc_Vector) /\ NumberedOnce(stored')
        BY <1>2, <2>1, <3>1, RowsConcat
      <4> QED
        BY <2>1, <3>1, <4>1
    <3>2. CASE lostRows' = lostRows \o m_arc_Vector /\ stored' = stored
      <4>1. Numbers(lostRows') = Numbers(lostRows) \cup Numbers(m_arc_Vector) /\ NumberedOnce(lostRows')
        BY <1>2, <2>1, <3>2, RowsConcat
      <4> QED
        BY <2>1, <3>2, <4>1
    <3> QED
      BY <3>1, <3>2
  <2>4. /\ Numbers(stored)' = Numbers(stored') /\ Numbers(lostRows)' = Numbers(lostRows')
        /\ Numbers(m_arc_Vector)' = Numbers(m_arc_Vector')
        /\ NumberedOnce(stored)' = NumberedOnce(stored') /\ NumberedOnce(lostRows)' = NumberedOnce(lostRows')
        /\ NumberedOnce(m_arc_Vector)' = NumberedOnce(m_arc_Vector')
    BY DEF Numbers, NumberedOnce
  <2> HIDE DEF L
  <2> QED
    BY <1>3, <2>2, <2>3, <2>4 DEF RowsApart
<1>6. Begins'
  BY <1>1 DEF Begins, A!Dropped
<1>7. Counting'
  <2>1. PICK n1, n2, n3, d \in Nat : Together(n1, n2, n3, d)
    BY <1>1 DEF Counting
  <2>2. /\ SumIs(stored, Weight, n1) /\ SumIs(lostRows, Weight, n2) /\ SumIs(m_arc_Vector, Weight, n3)
        /\ SumIs(due, Above, d)
        /\ n1 + n2 + n3 + ctx.arcCount + d = Devices * Len(voltages.arcs) - IF ctx.known THEN A!Dropped ELSE 0
    BY <2>1 DEF Together
  <2>3. SumIs(m_arc_Vector', Weight, 0) /\ A!Dropped' = A!Dropped
    BY SumNone DEF A!Dropped
  <2>4. ctx.arcCount \in Nat
    BY <1>1 DEF ArcType
  <2>5. CASE stored' = stored \o m_arc_Vector /\ lostRows' = lostRows
    <3>1. SumIs(stored', Weight, n1 + n3)
      BY <1>2, <2>2, <2>5, SumConcat, Weights
    <3>2. (n1 + n3) + n2 + 0 + ctx.arcCount + d = n1 + n2 + n3 + ctx.arcCount + d
      BY <2>1, <2>4
    <3>3. Together(n1 + n3, n2, 0, d)' /\ n1 + n3 \in Nat
      BY <2>1, <2>2, <2>3, <2>5, <3>1, <3>2 DEF Together
    <3> QED
      BY <2>1, <3>3 DEF Counting
  <2>6. CASE lostRows' = lostRows \o m_arc_Vector /\ stored' = stored
    <3>1. SumIs(lostRows', Weight, n2 + n3)
      BY <1>2, <2>2, <2>6, SumConcat, Weights
    <3>2. n1 + (n2 + n3) + 0 + ctx.arcCount + d = n1 + n2 + n3 + ctx.arcCount + d
      BY <2>1, <2>4
    <3>3. Together(n1, n2 + n3, 0, d)' /\ n2 + n3 \in Nat
      BY <2>1, <2>2, <2>3, <2>6, <3>1, <3>2 DEF Together
    <3> QED
      BY <2>1, <3>3 DEF Counting
  <2> QED
    BY <2>5, <2>6
<1> QED
  BY <1>4, <1>5, <1>6, <1>7 DEF ArcInv

\* Steps that leave what is counted alone.
LEMMA ArcKept ==
  ASSUME ArcInv, UNCHANGED <<due, ctx, m_arc_Vector, stored, lostRows, voltages>>,
         submit' \in BOOLEAN, tasks' \in Nat,
         m_arc_Vector # <<>> => tasks' > 0 \/ submit' \/ kept'
  PROVE  ArcInv'
<1>1. ArcType'
  BY DEF ArcInv, ArcType
<1>2. RowsApart'
  BY RowsKept DEF ArcInv
<1>3. Begins'
  BY DEF ArcInv, Begins, A!Dropped
<1>4. Counting'
  BY DEF ArcInv, Counting, Together, A!Dropped
<1> QED
  BY <1>1, <1>2, <1>3, <1>4 DEF ArcInv

LEMMA ArcStep == A!ArcAssumption /\ ArcInv /\ A!Next => ArcInv'
<1> SUFFICES ASSUME A!ArcAssumption, ArcInv, A!Next PROVE ArcInv'
  OBVIOUS
<1>1. /\ tasks \in Nat /\ submit \in BOOLEAN
      /\ m_arc_Vector # <<>> => tasks > 0 \/ submit \/ kept
  BY DEF ArcInv, ArcType, RowsApart
<1>2. CASE A!Tick
  BY <1>1, <1>2, ArcKept DEF A!Tick
<1>3. CASE A!RunTask
  <2>1. tasks' \in Nat /\ tasks' > 0 /\ submit' = FALSE
    BY <1>1, <1>3 DEF A!RunTask
  <2> QED
    BY <1>3, <2>1, ArcKept DEF A!RunTask
<1>4. CASE A!NoRows
  BY <1>1, <1>4, ArcKept DEF A!NoRows, A!Task
<1>5. CASE A!InsertThrows
  BY <1>1, <1>5, ArcKept DEF A!InsertThrows, A!Task
<1>6. CASE A!Insert
  BY <1>1, <1>6, ArcTaken DEF A!Insert, A!Task, A!Cleared
<1>7. CASE A!InsertRefused
  BY <1>1, <1>7, ArcTaken DEF A!InsertRefused, A!Task, A!Cleared
<1>8. CASE \E v \in Voltages : A!OnVoltageReceived(v)
  BY <1>8, ArcTold
<1>9. CASE A!FirstVoltage \/ A!BeginArc \/ A!ContinueArc \/ A!NotEnded
  BY <1>9, ArcVoltage
<1>10. CASE A!EndArc
  BY <1>10, ArcEnds
<1> QED
  BY <1>2, <1>3, <1>4, <1>5, <1>6, <1>7, <1>8, <1>9, <1>10 DEF A!Next

LEMMA ArcSound == A!ArcAssumption /\ ArcInv => A!ArcsCounted /\ A!RowsTakenOnce
<1> SUFFICES ASSUME A!ArcAssumption, ArcInv PROVE A!ArcsCounted /\ A!RowsTakenOnce
  OBVIOUS
<1>1. ArcType /\ RowsApart /\ Begins /\ Counting
  BY DEF ArcInv
<1> DEFINE some == stored \o lostRows
<1>2. /\ stored \in Seq(ArcRows) /\ lostRows \in Seq(ArcRows) /\ m_arc_Vector \in Seq(ArcRows)
      /\ some \in Seq(ArcRows) /\ A!Rows = some \o m_arc_Vector /\ A!Rows \in Seq(ArcRows)
      /\ ctx.arcCount \in Nat
  <2>1. some \in Seq(ArcRows)
    BY <1>1, TwoOf DEF ArcType
  <2> HIDE DEF some
  <2>2. some \o m_arc_Vector \in Seq(ArcRows)
    BY <1>1, <2>1, TwoOf DEF ArcType
  <2> QED
    BY <1>1, <2>1, <2>2 DEF ArcType, A!Rows, some
<1>3. A!RowsTakenOnce
  <2>1. NumberedOnce(some) /\ Numbers(some) = Numbers(stored) \cup Numbers(lostRows)
    BY <1>1, <1>2, RowsConcat DEF RowsApart
  <2> HIDE DEF some
  <2>2. NumberedOnce(A!Rows)
    BY <1>1, <1>2, <2>1, RowsConcat DEF RowsApart
  <2> QED
    BY <1>1, <2>2 DEF A!RowsTakenOnce, NumberedOnce, RowsApart
<1>4. ASSUME due = <<>>, voltages.all > 0, Devices > 0
      PROVE  LET counted[n \in 0..Len(A!Rows)] == IF n = 0 THEN ctx.arcCount
                                                  ELSE counted[n - 1] + A!Rows[n].arccount
             IN counted[Len(A!Rows)] = Devices * Len(voltages.arcs) - A!Dropped
  <2>1. ctx.known
    BY <1>1, <1>4 DEF Begins
  <2>2. PICK n1, n2, n3, d \in Nat : Together(n1, n2, n3, d)
    BY <1>1 DEF Counting
  <2>3. /\ SumIs(stored, Weight, n1) /\ SumIs(lostRows, Weight, n2) /\ SumIs(m_arc_Vector, Weight, n3)
        /\ SumIs(due, Above, d)
        /\ n1 + n2 + n3 + ctx.arcCount + d = Devices * Len(voltages.arcs) - A!Dropped
    BY <2>1, <2>2 DEF Together
  <2>4. d = 0
    BY <1>4, <2>3, SumNone
  <2>5. SumIs(A!Rows, Weight, (n1 + n2) + n3)
    <3>1. SumIs(some, Weight, n1 + n2)
      BY <1>2, <2>3, SumConcat, Weights
    <3> HIDE DEF some
    <3> QED
      BY <1>2, <2>3, <3>1, SumConcat, Weights
  <2> DEFINE s == A!Rows
             k == Len(s)
             c == ctx.arcCount
             F == CHOOSE f : f = [i \in 0..Len(s) |-> IF i = 0 THEN c ELSE f[i - 1] + Weight[s[i]]]
             G == CHOOSE f : f = [i \in 0..Len(s) |-> IF i = 0 THEN c ELSE f[i - 1] + s[i].arccount]
  <2>6. F[Len(s)] = ((n1 + n2) + n3) + c
    <3>1. s \in Seq(ArcRows) /\ c \in Nat /\ Weight \in [ArcRows -> Nat]
      BY <1>2, Weights
    <3>2. SumIs(s, Weight, (n1 + n2) + n3)
      BY <2>5
    <3> HIDE DEF s, c
    <3>4. \E f : AddsUp(f, s, Weight, c)
      BY <3>1, <3>2, OneSum
    <3>3. AddsUp(F, s, Weight, c)
      BY <3>4 DEF AddsUp
    <3> HIDE DEF F
    <3> QED
      BY <3>1, <3>2, <3>3, OneSum
  <2>7. F = G
    <3>1. ASSUME NEW i \in 0..Len(s), i # 0 PROVE Weight[s[i]] = s[i].arccount
      <4>1. s[i] \in ArcRows
        <5>1. s \in Seq(ArcRows)
          BY <1>2
        <5>2. i \in 1..Len(s)
          BY <3>1, <5>1
        <5> HIDE DEF s
        <5> QED
          BY <5>1, <5>2
      <4> QED
        BY <4>1, Weights
    <3> HIDE DEF s, c
    <3>2. \A f : [i \in 0..Len(s) |-> IF i = 0 THEN c ELSE f[i - 1] + Weight[s[i]]]
                = [i \in 0..Len(s) |-> IF i = 0 THEN c ELSE f[i - 1] + s[i].arccount]
      BY <3>1
    <3> QED
      BY <3>2
  <2>8. G[Len(s)] = Devices * Len(voltages.arcs) - A!Dropped
    <3>1. c \in Nat
      BY <1>2
    <3> HIDE DEF F, G, s, c
    <3>2. ((n1 + n2) + n3) + c = n1 + n2 + n3 + c + d
      BY <2>2, <2>4, <3>1
    <3> QED
      BY <2>3, <2>6, <2>7, <3>2 DEF c
  <2> QED
    BY <2>8
<1>5. A!ArcsCounted
  BY <1>4 DEF A!ArcsCounted
<1> QED
  BY <1>3, <1>5

-----------------------------------------------------------------------------
(* The positions and the batches of PositionRecords.                       *)

Handlers == {"run", "slots"}
Flushing == {"begin", "rows", "clear"}
AtHand == {"test", "push", "write"}

\* The positions of a batch, and those that are in some batch.
PositionsOf(b) == P!ToSet(batches[b])
Batched == UNION {P!ToSet(batches[b]) : b \in DOMAIN batches}

PositionType ==
  /\ next \in Nat /\ m_InsertData \in Seq(1..next) /\ position \in [Handlers -> 0..next]
  /\ insertAt \in [Handlers -> {"idle", "test", "push", "write", "insert", "begin", "rows", "clear"}]
  /\ place \in [Handlers -> [full : BOOLEAN, end : Nat]]
  /\ batches \in Seq(Seq(1..next))
  /\ \A t \in Handlers : position[t] # 0 <=> insertAt[t] \in AtHand
  /\ \A t \in Handlers : insertAt[t] = "write" => place[t].end > 0

\* A position is in the hands of one thread, or it is in the vector or a batch.
InOnePlace ==
  /\ \A t \in Handlers : position[t] # 0 => position[t] \notin P!ToSet(m_InsertData) \cup Batched
  /\ position["run"] = position["slots"] => position["run"] = 0

\* What both threads touched, and what one of them still believes of the vector.
Touched ==
  /\ (\A t \in Handlers : insertAt[t] # "idle") =>
        /\ P!ToSet(m_InsertData) \subseteq overlapped
        /\ \A t \in Handlers : position[t] # 0 => position[t] \in overlapped
  /\ \A t \in Handlers : insertAt[t] = "write" /\ place[t].end # Len(m_InsertData) + 1 =>
        position[t] \in overlapped /\ P!ToSet(m_InsertData) \subseteq overlapped

\* Of the positions that one thread handled.
Kept ==
  /\ \A t \in Handlers : insertAt[t] \in Flushing =>
        P!ToSet(m_InsertData) \subseteq overlapped \cup Batched
  /\ (\A t \in Handlers : insertAt[t] \notin Flushing) =>
        P!ToSet(m_InsertData) \cap Batched \subseteq overlapped
  /\ \A p \in 1..next \ overlapped :
        /\ \A b, c \in DOMAIN batches : p \in PositionsOf(b) /\ p \in PositionsOf(c) => b = c
        /\ (\A t \in Handlers : position[t] # p) => p \in P!ToSet(m_InsertData) \cup Batched

\* The batches and what the table has of them.
BatchInv ==
  /\ storedRows \in Seq(SUBSET Nat) /\ Len(storedRows) = Len(batches)
  /\ result \in Seq({"none", "success", "failure"}) /\ Len(result) = Len(batches)
  /\ batch \in [Handlers -> Nat] /\ row \in [Handlers -> Nat]
  /\ inserter \in [Handlers -> {"broken", "auto", "transaction"}]
  /\ \A b \in DOMAIN batches : batches[b] # <<>>
  /\ \A t \in Handlers : insertAt[t] \in {"begin", "rows"} =>
        batch[t] \in DOMAIN batches /\ storedRows[batch[t]] = {} /\ result[batch[t]] = "none"
  /\ \A t \in Handlers : insertAt[t] = "rows" => inserter[t] # "auto" /\ row[t] <= Len(batches[batch[t]])
  /\ \A t \in Handlers : insertAt[t] \notin {"rows"} => row[t] = 0
  /\ (\A t \in Handlers : insertAt[t] \in {"begin", "rows"}) => batch["run"] # batch["slots"]
  /\ P!BatchesWhole

PositionInv == PositionType /\ InOnePlace /\ Touched /\ Kept /\ BatchInv

LEMMA ElementsOf == \A V : \A s \in Seq(V) : P!ToSet(s) \subseteq V
BY DEF P!ToSet

\* What a thread does to the places of both and to what both touched.
LEMMA GoesIs ==
  ASSUME PositionType, NEW t \in Handlers, NEW from, NEW to, P!Goes(t, from, to)
  PROVE  /\ insertAt[t] = from /\ insertAt'[t] = to
         /\ \A u \in Handlers \ {t} : insertAt'[u] = insertAt[u]
         /\ overlapped \subseteq overlapped'
         /\ (\A u \in Handlers : insertAt'[u] # "idle") =>
               /\ P!ToSet(m_InsertData) \subseteq overlapped'
               /\ \A u \in Handlers : position'[u] \in overlapped'
         /\ insertAt' = [insertAt EXCEPT ![t] = to]
BY DEF PositionType, P!Goes, P!Threads, Handlers

\* The vector after a push that began where it ended then.
LEMMA PushedIs ==
  ASSUME NEW n \in Nat, NEW v \in Seq(1..n), NEW x \in 1..n, NEW e \in Nat, e > 0, e <= Len(v) + 1
  PROVE  LET w == SubSeq(v, 1, e - 1) \o <<x>> \o SubSeq(v, e + 1, Len(v))
         IN /\ w \in Seq(1..n) /\ P!ToSet(w) \subseteq P!ToSet(v) \cup {x}
            /\ e = Len(v) + 1 => P!ToSet(v) \cup {x} \subseteq P!ToSet(w)
<1> DEFINE a == SubSeq(v, 1, e - 1)
           b == SubSeq(v, e + 1, Len(v))
           w == a \o <<x>> \o b
<1>1. /\ Len(v) \in Nat /\ DOMAIN v = 1..Len(v)
      /\ a \in Seq(1..n) /\ Len(a) = e - 1 /\ \A i \in 1..(e - 1) : a[i] = v[i]
  OBVIOUS
<1>2. b \in Seq(1..n) /\ Len(b) \in Nat /\ \A i \in 1..Len(b) : \E j \in 1..Len(v) : b[i] = v[j]
  <2>1. CASE e <= Len(v)
    <3>1. b \in Seq(1..n) /\ Len(b) = Len(v) - e /\ \A i \in 1..(Len(v) - e) : b[i] = v[i + e]
      BY <2>1
    <3>2. \A i \in 1..(Len(v) - e) : i + e \in 1..Len(v)
      BY <2>1
    <3> HIDE DEF b
    <3>3. Len(b) \in Nat
      BY <1>1, <2>1, <3>1
    <3>4. ASSUME NEW i \in 1..Len(b) PROVE \E j \in 1..Len(v) : b[i] = v[j]
      <4>1. i \in 1..(Len(v) - e)
        BY <3>1
      <4>2. i + e \in 1..Len(v) /\ b[i] = v[i + e]
        BY <3>1, <3>2, <4>1
      <4> QED
        BY <4>2
    <3> QED
      BY <3>1, <3>3, <3>4
  <2>2. CASE e = Len(v) + 1
    <3>1. b = <<>>
      BY <2>2
    <3> HIDE DEF b
    <3>2. <<>> \in Seq(1..n) /\ Len(<<>>) = 0 /\ 1..0 = {}
      OBVIOUS
    <3>3. b \in Seq(1..n) /\ Len(b) = 0 /\ Len(b) \in Nat
      BY <3>1, <3>2
    <3>4. 1..Len(b) = {}
      BY <3>2, <3>3
    <3> QED
      BY <3>3, <3>4
  <2> QED
    BY <2>1, <2>2
<1>3. e = Len(v) + 1 => Len(b) = 0
  OBVIOUS
<1> HIDE DEF a, b
<1>4. /\ w \in Seq(1..n) /\ Len(w) = e + Len(b)
      /\ \A i \in 1..(e - 1) : w[i] = a[i]
      /\ w[e] = x
      /\ \A i \in (e + 1)..(e + Len(b)) : w[i] = b[i - e]
  <2> DEFINE m == a \o <<x>>
  <2>1. <<x>> \in Seq(1..n) /\ Len(<<x>>) = 1 /\ <<x>>[1] = x
    OBVIOUS
  <2>2. /\ m \in Seq(1..n) /\ Len(m) = e
        /\ \A i \in 1..e : m[i] = IF i <= e - 1 THEN a[i] ELSE <<x>>[i - (e - 1)]
    <3>1. /\ m \in Seq(1..n) /\ Len(m) = Len(a) + 1
          /\ \A i \in 1..(Len(a) + 1) : m[i] = IF i <= Len(a) THEN a[i] ELSE <<x>>[i - Len(a)]
      BY <1>1, <2>1, TwoOf
    <3> QED
      BY <1>1, <3>1
  <2>3. m[e] = x /\ \A i \in 1..(e - 1) : m[i] = a[i]
    <3>1. e \in 1..e /\ e - (e - 1) = 1 /\ ~(e <= e - 1)
      OBVIOUS
    <3>2. m[e] = <<x>>[1]
      BY <2>2, <3>1
    <3> QED
      BY <2>1, <2>2, <3>2
  <2> HIDE DEF m
  <2>4. /\ w \in Seq(1..n) /\ Len(w) = e + Len(b)
        /\ \A i \in 1..(e + Len(b)) : w[i] = IF i <= e THEN m[i] ELSE b[i - e]
    <3>1. w = m \o b
      BY DEF m
    <3>2. /\ m \o b \in Seq(1..n) /\ Len(m \o b) = Len(m) + Len(b)
          /\ \A i \in 1..(Len(m) + Len(b)) : (m \o b)[i] = IF i <= Len(m) THEN m[i] ELSE b[i - Len(m)]
      BY <1>2, <2>2, TwoOf
    <3> QED
      BY <2>2, <3>1, <3>2
  <2> HIDE DEF w
  <2>5. ASSUME NEW i \in 1..(e - 1) PROVE w[i] = a[i]
    <3>1. i \in 1..(e + Len(b)) /\ i <= e
      BY <1>2
    <3> QED
      BY <2>3, <2>4, <3>1
  <2>6. w[e] = x
    <3>1. e \in 1..(e + Len(b)) /\ e <= e
      BY <1>2
    <3> QED
      BY <2>3, <2>4, <3>1
  <2>7. ASSUME NEW i \in (e + 1)..(e + Len(b)) PROVE w[i] = b[i - e]
    <3>1. i \in 1..(e + Len(b)) /\ ~(i <= e)
      BY <1>2
    <3> QED
      BY <2>4, <3>1
  <2> QED
    BY <2>4, <2>5, <2>6, <2>7
<1> HIDE DEF w
<1>5. DOMAIN w = 1..(e + Len(b))
  BY <1>4
<1>6. ASSUME NEW i \in DOMAIN w PROVE w[i] \in P!ToSet(v) \cup {x}
  <2>1. CASE i \in 1..(e - 1)
    <3>1. i \in DOMAIN v /\ w[i] = v[i]
      BY <1>1, <1>4, <2>1
    <3> QED
      BY <3>1 DEF P!ToSet
  <2>2. CASE i = e
    BY <1>4, <2>2
  <2>3. CASE i \in (e + 1)..(e + Len(b))
    <3>1. i - e \in 1..Len(b)
      BY <1>2, <2>3
    <3>3. w[i] = b[i - e]
      BY <1>4, <2>3
    <3>2. PICK j \in 1..Len(v) : b[i - e] = v[j]
      BY <1>2, <3>1
    <3> QED
      BY <1>1, <3>3, <3>2 DEF P!ToSet
  <2> QED
    BY <1>2, <1>5, <2>1, <2>2, <2>3
<1>7. ASSUME e = Len(v) + 1 PROVE P!ToSet(v) \cup {x} \subseteq P!ToSet(w)
  <2>1. e \in DOMAIN w /\ w[e] = x
    BY <1>2, <1>4, <1>5
  <2>2. ASSUME NEW i \in DOMAIN v PROVE i \in DOMAIN w /\ w[i] = v[i]
    <3>1. i \in 1..(e - 1)
      BY <1>1, <1>7
    <3>2. w[i] = a[i] /\ a[i] = v[i]
      BY <1>1, <1>4, <3>1
    <3> QED
      BY <1>2, <1>5, <3>1, <3>2
  <2> QED
    BY <2>1, <2>2 DEF P!ToSet
<1> QED
  BY <1>4, <1>6, <1>7 DEF P!ToSet, w, a, b

LEMMA PositionInit == P!Init => PositionInv
<1> SUFFICES ASSUME P!Init PROVE PositionInv
  OBVIOUS
<1>1. /\ next = 0 /\ m_InsertData = <<>> /\ position = [t \in Handlers |-> 0]
      /\ insertAt = [t \in Handlers |-> "idle"]
      /\ place = [t \in Handlers |-> [full |-> FALSE, end |-> 0]]
      /\ batches = <<>> /\ storedRows = <<>> /\ result = <<>> /\ batch = [t \in Handlers |-> 0]
      /\ row = [t \in Handlers |-> 0] /\ inserter = [t \in Handlers |-> "auto"] /\ overlapped = {}
  BY DEF P!Init, P!Threads, Handlers, P!NoPlace
<1>2. P!ToSet(<<>>) = {} /\ Batched = {} /\ DOMAIN batches = {}
  BY <1>1 DEF P!ToSet, Batched
<1>3. /\ \A t \in Handlers : position[t] = 0 /\ insertAt[t] = "idle" /\ row[t] = 0
      /\ "run" \in Handlers /\ "slots" \in Handlers
  BY <1>1 DEF Handlers
<1>4. PositionType
  <2>1. 0 \in 0..next /\ 0 \in Nat /\ [full |-> FALSE, end |-> 0] \in [full : BOOLEAN, end : Nat]
    BY <1>1
  <2> QED
    BY <1>1, <2>1 DEF PositionType, AtHand
<1>5. InOnePlace /\ Touched /\ Kept
  BY <1>1, <1>2, <1>3 DEF InOnePlace, Touched, Kept, Flushing
<1>6. BatchInv
  BY <1>1, <1>2, <1>3 DEF BatchInv, P!BatchesWhole
<1> QED
  BY <1>4, <1>5, <1>6 DEF PositionInv

\* Steps that leave the batches alone.
LEMMA BatchesKept ==
  ASSUME PositionInv, UNCHANGED <<batches, storedRows, result, batch, row, inserter>>,
         NEW t \in Handlers, NEW from, NEW to, P!Goes(t, from, to),
         from \notin {"begin", "rows"}, to \notin {"begin", "rows"}
  PROVE  BatchInv'
<1>1. /\ insertAt[t] = from /\ insertAt'[t] = to
      /\ \A u \in Handlers \ {t} : insertAt'[u] = insertAt[u]
  BY GoesIs DEF PositionInv
<1> QED
  BY <1>1 DEF PositionInv, BatchInv, P!BatchesWhole

LEMMA PositionTold == ASSUME PositionInv, NEW t \in Handlers, P!WriteData2DB(t) PROVE PositionInv'
<1>1. /\ next' = next + 1 /\ position' = [position EXCEPT ![t] = next + 1]
      /\ P!Goes(t, "idle", "test")
      /\ UNCHANGED <<m_InsertData, place, batches, storedRows, result, batch, row, inserter>>
  BY DEF P!WriteData2DB, P!insertVars
<1>2. /\ insertAt[t] = "idle" /\ insertAt'[t] = "test"
      /\ \A u \in Handlers \ {t} : insertAt'[u] = insertAt[u]
      /\ overlapped \subseteq overlapped'
      /\ (\A u \in Handlers : insertAt'[u] # "idle") =>
            /\ P!ToSet(m_InsertData) \subseteq overlapped'
            /\ \A u \in Handlers : position'[u] \in overlapped'
      /\ insertAt' = [insertAt EXCEPT ![t] = "test"]
  BY <1>1, GoesIs DEF PositionInv
<1>3. PositionType /\ InOnePlace /\ Touched /\ Kept /\ next \in Nat
  BY DEF PositionInv, PositionType
<1>4. /\ position[t] = 0 /\ position'[t] = next + 1
      /\ \A u \in Handlers \ {t} : position'[u] = position[u]
      /\ \A u \in Handlers : position[u] \in 0..next
  BY <1>1, <1>2, <1>3 DEF PositionType, AtHand
<1>5. P!ToSet(m_InsertData) \subseteq 1..next /\ Batched \subseteq 1..next
  BY <1>3, ElementsOf DEF PositionType, Batched
<1>6. PositionType'
  <2>1. 1..next \subseteq 1..next' /\ 0..next \subseteq 0..next' /\ next + 1 \in 0..next' /\ next' \in Nat
    BY <1>1, <1>3
  <2>2. Seq(1..next) \subseteq Seq(1..next')
    BY <2>1, SeqGrows
  <2>3. m_InsertData' \in Seq(1..next') /\ batches' \in Seq(Seq(1..next'))
    BY <1>1, <1>3, <2>2, SeqGrows DEF PositionType
  <2>4. position' \in [Handlers -> 0..next']
    BY <1>1, <1>3, <2>1 DEF PositionType
  <2>5. insertAt' \in [Handlers -> {"idle", "test", "push", "write", "insert", "begin", "rows", "clear"}]
    BY <1>2, <1>3 DEF PositionType
  <2>6. \A u \in Handlers : position'[u] # 0 <=> insertAt'[u] \in AtHand
    BY <1>2, <1>3, <1>4 DEF PositionType, AtHand
  <2>7. \A u \in Handlers : insertAt'[u] = "write" => place'[u].end > 0
    BY <1>1, <1>2, <1>3 DEF PositionType
  <2> QED
    BY <1>1, <1>3, <2>1, <2>3, <2>4, <2>5, <2>6, <2>7 DEF PositionType
<1>7. Batched' = Batched /\ P!ToSet(m_InsertData)' = P!ToSet(m_InsertData)
  BY <1>1 DEF Batched
<1>8. InOnePlace'
  <2>1. next + 1 \notin 1..next /\ next + 1 \notin 0..next /\ next + 1 # 0
    BY <1>3
  <2>2. \A u \in Handlers : position'[u] # 0 => position'[u] \notin P!ToSet(m_InsertData)' \cup Batched'
    BY <1>3, <1>4, <1>5, <1>7, <2>1 DEF InOnePlace
  <2>3. position'["run"] = position'["slots"] => position'["run"] = 0
    BY <1>4, <2>1 DEF Handlers
  <2> QED
    BY <2>2, <2>3 DEF InOnePlace
<1>9. Touched'
  BY <1>1, <1>2, <1>3, <1>4, <1>7 DEF Touched
<1>10. Kept'
  <2>1. \A b : PositionsOf(b)' = PositionsOf(b)
    BY <1>1 DEF PositionsOf
  <2>2. ASSUME NEW p \in 1..next' \ overlapped'
        PROVE  /\ \A b, c \in DOMAIN batches : p \in PositionsOf(b) /\ p \in PositionsOf(c) => b = c
               /\ (\A u \in Handlers : position'[u] # p) => p \in P!ToSet(m_InsertData) \cup Batched
    <3>1. CASE p = next + 1
      <4>1. \A b \in DOMAIN batches : p \notin PositionsOf(b)
        BY <1>3, <1>5, <3>1 DEF PositionsOf, Batched
      <4> QED
        BY <1>4, <3>1, <4>1
    <3>2. CASE p # next + 1
      <4>1. p \in 1..next \ overlapped /\ p # 0
        BY <1>1, <1>2, <1>3, <3>2
      <4> QED
        BY <1>3, <1>4, <4>1 DEF Kept
    <3> QED
      BY <3>1, <3>2
  <2>3. /\ \A u \in Handlers : insertAt'[u] \in Flushing =>
             P!ToSet(m_InsertData) \subseteq overlapped' \cup Batched
        /\ (\A u \in Handlers : insertAt'[u] \notin Flushing) =>
             P!ToSet(m_InsertData) \cap Batched \subseteq overlapped'
    BY <1>2, <1>3 DEF Kept, Flushing
  <2> QED
    BY <1>1, <1>7, <2>1, <2>2, <2>3 DEF Kept
<1>11. BatchInv'
  BY <1>1, BatchesKept
<1> QED
  BY <1>6, <1>8, <1>9, <1>10, <1>11 DEF PositionInv
\* A thread in DataBaseInsert goes on, and no position is moved.
LEMMA PositionGoes ==
  ASSUME PositionInv, NEW t \in Handlers, NEW from, NEW to, P!Goes(t, from, to), from # "idle",
         UNCHANGED <<next, m_InsertData, position, batches>>,
         place' \in [Handlers -> [full : BOOLEAN, end : Nat]],
         \A u \in Handlers \ {t} : place'[u] = place[u],
         to = "write" => place'[t].end = Len(m_InsertData) + 1,
         from \in AtHand <=> to \in AtHand,
         to \in Flushing => from \in Flushing \/ m_InsertData = <<>>,
         from \in Flushing => to \in Flushing,
         to \in {"idle", "test", "push", "write", "insert", "begin", "rows", "clear"}
  PROVE  PositionType' /\ InOnePlace' /\ Touched' /\ Kept'
<1>1. /\ insertAt[t] = from /\ insertAt'[t] = to
      /\ \A u \in Handlers \ {t} : insertAt'[u] = insertAt[u]
      /\ overlapped \subseteq overlapped'
      /\ (\A u \in Handlers : insertAt'[u] # "idle") =>
            /\ P!ToSet(m_InsertData) \subseteq overlapped'
            /\ \A u \in Handlers : position'[u] \in overlapped'
      /\ insertAt' = [insertAt EXCEPT ![t] = to]
  BY GoesIs DEF PositionInv
<1>2. PositionType /\ InOnePlace /\ Touched /\ Kept
  BY DEF PositionInv
<1>3. Len(m_InsertData) \in Nat /\ (m_InsertData = <<>> => P!ToSet(m_InsertData) = {})
  BY <1>2 DEF PositionType, P!ToSet
<1>4. Batched' = Batched /\ P!ToSet(m_InsertData)' = P!ToSet(m_InsertData)
  BY DEF Batched
<1>5. PositionType'
  <2>1. \A u \in Handlers : position'[u] # 0 <=> insertAt'[u] \in AtHand
    BY <1>1, <1>2 DEF PositionType
  <2>2. \A u \in Handlers : insertAt'[u] = "write" => place'[u].end > 0
    BY <1>1, <1>2, <1>3 DEF PositionType
  <2>3. insertAt' \in [Handlers -> {"idle", "test", "push", "write", "insert", "begin", "rows", "clear"}]
    BY <1>1, <1>2 DEF PositionType
  <2> QED
    BY <1>2, <2>1, <2>2, <2>3 DEF PositionType
<1>6. InOnePlace'
  BY <1>2, <1>4 DEF InOnePlace
<1>7. Touched'
  <2>1. \A u \in Handlers : insertAt'[u] = "write" /\ place'[u].end # Len(m_InsertData) + 1 =>
          position'[u] \in overlapped' /\ P!ToSet(m_InsertData) \subseteq overlapped'
    BY <1>1, <1>2 DEF Touched
  <2> QED
    BY <1>1, <1>4, <2>1 DEF Touched
<1>8. Kept'
  <2>1. \A b : PositionsOf(b)' = PositionsOf(b)
    BY DEF PositionsOf
  <2>2. \A u \in Handlers : insertAt'[u] \in Flushing =>
          P!ToSet(m_InsertData) \subseteq overlapped' \cup Batched
    BY <1>1, <1>2, <1>3 DEF Kept
  <2>3. (\A u \in Handlers : insertAt'[u] \notin Flushing) =>
          P!ToSet(m_InsertData) \cap Batched \subseteq overlapped'
    BY <1>1, <1>2 DEF Kept
  <2>4. \A p \in 1..next \ overlapped' :
          /\ \A b, c \in DOMAIN batches : p \in PositionsOf(b) /\ p \in PositionsOf(c) => b = c
          /\ (\A u \in Handlers : position[u] # p) => p \in P!ToSet(m_InsertData) \cup Batched
    BY <1>1, <1>2 DEF Kept
  <2> QED
    BY <1>4, <2>1, <2>2, <2>3, <2>4 DEF Kept
<1> QED
  BY <1>5, <1>6, <1>7, <1>8

LEMMA PositionTest ==
  ASSUME PositionInv, NEW t \in Handlers, P!TestSize(t) \/ P!PushEnd(t) PROVE PositionInv'
<1>1. UNCHANGED <<next, m_InsertData, position, batches, storedRows, result, batch, row, inserter>>
  BY DEF P!TestSize, P!PushEnd, P!insertVars
<1>2. Len(m_InsertData) \in Nat /\ place \in [Handlers -> [full : BOOLEAN, end : Nat]]
  BY DEF PositionInv, PositionType
<1>3. CASE P!TestSize(t)
  <2>1. /\ place' = [place EXCEPT ![t] = [place[t] EXCEPT !.full = (Len(m_InsertData) > Limit)]]
        /\ P!Goes(t, "test", "push")
    BY <1>2, <1>3 DEF P!TestSize
  <2>2. (Len(m_InsertData) > Limit) \in BOOLEAN
    OBVIOUS
  <2>3. place' \in [Handlers -> [full : BOOLEAN, end : Nat]] /\ \A u \in Handlers \ {t} : place'[u] = place[u]
    BY <1>2, <2>1, <2>2
  <2> QED
    BY <1>1, <2>1, <2>3, PositionGoes, BatchesKept DEF AtHand, Flushing, PositionInv
<1>4. CASE P!PushEnd(t)
  <2>1. /\ place' = [place EXCEPT ![t] = [place[t] EXCEPT !.end = Len(m_InsertData) + 1]]
        /\ P!Goes(t, "push", "write")
    BY <1>2, <1>4 DEF P!PushEnd
  <2>2. /\ place' \in [Handlers -> [full : BOOLEAN, end : Nat]] /\ \A u \in Handlers \ {t} : place'[u] = place[u]
        /\ place'[t].end = Len(m_InsertData) + 1
    BY <1>2, <2>1
  <2> QED
    BY <1>1, <2>1, <2>2, PositionGoes, BatchesKept DEF AtHand, Flushing, PositionInv
<1> QED
  BY <1>3, <1>4
LEMMA PositionPushed == ASSUME PositionInv, NEW t \in Handlers, P!PushWrite(t) PROVE PositionInv'
<1> DEFINE x == position[t]
           v == m_InsertData
           e == place[t].end
           to == IF place[t].full THEN "insert" ELSE "idle"
<1>1. /\ position' = [position EXCEPT ![t] = 0] /\ P!Goes(t, "write", to)
      /\ place' = [place EXCEPT ![t] = [full |-> FALSE, end |-> 0]]
      /\ m_InsertData' = IF e > Len(v) + 1 THEN v
                         ELSE SubSeq(v, 1, e - 1) \o <<x>> \o SubSeq(v, e + 1, Len(v))
      /\ UNCHANGED <<next, batches, storedRows, result, batch, row, inserter>>
  BY DEF P!PushWrite, P!insertVars, P!NoPlace
<1>2. /\ insertAt[t] = "write" /\ insertAt'[t] = to
      /\ \A u \in Handlers \ {t} : insertAt'[u] = insertAt[u]
      /\ overlapped \subseteq overlapped'
      /\ (\A u \in Handlers : insertAt'[u] # "idle") =>
            /\ P!ToSet(v) \subseteq overlapped'
            /\ \A u \in Handlers : position'[u] \in overlapped'
      /\ insertAt' = [insertAt EXCEPT ![t] = to]
  BY <1>1, GoesIs DEF PositionInv
<1>3. PositionType /\ InOnePlace /\ Touched /\ Kept
  BY DEF PositionInv
<1>4. /\ next \in Nat /\ v \in Seq(1..next) /\ Len(v) \in Nat /\ x \in 1..next /\ e \in Nat /\ e > 0
      /\ to \in {"insert", "idle"}
  <2>1. x # 0 /\ x \in 0..next /\ next \in Nat
    BY <1>2, <1>3 DEF PositionType, AtHand
  <2>2. place[t] \in [full : BOOLEAN, end : Nat] /\ v \in Seq(1..next)
    BY <1>3 DEF PositionType
  <2>3. e \in Nat /\ e > 0
    BY <1>2, <1>3, <2>2 DEF PositionType
  <2> QED
    BY <2>1, <2>2, <2>3
<1> HIDE DEF x, v, e, to
<1>5. /\ m_InsertData' \in Seq(1..next) /\ P!ToSet(m_InsertData') \subseteq P!ToSet(v) \cup {x}
      /\ e = Len(v) + 1 => P!ToSet(v) \cup {x} \subseteq P!ToSet(m_InsertData')
  <2>1. CASE e > Len(v) + 1
    BY <1>1, <1>4, <2>1
  <2>2. CASE e <= Len(v) + 1
    <3> DEFINE w == SubSeq(v, 1, e - 1) \o <<x>> \o SubSeq(v, e + 1, Len(v))
    <3>1. /\ w \in Seq(1..next) /\ P!ToSet(w) \subseteq P!ToSet(v) \cup {x}
          /\ e = Len(v) + 1 => P!ToSet(v) \cup {x} \subseteq P!ToSet(w)
      BY <1>4, <2>2, PushedIs
    <3>2. m_InsertData' = w
      <4>1. ~(e > Len(v) + 1)
        BY <1>4, <2>2
      <4> QED
        BY <1>1, <4>1, Zenon
    <3> HIDE DEF w
    <3> QED
      BY <3>1, <3>2
  <2> QED
    BY <1>4, <2>1, <2>2
<1>6. /\ position[t] = x /\ position'[t] = 0 /\ x # 0
      /\ \A u \in Handlers \ {t} : position'[u] = position[u]
      /\ \A u \in Handlers \ {t} : place'[u] = place[u]
  BY <1>1, <1>3, <1>4 DEF PositionType, x
<1>7. Batched' = Batched /\ x \notin P!ToSet(v) \cup Batched
  BY <1>1, <1>3, <1>6 DEF Batched, InOnePlace, v
\* The other thread is here as well: both touched the vector and the position.
<1>8. ASSUME \E u \in Handlers \ {t} : insertAt[u] # "idle"
      PROVE  P!ToSet(v) \cup {x} \subseteq overlapped
  <2>1. \A u \in Handlers : insertAt[u] # "idle"
    BY <1>2, <1>8 DEF Handlers
  <2> QED
    BY <1>3, <1>6, <2>1 DEF Touched, v
<1>9. PositionType'
  <2>1. \A u \in Handlers : position'[u] # 0 <=> insertAt'[u] \in AtHand
    BY <1>2, <1>3, <1>4, <1>6 DEF PositionType, AtHand
  <2>2. \A u \in Handlers : insertAt'[u] = "write" => place'[u].end > 0
    BY <1>2, <1>3, <1>4, <1>6 DEF PositionType
  <2>3. insertAt' \in [Handlers -> {"idle", "test", "push", "write", "insert", "begin", "rows", "clear"}]
    BY <1>2, <1>3, <1>4 DEF PositionType
  <2>4. position' \in [Handlers -> 0..next] /\ place' \in [Handlers -> [full : BOOLEAN, end : Nat]]
    BY <1>1, <1>3, <1>4 DEF PositionType
  <2> QED
    BY <1>1, <1>3, <1>5, <2>1, <2>2, <2>3, <2>4 DEF PositionType
<1>10. InOnePlace'
  <2>1. ASSUME NEW u \in Handlers, position'[u] # 0
        PROVE  position'[u] \notin P!ToSet(m_InsertData') \cup Batched
    <3>1. u # t /\ position'[u] = position[u]
      BY <1>6, <2>1
    <3>2. position[u] \notin P!ToSet(v) \cup Batched
      BY <1>3, <2>1, <3>1 DEF InOnePlace, v
    <3>3. position[u] # x
      BY <1>3, <1>6, <3>1 DEF InOnePlace, Handlers
    <3> QED
      BY <1>5, <3>1, <3>2, <3>3
  <2>2. position'["run"] = position'["slots"] => position'["run"] = 0
    BY <1>3, <1>6 DEF InOnePlace, Handlers
  <2> QED
    BY <1>7, <2>1, <2>2 DEF InOnePlace
<1>11. Touched'
  <2>1. ASSUME \A u \in Handlers : insertAt'[u] # "idle"
        PROVE  /\ P!ToSet(m_InsertData') \subseteq overlapped'
               /\ \A u \in Handlers : position'[u] # 0 => position'[u] \in overlapped'
    <3>1. \E u \in Handlers \ {t} : insertAt[u] # "idle"
      BY <1>2, <2>1 DEF Handlers
    <3> QED
      BY <1>2, <1>5, <1>8, <2>1, <3>1
  <2>2. ASSUME NEW u \in Handlers, insertAt'[u] = "write"
        PROVE  position'[u] \in overlapped' /\ P!ToSet(m_InsertData') \subseteq overlapped'
    <3>1. u # t /\ insertAt[u] = "write" /\ position'[u] = position[u] /\ position[u] # 0
      BY <1>2, <1>3, <1>4, <1>6, <2>2 DEF PositionType, AtHand
    <3>2. \A w \in Handlers : insertAt[w] # "idle"
      BY <1>2, <3>1 DEF Handlers
    <3> QED
      BY <1>2, <1>3, <1>5, <1>8, <3>1, <3>2 DEF Touched
  <2> QED
    BY <2>1, <2>2 DEF Touched
<1>12. Kept'
  <2>1. \A b : PositionsOf(b)' = PositionsOf(b)
    BY <1>1 DEF PositionsOf
  <2>2. ASSUME NEW u \in Handlers, insertAt'[u] \in Flushing
        PROVE  P!ToSet(m_InsertData') \subseteq overlapped' \cup Batched
    <3>1. u # t /\ insertAt[u] # "idle"
      BY <1>2, <1>4, <2>2 DEF Flushing
    <3> QED
      BY <1>2, <1>5, <1>8, <3>1
  <2>3. ASSUME \A u \in Handlers : insertAt'[u] \notin Flushing
        PROVE  P!ToSet(m_InsertData') \cap Batched \subseteq overlapped'
    <3>1. \A u \in Handlers : insertAt[u] \notin Flushing
      BY <1>2, <2>3 DEF Flushing
    <3>2. P!ToSet(v) \cap Batched \subseteq overlapped
      BY <1>3, <3>1 DEF Kept, v
    <3> QED
      BY <1>2, <1>5, <1>7, <3>2
  <2>4. ASSUME NEW p \in 1..next \ overlapped', \A u \in Handlers : position'[u] # p
        PROVE  p \in P!ToSet(m_InsertData') \cup Batched
    <3>1. p \notin overlapped
      BY <1>2
    <3>2. CASE p = x
      <4>1. e = Len(v) + 1
        BY <1>2, <1>3, <1>6, <3>1, <3>2 DEF Touched, e, v
      <4> QED
        BY <1>5, <3>2, <4>1
    <3>3. CASE p # x
      <4>1. \A u \in Handlers : position[u] # p
        BY <1>6, <2>4, <3>3
      <4>2. p \in P!ToSet(v) \cup Batched
        BY <1>3, <3>1, <4>1 DEF Kept, v
      <4>3. CASE p \in P!ToSet(v)
        <5>1. e = Len(v) + 1
          BY <1>2, <1>3, <3>1, <4>3 DEF Touched, e, v
        <5> QED
          BY <1>5, <4>3, <5>1
      <4> QED
        BY <4>2, <4>3
    <3> QED
      BY <3>2, <3>3
  <2>5. \A p \in 1..next \ overlapped' :
          \A b, c \in DOMAIN batches : p \in PositionsOf(b) /\ p \in PositionsOf(c) => b = c
    BY <1>2, <1>3 DEF Kept
  <2> QED
    BY <1>1, <1>7, <2>1, <2>2, <2>3, <2>4, <2>5 DEF Kept
<1>13. BatchInv'
  BY <1>1, <1>4, BatchesKept
<1> QED
  BY <1>9, <1>10, <1>11, <1>12, <1>13 DEF PositionInv

LEMMA PositionClear == ASSUME PositionInv, NEW t \in Handlers, P!Clear(t) PROVE PositionInv'
<1>1. /\ P!Goes(t, "clear", "idle") /\ m_InsertData' = <<>>
      /\ UNCHANGED <<next, position, place, batches, storedRows, result, batch, row, inserter>>
  BY DEF P!Clear, P!insertVars
<1>2. /\ insertAt[t] = "clear" /\ insertAt'[t] = "idle"
      /\ \A u \in Handlers \ {t} : insertAt'[u] = insertAt[u]
      /\ overlapped \subseteq overlapped'
      /\ insertAt' = [insertAt EXCEPT ![t] = "idle"]
  BY <1>1, GoesIs DEF PositionInv
<1>3. PositionType /\ InOnePlace /\ Touched /\ Kept
  BY DEF PositionInv
<1>4. P!ToSet(m_InsertData') = {} /\ Batched' = Batched /\ m_InsertData' \in Seq(1..next)
  BY <1>1 DEF P!ToSet, Batched
<1>5. PositionType'
  BY <1>1, <1>2, <1>3, <1>4 DEF PositionType, AtHand
<1>6. InOnePlace'
  BY <1>1, <1>3, <1>4 DEF InOnePlace
<1>7. Touched'
  <2>1. ASSUME NEW u \in Handlers, insertAt'[u] = "write" PROVE position'[u] \in overlapped'
    <3>1. /\ insertAt[u] = "write" /\ position[u] # 0 /\ position'[u] = position[u]
          /\ \A w \in Handlers : insertAt[w] # "idle"
      BY <1>1, <1>2, <1>3, <2>1 DEF PositionType, AtHand, Handlers
    <3> QED
      BY <1>2, <1>3, <3>1 DEF Touched
  <2> QED
    BY <1>2, <1>4, <2>1 DEF Touched
<1>8. Kept'
  <2>1. \A b : PositionsOf(b)' = PositionsOf(b)
    BY <1>1 DEF PositionsOf
  <2>2. P!ToSet(m_InsertData) \subseteq overlapped \cup Batched
    BY <1>2, <1>3 DEF Kept, Flushing
  <2>3. ASSUME NEW p \in 1..next \ overlapped'
        PROVE  /\ \A b, c \in DOMAIN batches : p \in PositionsOf(b) /\ p \in PositionsOf(c) => b = c
               /\ (\A u \in Handlers : position[u] # p) => p \in Batched
    BY <1>2, <1>3, <2>2 DEF Kept
  <2> QED
    BY <1>1, <1>4, <2>1, <2>3 DEF Kept
<1>9. BatchInv'
  BY <1>1, BatchesKept
<1> QED
  BY <1>5, <1>6, <1>7, <1>8, <1>9 DEF PositionInv
LEMMA PositionInsert == ASSUME PositionInv, NEW t \in Handlers, P!Insert(t) PROVE PositionInv'
<1> DEFINE v == m_InsertData
           n == Len(batches) + 1
<1>1. /\ P!Goes(t, "insert", "begin") /\ v # <<>>
      /\ batches' = Append(batches, v) /\ storedRows' = Append(storedRows, {})
      /\ result' = Append(result, "none") /\ batch' = [batch EXCEPT ![t] = Len(batches')]
      /\ UNCHANGED <<next, m_InsertData, position, place, row, inserter>>
  BY DEF P!Insert, P!bufferVars
<1>2. /\ insertAt[t] = "insert" /\ insertAt'[t] = "begin"
      /\ \A u \in Handlers \ {t} : insertAt'[u] = insertAt[u]
      /\ overlapped \subseteq overlapped'
      /\ (\A u \in Handlers : insertAt'[u] # "idle") =>
            /\ P!ToSet(m_InsertData) \subseteq overlapped'
            /\ \A u \in Handlers : position'[u] \in overlapped'
      /\ insertAt' = [insertAt EXCEPT ![t] = "begin"]
  BY <1>1, GoesIs DEF PositionInv
<1>3. PositionType /\ InOnePlace /\ Touched /\ Kept /\ BatchInv
  BY DEF PositionInv
<1>4. v \in Seq(1..next) /\ batches \in Seq(Seq(1..next)) /\ Len(batches) \in Nat
  BY <1>3 DEF PositionType
<1> HIDE DEF v
<1>5. /\ batches' \in Seq(Seq(1..next)) /\ Len(batches') = n /\ DOMAIN batches = 1..(n - 1)
      /\ DOMAIN batches' = 1..n /\ batches'[n] = v
      /\ \A b \in 1..(n - 1) : batches'[b] = batches[b] /\ b \in 1..n
  BY <1>1, <1>4
<1>6. Batched' = Batched \cup P!ToSet(v)
  <2>1. Batched' = UNION {P!ToSet(batches'[b]) : b \in 1..n}
    BY <1>5 DEF Batched
  <2>2. Batched = UNION {P!ToSet(batches[b]) : b \in 1..(n - 1)}
    BY <1>5 DEF Batched
  <2>3. \A b \in 1..n : b = n \/ b \in 1..(n - 1)
    BY <1>4
  <2>4. n \in 1..n
    BY <1>4
  <2>5. Batched' \subseteq Batched \cup P!ToSet(v)
    <3> SUFFICES ASSUME NEW b \in 1..n PROVE P!ToSet(batches'[b]) \subseteq Batched \cup P!ToSet(v)
      BY <2>1
    <3>1. CASE b = n
      BY <1>5, <3>1
    <3>2. CASE b \in 1..(n - 1)
      BY <1>5, <2>2, <3>2
    <3> QED
      BY <2>3, <3>1, <3>2
  <2>6. P!ToSet(v) \subseteq Batched'
    BY <1>5, <2>1, <2>4
  <2>7. Batched \subseteq Batched'
    BY <1>5, <2>1, <2>2
  <2> QED
    BY <2>5, <2>6, <2>7
<1>7. ASSUME NEW b \in 1..(n - 1) PROVE PositionsOf(b)' = PositionsOf(b) /\ PositionsOf(b) \subseteq Batched
  <2>1. batches'[b] = batches[b] /\ b \in DOMAIN batches
    BY <1>5
  <2>2. PositionsOf(b)' = PositionsOf(b)
    BY <2>1 DEF PositionsOf
  <2> QED
    BY <2>1, <2>2 DEF PositionsOf, Batched
<1>n. ASSUME NEW b, b = n PROVE PositionsOf(b)' = P!ToSet(v)
  BY <1>5, <1>n DEF PositionsOf
<1>8. PositionType'
  BY <1>1, <1>2, <1>3, <1>5 DEF PositionType, AtHand
<1>9. InOnePlace'
  BY <1>1, <1>3, <1>6 DEF InOnePlace, v
<1>10. Touched'
  BY <1>1, <1>2, <1>3 DEF Touched
<1>11. Kept'
  <2>1. ASSUME NEW p \in 1..next \ overlapped', p \in P!ToSet(v) PROVE p \notin Batched
    <3>1. p \notin overlapped
      BY <1>2
    <3>2. \A u \in Handlers \ {t} : insertAt[u] = "idle"
      <4>1. ~(\A u \in Handlers : insertAt[u] # "idle")
        BY <1>3, <2>1, <3>1 DEF Touched, v
      <4> QED
        BY <1>2, <4>1 DEF Handlers
    <3>3. \A u \in Handlers : insertAt[u] \notin Flushing
      BY <1>2, <3>2 DEF Flushing
    <3> QED
      BY <1>3, <2>1, <3>1, <3>3 DEF Kept, v
  <2>2. ASSUME NEW p \in 1..next \ overlapped', NEW b \in 1..n, NEW c \in 1..n,
               p \in PositionsOf(b)', p \in PositionsOf(c)'
        PROVE  b = c
    <3>1. CASE b = n /\ c = n
      BY <3>1
    <3>2. CASE b = n /\ c \in 1..(n - 1)
      <4>1. p \in P!ToSet(v) /\ p \in Batched
        BY <1>7, <1>n, <2>2, <3>2
      <4> QED
        BY <2>1, <4>1
    <3>3. CASE b \in 1..(n - 1) /\ c = n
      <4>1. p \in P!ToSet(v) /\ p \in Batched
        BY <1>7, <1>n, <2>2, <3>3
      <4> QED
        BY <2>1, <4>1
    <3>4. CASE b \in 1..(n - 1) /\ c \in 1..(n - 1)
      <4>1. p \in PositionsOf(b) /\ p \in PositionsOf(c) /\ p \in 1..next \ overlapped
        BY <1>2, <1>7, <2>2, <3>4
      <4> QED
        BY <1>3, <1>5, <3>4, <4>1 DEF Kept
    <3>5. \A d \in 1..n : d = n \/ d \in 1..(n - 1)
      BY <1>4
    <3> QED
      BY <3>1, <3>2, <3>3, <3>4, <3>5
  <2>3. ASSUME NEW p \in 1..next \ overlapped', \A u \in Handlers : position[u] # p
        PROVE  p \in P!ToSet(v) \cup Batched'
    BY <1>2, <1>3, <1>6, <2>3 DEF Kept, v
  <2>4. /\ P!ToSet(v) \subseteq Batched' /\ insertAt'[t] \in Flushing
        /\ P!ToSet(m_InsertData)' = P!ToSet(v) /\ next' = next
    BY <1>1, <1>2, <1>6 DEF Flushing, v
  <2> QED
    BY <1>1, <1>5, <2>2, <2>3, <2>4 DEF Kept
<1>12. BatchInv'
  <2>1. /\ storedRows \in Seq(SUBSET Nat) /\ Len(storedRows) = n - 1
        /\ result \in Seq({"none", "success", "failure"}) /\ Len(result) = n - 1
    BY <1>3, <1>4 DEF BatchInv
  <2>2. /\ storedRows' \in Seq(SUBSET Nat) /\ Len(storedRows') = n /\ storedRows'[n] = {}
        /\ \A b \in 1..(n - 1) : storedRows'[b] = storedRows[b]
    BY <1>1, <1>4, <2>1
  <2>3. /\ result' \in Seq({"none", "success", "failure"}) /\ Len(result') = n /\ result'[n] = "none"
        /\ \A b \in 1..(n - 1) : result'[b] = result[b]
    BY <1>1, <1>4, <2>1
  <2>4. /\ batch' \in [Handlers -> Nat] /\ batch'[t] = n
        /\ \A u \in Handlers \ {t} : batch'[u] = batch[u]
    BY <1>1, <1>3, <1>4, <1>5 DEF BatchInv
  <2>5. n \in 1..n /\ \A b \in 1..n : b = n \/ b \in 1..(n - 1)
    BY <1>4
  <2>6. \A b \in DOMAIN batches' : batches'[b] # <<>>
    BY <1>1, <1>3, <1>5, <2>5 DEF BatchInv
  <2>7. P!BatchesWhole'
    BY <1>3, <1>5, <2>2, <2>3, <2>5 DEF BatchInv, P!BatchesWhole
  <2>8. ASSUME NEW u \in Handlers, insertAt'[u] \in {"begin", "rows"}
        PROVE  batch'[u] \in 1..n /\ storedRows'[batch'[u]] = {} /\ result'[batch'[u]] = "none"
    <3>1. CASE u = t
      BY <2>2, <2>3, <2>4, <2>5, <3>1
    <3>2. CASE u # t
      <4>1. /\ batch[u] \in 1..(n - 1) /\ storedRows[batch[u]] = {} /\ result[batch[u]] = "none"
            /\ batch'[u] = batch[u]
        BY <1>2, <1>3, <1>5, <2>4, <2>8, <3>2 DEF BatchInv
      <4> QED
        BY <1>5, <2>2, <2>3, <4>1
    <3> QED
      BY <3>1, <3>2
  <2>9. ASSUME NEW u \in Handlers, insertAt'[u] = "rows"
        PROVE  inserter[u] # "auto" /\ row[u] <= Len(batches'[batch'[u]])
    <3>1. u # t /\ insertAt[u] = "rows"
      BY <1>2, <2>9
    <3>2. batch[u] \in 1..(n - 1) /\ inserter[u] # "auto" /\ row[u] <= Len(batches[batch[u]])
      BY <1>3, <1>5, <3>1 DEF BatchInv
    <3>3. batches'[batch'[u]] = batches[batch[u]]
      BY <1>5, <2>4, <3>1, <3>2
    <3> QED
      BY <3>2, <3>3
  <2>10. ASSUME \A u \in Handlers : insertAt'[u] \in {"begin", "rows"} PROVE batch'["run"] # batch'["slots"]
    <3>1. PICK u \in Handlers : u # t /\ {u, t} = {"run", "slots"}
      BY DEF Handlers
    <3>0. insertAt[u] \in {"begin", "rows"} /\ batch'[u] = batch[u]
      BY <1>2, <2>4, <2>10, <3>1
    <3>2. batch'[u] \in 1..(n - 1)
      BY <1>3, <1>5, <3>0 DEF BatchInv
    <3>3. batch'[u] # batch'[t]
      BY <1>4, <2>4, <3>2
    <3> QED
      BY <3>1, <3>3
  <2>11. \A u \in Handlers : insertAt'[u] \notin {"rows"} => row'[u] = 0
    BY <1>1, <1>2, <1>3 DEF BatchInv
  <2> QED
    BY <1>1, <1>3, <1>5, <2>2, <2>3, <2>4, <2>6, <2>7, <2>8, <2>9, <2>10, <2>11 DEF BatchInv
<1> QED
  BY <1>8, <1>9, <1>10, <1>11, <1>12 DEF PositionInv

LEMMA PositionInsertEmpty == ASSUME PositionInv, NEW t \in Handlers, P!InsertEmpty(t) PROVE PositionInv'
<1>1. /\ P!Goes(t, "insert", "clear") /\ m_InsertData = <<>>
      /\ UNCHANGED <<next, m_InsertData, position, place, batches, storedRows, result, batch, row, inserter>>
  BY DEF P!InsertEmpty, P!bufferVars, P!insertVars
<1>2. place \in [Handlers -> [full : BOOLEAN, end : Nat]]
  BY DEF PositionInv, PositionType
<1> QED
  BY <1>1, <1>2, PositionGoes, BatchesKept DEF AtHand, Flushing, PositionInv

\* A step of a SqlInsert, which moves no position.
LEMMA PositionInserts ==
  ASSUME PositionInv, NEW t \in Handlers, NEW from \in {"begin", "rows"}, NEW to \in {"rows", "clear"},
         P!Goes(t, from, to), UNCHANGED <<next, m_InsertData, position, place, batches>>
  PROVE  PositionType' /\ InOnePlace' /\ Touched' /\ Kept'
<1>1. place \in [Handlers -> [full : BOOLEAN, end : Nat]]
  BY DEF PositionInv, PositionType
<1> QED
  BY <1>1, PositionGoes DEF AtHand, Flushing

\* What is known of a batch in work, and that it is not the other thread's.
LEMMA InWork ==
  ASSUME PositionInv, NEW t \in Handlers, insertAt[t] \in {"begin", "rows"}
  PROVE  /\ batch[t] \in 1..Len(batches) /\ Len(batches) \in Nat /\ DOMAIN batches = 1..Len(batches)
         /\ Len(batches[batch[t]]) \in Nat /\ Len(batches[batch[t]]) > 0
         /\ DOMAIN batches[batch[t]] = 1..Len(batches[batch[t]])
         /\ storedRows \in Seq(SUBSET Nat) /\ DOMAIN storedRows = 1..Len(batches)
         /\ result \in Seq({"none", "success", "failure"}) /\ DOMAIN result = 1..Len(batches)
         /\ storedRows[batch[t]] = {} /\ result[batch[t]] = "none"
         /\ \A u \in Handlers \ {t} : insertAt[u] \in {"begin", "rows"} => batch[u] # batch[t]
<1>1. PositionType /\ BatchInv
  BY DEF PositionInv
<1>2. /\ batch[t] \in DOMAIN batches /\ storedRows[batch[t]] = {} /\ result[batch[t]] = "none"
      /\ batches[batch[t]] # <<>> /\ batches \in Seq(Seq(1..next))
      /\ storedRows \in Seq(SUBSET Nat) /\ Len(storedRows) = Len(batches)
      /\ result \in Seq({"none", "success", "failure"}) /\ Len(result) = Len(batches)
  BY <1>1 DEF BatchInv, PositionType
<1>3. batches[batch[t]] \in Seq(1..next)
  BY <1>2
<1>4. \A u \in Handlers \ {t} : insertAt[u] \in {"begin", "rows"} => batch[u] # batch[t]
  BY <1>1 DEF BatchInv, Handlers
<1>5. \A s \in Seq(1..next) : s # <<>> => Len(s) \in Nat /\ Len(s) > 0 /\ DOMAIN s = 1..Len(s)
  OBVIOUS
<1>6. DOMAIN batches = 1..Len(batches) /\ Len(batches) \in Nat
  BY <1>2
<1>7. DOMAIN storedRows = 1..Len(batches) /\ DOMAIN result = 1..Len(batches)
  BY <1>2
<1> QED
  BY <1>2, <1>3, <1>4, <1>5, <1>6, <1>7

\* begin() of a thread: its batch has no row yet.
LEMMA PositionBegin == ASSUME PositionInv, NEW t \in Handlers, P!Begin(t) PROVE PositionInv'
<1>1. /\ P!Goes(t, "begin", "rows")
      /\ inserter' = [inserter EXCEPT ![t] = IF @ = "broken" THEN @ ELSE "transaction"]
      /\ UNCHANGED <<next, m_InsertData, position, place, batches, storedRows, result, batch, row>>
  BY DEF P!Begin, P!bufferVars
<1>2. PositionType' /\ InOnePlace' /\ Touched' /\ Kept'
  BY <1>1, PositionInserts
<1>3. /\ insertAt[t] = "begin" /\ insertAt'[t] = "rows"
      /\ \A u \in Handlers \ {t} : insertAt'[u] = insertAt[u]
  BY <1>1, GoesIs DEF PositionInv
<1>4. Len(batches[batch[t]]) \in Nat /\ BatchInv
  BY <1>3, InWork DEF PositionInv
<1>5. /\ inserter' \in [Handlers -> {"broken", "auto", "transaction"}] /\ inserter'[t] # "auto"
      /\ \A u \in Handlers \ {t} : inserter'[u] = inserter[u]
  BY <1>1, <1>4 DEF BatchInv
<1>6. row[t] = 0 /\ row[t] <= Len(batches[batch[t]])
  BY <1>3, <1>4 DEF BatchInv
<1>7. \A u \in Handlers : insertAt'[u] = "rows" => inserter'[u] # "auto" /\ row[u] <= Len(batches[batch[u]])
  BY <1>3, <1>4, <1>5, <1>6 DEF BatchInv
<1>8. \A u \in Handlers : insertAt'[u] \notin {"rows"} => row[u] = 0
  BY <1>3, <1>4 DEF BatchInv
<1>9. \A u \in Handlers : insertAt'[u] \in {"begin", "rows"} => insertAt[u] \in {"begin", "rows"}
  BY <1>3
<1>10. P!BatchesWhole'
  BY <1>1, <1>4 DEF BatchInv, P!BatchesWhole
<1>11. BatchInv'
  BY <1>1, <1>4, <1>5, <1>7, <1>8, <1>9, <1>10 DEF BatchInv
<1> QED
  BY <1>2, <1>11 DEF PositionInv

\* A row of a transaction is not in the table yet.
LEMMA PositionExecRow == ASSUME PositionInv, NEW t \in Handlers, P!ExecRow(t) PROVE PositionInv'
<1>1. /\ P!Goes(t, "rows", "rows") /\ row[t] < Len(batches[batch[t]])
      /\ row' = [row EXCEPT ![t] = @ + 1]
      /\ storedRows' = [storedRows EXCEPT ![batch[t]] =
                          IF inserter[t] = "auto" THEN @ \cup {row'[t]} ELSE @]
      /\ UNCHANGED <<next, m_InsertData, position, place, batches, result, batch, inserter>>
  BY DEF P!ExecRow, P!bufferVars
<1>2. PositionType' /\ InOnePlace' /\ Touched' /\ Kept'
  BY <1>1, PositionInserts
<1>3. /\ insertAt[t] = "rows" /\ insertAt' = insertAt
      /\ \A u \in Handlers \ {t} : insertAt'[u] = insertAt[u]
  BY <1>1, GoesIs DEF PositionInv, PositionType
<1>4. Len(batches[batch[t]]) \in Nat /\ BatchInv /\ inserter[t] # "auto"
  BY <1>3, InWork DEF PositionInv, BatchInv
<1>5. storedRows' = storedRows
  <2>1. storedRows \in Seq(SUBSET Nat)
    BY <1>4 DEF BatchInv
  <2>2. storedRows' = [storedRows EXCEPT ![batch[t]] = storedRows[batch[t]]]
    BY <1>1, <1>4
  <2> QED
    BY <2>1, <2>2
<1>6. row' \in [Handlers -> Nat] /\ row'[t] <= Len(batches[batch[t]])
      /\ \A u \in Handlers \ {t} : row'[u] = row[u]
  BY <1>1, <1>4 DEF BatchInv
<1>7. \A u \in Handlers : insertAt'[u] = "rows" => inserter[u] # "auto" /\ row'[u] <= Len(batches[batch[u]])
  BY <1>3, <1>4, <1>6 DEF BatchInv
<1>8. \A u \in Handlers : insertAt'[u] \notin {"rows"} => row'[u] = 0
  BY <1>3, <1>4, <1>6 DEF BatchInv
<1>10. P!BatchesWhole'
  BY <1>1, <1>4, <1>5 DEF BatchInv, P!BatchesWhole
<1>11. BatchInv'
  BY <1>1, <1>3, <1>4, <1>5, <1>6, <1>7, <1>8, <1>10 DEF BatchInv
<1> QED
  BY <1>2, <1>11 DEF PositionInv

\* A batch that ends, with the rows that the table has of it then.
LEMMA PositionReturns ==
  ASSUME PositionInv, NEW t \in Handlers, NEW answer \in {"success", "failure"}, NEW inTable,
         P!Returns(t, "rows", answer), inTable = {} \/ inTable = DOMAIN batches[batch[t]],
         answer = "success" => inTable # {},
         storedRows' = [storedRows EXCEPT ![batch[t]] = inTable],
         UNCHANGED <<next, m_InsertData, position, place, batches>>
  PROVE  PositionInv'
<1>1. /\ P!Goes(t, "rows", "clear")
      /\ result' = [result EXCEPT ![batch[t]] = answer]
      /\ batch' = [batch EXCEPT ![t] = 0] /\ row' = [row EXCEPT ![t] = 0]
      /\ inserter' = [inserter EXCEPT ![t] = "auto"]
  BY DEF P!Returns
<1>2. PositionType' /\ InOnePlace' /\ Touched' /\ Kept'
  BY <1>1, PositionInserts
<1>3. /\ insertAt[t] = "rows" /\ insertAt'[t] = "clear"
      /\ \A u \in Handlers \ {t} : insertAt'[u] = insertAt[u]
  BY <1>1, GoesIs DEF PositionInv
<1> DEFINE k == batch[t]
           n == Len(batches)
<1>4. /\ k \in 1..n /\ n \in Nat /\ DOMAIN batches = 1..n
      /\ storedRows \in Seq(SUBSET Nat) /\ DOMAIN storedRows = 1..n
      /\ result \in Seq({"none", "success", "failure"}) /\ DOMAIN result = 1..n
      /\ \A u \in Handlers \ {t} : insertAt[u] \in {"begin", "rows"} => batch[u] # k
      /\ inTable \in SUBSET Nat /\ (inTable = {} \/ inTable = DOMAIN batches[k])
  <2>1. DOMAIN batches[k] = 1..Len(batches[k])
    BY <1>3, InWork
  <2> QED
    BY <1>3, <2>1, InWork
<1>5. BatchInv
  BY DEF PositionInv
<1> HIDE DEF k, n
<1>6. /\ storedRows' \in Seq(SUBSET Nat) /\ Len(storedRows') = n /\ storedRows'[k] = inTable
      /\ \A b \in 1..n : b # k => storedRows'[b] = storedRows[b]
  BY <1>4 DEF k
<1>7. /\ result' \in Seq({"none", "success", "failure"}) /\ Len(result') = n /\ result'[k] = answer
      /\ \A b \in 1..n : b # k => result'[b] = result[b]
  BY <1>1, <1>4 DEF k
<1>8. /\ batch' \in [Handlers -> Nat] /\ row' \in [Handlers -> Nat] /\ row'[t] = 0
      /\ inserter' \in [Handlers -> {"broken", "auto", "transaction"}]
      /\ \A u \in Handlers \ {t} :
            batch'[u] = batch[u] /\ row'[u] = row[u] /\ inserter'[u] = inserter[u]
  BY <1>1, <1>5 DEF BatchInv
<1>9. \A b \in DOMAIN batches : batches[b] # <<>>
  BY <1>5 DEF BatchInv
<1>10. P!BatchesWhole'
  <2> SUFFICES ASSUME NEW b \in 1..n
               PROVE  /\ storedRows'[b] \in {{}, DOMAIN batches[b]}
                      /\ result'[b] = "success" => storedRows'[b] # {}
    BY <1>4 DEF P!BatchesWhole
  <2>1. CASE b = k
    BY <1>4, <1>6, <1>7, <2>1
  <2>2. CASE b # k
    <3>1. b \in DOMAIN batches /\ P!BatchesWhole
      BY <1>4, <1>5 DEF BatchInv
    <3> QED
      BY <1>6, <1>7, <2>2, <3>1 DEF P!BatchesWhole
  <2> QED
    BY <2>1, <2>2
<1>11. ASSUME NEW u \in Handlers, insertAt'[u] \in {"begin", "rows"}
       PROVE  /\ u # t /\ batch'[u] = batch[u] /\ insertAt[u] = insertAt'[u]
              /\ batch[u] \in 1..n /\ storedRows'[batch[u]] = {} /\ result'[batch[u]] = "none"
  <2>1. u # t /\ insertAt[u] \in {"begin", "rows"} /\ insertAt[u] = insertAt'[u]
    BY <1>3, <1>11
  <2>2. batch[u] \in 1..n /\ storedRows[batch[u]] = {} /\ result[batch[u]] = "none"
    BY <1>4, <1>5, <2>1 DEF BatchInv
  <2>3. batch[u] # k
    BY <1>4, <2>1
  <2> QED
    BY <1>6, <1>7, <1>8, <2>1, <2>2, <2>3
<1>12. ASSUME NEW u \in Handlers, insertAt'[u] = "rows"
       PROVE  inserter'[u] # "auto" /\ row'[u] <= Len(batches[batch'[u]])
  <2>1. u # t /\ insertAt[u] = "rows"
    BY <1>11, <1>12
  <2> QED
    BY <1>5, <1>8, <2>1 DEF BatchInv
<1>13. \A u \in Handlers : insertAt'[u] \notin {"rows"} => row'[u] = 0
  BY <1>3, <1>5, <1>8 DEF BatchInv
<1>14. ~ \A u \in Handlers : insertAt'[u] \in {"begin", "rows"}
  BY <1>3
<1>15. \A u \in Handlers : insertAt'[u] \in {"begin", "rows"} =>
         batch'[u] \in DOMAIN batches /\ storedRows'[batch'[u]] = {} /\ result'[batch'[u]] = "none"
  BY <1>4, <1>11
<1>16. Len(batches) = n /\ batches' = batches
  BY DEF n
<1>17. \A u \in Handlers : insertAt'[u] = "rows" =>
          inserter'[u] # "auto" /\ row'[u] <= Len(batches[batch'[u]])
  BY <1>12
<1>18. BatchInv'
  BY <1>6, <1>7, <1>8, <1>9, <1>10, <1>13, <1>14, <1>15, <1>16, <1>17 DEF BatchInv
<1> QED
  BY <1>2, <1>18 DEF PositionInv

LEMMA PositionRollback == ASSUME PositionInv, NEW t \in Handlers, P!Rollback(t) PROVE PositionInv'
<1>1. /\ P!Returns(t, "rows", "failure")
      /\ UNCHANGED <<next, m_InsertData, position, place, batches, storedRows>>
  BY DEF P!Rollback, P!bufferVars
<1>2. insertAt[t] = "rows"
  BY <1>1 DEF P!Returns, P!Goes
<1>3. storedRows[batch[t]] = {} /\ storedRows \in Seq(SUBSET Nat)
  BY <1>2, InWork
<1>4. storedRows' = [storedRows EXCEPT ![batch[t]] = {}]
  BY <1>1, <1>3
<1> QED
  BY <1>1, <1>4, PositionReturns

LEMMA PositionCommit == ASSUME PositionInv, NEW t \in Handlers, P!Commit(t) PROVE PositionInv'
<1>1. /\ P!Returns(t, "rows", "success") /\ row[t] = Len(batches[batch[t]])
      /\ storedRows' = [storedRows EXCEPT ![batch[t]] = 1..row[t]]
      /\ UNCHANGED <<next, m_InsertData, position, place, batches>>
  BY DEF P!Commit, P!bufferVars
<1>2. insertAt[t] = "rows"
  BY <1>1 DEF P!Returns, P!Goes
<1>3. /\ DOMAIN batches[batch[t]] = 1..Len(batches[batch[t]]) /\ Len(batches[batch[t]]) > 0
      /\ Len(batches[batch[t]]) \in Nat
  BY <1>2, InWork
<1>4. 1..row[t] = DOMAIN batches[batch[t]] /\ 1 \in 1..row[t]
  BY <1>1, <1>3
<1> QED
  BY <1>1, <1>4, PositionReturns

LEMMA PositionCommitFails == ASSUME PositionInv, NEW t \in Handlers, P!CommitFails(t) PROVE PositionInv'
<1>1. /\ P!Returns(t, "rows", "failure") /\ row[t] = Len(batches[batch[t]])
      /\ \/ storedRows' = storedRows
         \/ storedRows' = [storedRows EXCEPT ![batch[t]] = 1..row[t]]
      /\ UNCHANGED <<next, m_InsertData, position, place, batches>>
  BY DEF P!CommitFails, P!bufferVars
<1>2. insertAt[t] = "rows"
  BY <1>1 DEF P!Returns, P!Goes
<1>3. /\ DOMAIN batches[batch[t]] = 1..Len(batches[batch[t]])
      /\ storedRows[batch[t]] = {} /\ storedRows \in Seq(SUBSET Nat)
  BY <1>2, InWork
<1>4. CASE storedRows' = storedRows
  <2>1. storedRows' = [storedRows EXCEPT ![batch[t]] = {}]
    BY <1>3, <1>4
  <2> QED
    BY <1>1, <2>1, PositionReturns
<1>5. CASE storedRows' = [storedRows EXCEPT ![batch[t]] = 1..row[t]]
  BY <1>1, <1>3, <1>5, PositionReturns
<1> QED
  BY <1>1, <1>4, <1>5

LEMMA PositionBreaks == ASSUME PositionInv, NEW t \in Handlers, P!ConnectionBreaks(t) PROVE PositionInv'
<1>1. /\ inserter' = [inserter EXCEPT ![t] = "broken"]
      /\ UNCHANGED <<next, m_InsertData, position, place, insertAt, batches, storedRows, result,
                     batch, row, overlapped>>
  BY DEF P!ConnectionBreaks, P!bufferVars
<1>2. Batched' = Batched /\ \A b : PositionsOf(b)' = PositionsOf(b)
  BY <1>1 DEF Batched, PositionsOf
<1>3. PositionType'
  BY <1>1 DEF PositionInv, PositionType
<1>4. InOnePlace' /\ Touched'
  BY <1>1, <1>2 DEF PositionInv, InOnePlace, Touched
<1>5. Kept'
  BY <1>1, <1>2 DEF PositionInv, Kept
<1>6. BatchInv'
  <2>1. BatchInv /\ (P!BatchesWhole => P!BatchesWhole')
    BY <1>1 DEF PositionInv, P!BatchesWhole
  <2>2. /\ inserter' \in [Handlers -> {"broken", "auto", "transaction"}]
        /\ \A u \in Handlers : inserter'[u] = "auto" => inserter[u] = "auto"
    BY <1>1, <2>1 DEF BatchInv
  <2> QED
    BY <1>1, <2>1, <2>2 DEF BatchInv
<1> QED
  BY <1>3, <1>4, <1>5, <1>6 DEF PositionInv

\* Every step of the two threads keeps the invariant.
LEMMA PositionStep == PositionInv /\ P!Next => PositionInv'
<1> SUFFICES ASSUME PositionInv, NEW t \in Handlers,
                    \/ P!WriteData2DB(t) \/ P!TestSize(t) \/ P!PushEnd(t) \/ P!PushWrite(t) \/ P!Clear(t)
                    \/ P!Insert(t) \/ P!InsertEmpty(t) \/ P!Begin(t) \/ P!ExecRow(t) \/ P!Rollback(t)
                    \/ P!Commit(t) \/ P!CommitFails(t) \/ P!ConnectionBreaks(t)
             PROVE  PositionInv'
  BY DEF P!Next, P!Threads, Handlers
<1> QED
  BY PositionTold, PositionTest, PositionPushed, PositionClear, PositionInsert,
     PositionInsertEmpty, PositionBegin, PositionExecRow, PositionRollback, PositionCommit,
     PositionCommitFails, PositionBreaks

LEMMA PositionSound == PositionInv => P!BatchesWhole /\ P!PositionsInserted
<1> SUFFICES ASSUME PositionInv PROVE P!BatchesWhole /\ P!PositionsInserted
  OBVIOUS
<1>1. PositionType /\ InOnePlace /\ Touched /\ Kept /\ P!BatchesWhole
  BY DEF PositionInv, BatchInv
<1>2. ASSUME NEW p \in 1..next \ overlapped
      PROVE  LET batchesOf == {b \in DOMAIN batches : p \in P!ToSet(batches[b])}
                 inHand    == p \in {position[t] : t \in P!Threads}
                 waits     == p \in P!ToSet(m_InsertData)
                 flushing  == \E t \in P!Threads : insertAt[t] \in {"insert", "begin", "rows", "clear"}
             IN IF inHand THEN batchesOf = {}
                ELSE /\ \A b, c \in batchesOf : b = c
                     /\ \/ waits # (batchesOf # {})
                        \/ waits /\ flushing
  <2> DEFINE batchesOf == {b \in DOMAIN batches : p \in P!ToSet(batches[b])}
  <2>0. p # 0 /\ P!Threads = Handlers
    BY <1>1 DEF PositionType, P!Threads, Handlers
  <2>1. p \in Batched <=> batchesOf # {}
    BY DEF Batched
  <2>2. ASSUME NEW t \in Handlers, p = position[t] PROVE batchesOf = {}
    BY <1>1, <2>0, <2>1, <2>2 DEF InOnePlace
  <2>3. ASSUME \A t \in Handlers : position[t] # p
        PROVE  /\ \A b, c \in batchesOf : b = c
               /\ \/ (p \in P!ToSet(m_InsertData)) # (batchesOf # {})
                  \/ /\ p \in P!ToSet(m_InsertData)
                     /\ \E t \in Handlers : insertAt[t] \in {"insert", "begin", "rows", "clear"}
    <3>1. /\ \A b, c \in DOMAIN batches : p \in PositionsOf(b) /\ p \in PositionsOf(c) => b = c
          /\ p \in P!ToSet(m_InsertData) \cup Batched
      BY <1>1, <2>3 DEF Kept
    <3>2. \A b, c \in batchesOf : b = c
      BY <3>1 DEF PositionsOf
    <3>3. ASSUME p \in P!ToSet(m_InsertData), p \in Batched
          PROVE  \E t \in Handlers : insertAt[t] \in {"insert", "begin", "rows", "clear"}
      BY <1>1, <3>3 DEF Kept, Flushing
    <3> QED
      BY <2>1, <3>1, <3>2, <3>3
  <2> QED
    BY <2>0, <2>2, <2>3
<1>3. P!PositionsInserted
  BY <1>2 DEF P!PositionsInserted
<1> QED
  BY <1>1, <1>3

-----------------------------------------------------------------------------
(* The tables and the receiver of HistoryProgram.                          *)

ProgramInv ==
  /\ phase \in {"made", "started", "stopped"} /\ hasTable \subseteq Tables
  /\ m_bTaskState \in BOOLEAN /\ bOpen \in BOOLEAN
  /\ tableOpened \in [Tables -> DbNames \cup {NoDbName}] /\ notices \in Seq(DbNames)
  /\ \A t \in Tables :
       tableOpened[t] # NoDbName => m_bTaskState /\ t \in hasTable /\ tableOpened[t] = taskTold
  /\ ~m_bTaskState => pushed = {}
  /\ \A r \in pushed : r[2] = r[3]
  /\ ~misused
  /\ receiver \in {"none", "test", "work", "ended"} /\ (receiver = "none" <=> phase = "made")
  /\ receiver \in {"test", "work"} => client = IF bOpen THEN "open" ELSE "closed"
  /\ receiver = "none" => ~bOpen
  /\ receiver = "ended" => client = "freed"
  /\ phase = "stopped" => receiver = "ended"
  /\ phase = "made" => ~m_bTaskState /\ notices = <<>>

LEMMA ProgramInit == H!Init => ProgramInv
<1> SUFFICES ASSUME H!Init PROVE ProgramInv
  OBVIOUS
<1>1. tableOpened = [t \in Tables |-> NoDbName] /\ notices = <<>> /\ notices \in Seq(DbNames)
  BY DEF H!Init
<1>2. tableOpened \in [Tables -> DbNames \cup {NoDbName}] /\ \A t \in Tables : tableOpened[t] = NoDbName
  BY <1>1
<1> QED
  BY <1>1, <1>2 DEF H!Init, ProgramInv

LEMMA ProgramTold == ASSUME ProgramInv, H!ReceiveTaskInfoSlots PROVE ProgramInv'
<1> DEFINE name == Head(notices)
           closed == H!StopDB(tableOpened)
<1>1. /\ notices # <<>> /\ notices' = Tail(notices) /\ taskTold' = name /\ m_bTaskState' = TRUE
      /\ UNCHANGED <<phase, hasTable, pushed, receiver, bOpen, client, misused>>
  BY DEF H!ReceiveTaskInfoSlots, H!StartDB, H!receiveVars
<1>2. PICK fails \in SUBSET hasTable :
        tableOpened' = [t \in Tables |-> IF t \in hasTable \ fails /\ closed[t] = NoDbName THEN name
                                         ELSE closed[t]]
  BY DEF H!ReceiveTaskInfoSlots, H!StartDB
<1>3. name \in DbNames /\ notices' \in Seq(DbNames)
  BY <1>1 DEF ProgramInv
<1>4. \A t \in Tables : closed[t] = NoDbName
  BY DEF H!StopDB, ProgramInv
<1> HIDE DEF name, closed
<1>5. \A t \in Tables : tableOpened'[t] = IF t \in hasTable \ fails THEN name ELSE NoDbName
  BY <1>2, <1>4
<1>6. tableOpened' \in [Tables -> DbNames \cup {NoDbName}]
  BY <1>2, <1>3, <1>4
<1>7. \A t \in Tables : tableOpened'[t] # NoDbName =>
           m_bTaskState' /\ t \in hasTable' /\ tableOpened'[t] = taskTold'
  BY <1>1, <1>5
<1> QED
  BY <1>1, <1>3, <1>6, <1>7 DEF ProgramInv

LEMMA ProgramPush == ASSUME ProgramInv, NEW t \in Tables, H!Push(t) PROVE ProgramInv'
<1>1. /\ pushed' = IF tableOpened[t] = NoDbName THEN pushed
                   ELSE pushed \cup {<<t, taskTold, tableOpened[t]>>}
      /\ m_bTaskState
      /\ UNCHANGED <<phase, hasTable, m_bTaskState, tableOpened, notices, taskTold, receiver, bOpen,
                     client, misused>>
  BY DEF H!Push, H!receiveVars
<1>2. \A r \in pushed' : r[2] = r[3]
  BY <1>1 DEF ProgramInv
<1> QED
  BY <1>1, <1>2 DEF ProgramInv

LEMMA ProgramStep == ProgramInv /\ [H!Next]_(H!historyVars) => ProgramInv'
<1> SUFFICES ASSUME ProgramInv, [H!Next]_(H!historyVars) PROVE ProgramInv'
  OBVIOUS
<1>1. CASE H!Start
  BY <1>1 DEF H!Start, ProgramInv
<1>2. CASE H!Stop \/ H!StopReturns
  BY <1>2 DEF H!Stop, H!StopReturns, H!tableVars, H!receiveVars, ProgramInv
<1>3. ASSUME NEW name \in DbNames, H!RecvTaskInfo(name) PROVE ProgramInv'
  BY <1>3 DEF H!RecvTaskInfo, H!tableVars, H!receiveVars, ProgramInv
<1>4. CASE H!TestFlag \/ H!InTime
  BY <1>4 DEF H!TestFlag, H!InTime, H!OfReceiver, H!tableVars, ProgramInv
<1>5. CASE H!Open
  BY <1>5 DEF H!Open, H!OfReceiver, H!tableVars, ProgramInv
<1>6. CASE H!TimeOut
  BY <1>6 DEF H!TimeOut, H!OfReceiver, H!tableVars, ProgramInv
<1>7. CASE H!EndReceiver
  BY <1>7 DEF H!EndReceiver, H!OfReceiver, H!tableVars, ProgramInv
<1>8. CASE UNCHANGED H!historyVars
  BY <1>8 DEF H!historyVars, ProgramInv
<1> QED
  BY <1>1, <1>2, <1>3, <1>4, <1>5, <1>6, <1>7, <1>8, ProgramTold, ProgramPush DEF H!Next

LEMMA ProgramSound == ProgramInv => H!RowsOfToldTask /\ H!ReceiverCloses
BY DEF ProgramInv, H!RowsOfToldTask, H!ReceiverCloses

-----------------------------------------------------------------------------
(* The machines of RowsInDatabase side by side.                             *)

RowsInv == ConnectionInv /\ AnswerInv /\ ArcInv /\ PositionInv /\ ProgramInv

\* Steps of other machines.
LEMMA ConnectionSame == ConnectionInv /\ UNCHANGED databaseVars => ConnectionInv'
<1>1. UNCHANGED databaseVars => UNCHANGED D!databaseVars
  BY DEF databaseVars, D!databaseVars, D!connectionVars, D!queryVars
<1> QED
  BY <1>1, ConnectionNext

LEMMA AnswerSame ==
  AnswerInv /\ UNCHANGED <<m_conditions, rows, m_setValues, updated>> => AnswerInv'
BY DEF AnswerInv, D!AnswersWhatIsAsked, D!ComparedTwice

LEMMA ArcSame == ArcInv /\ UNCHANGED detectorVars => ArcInv'
<1> SUFFICES ASSUME ArcInv, UNCHANGED detectorVars PROVE ArcInv'
  OBVIOUS
<1>1. UNCHANGED <<due, ctx, m_arc_Vector, stored, lostRows, voltages, submit, tasks, kept>>
  BY DEF detectorVars
<1>2. /\ submit \in BOOLEAN /\ tasks \in Nat
      /\ m_arc_Vector # <<>> => tasks > 0 \/ submit \/ kept
  BY DEF ArcInv, ArcType, RowsApart
<1> QED
  BY <1>1, <1>2, ArcKept

LEMMA PositionSame == PositionInv /\ UNCHANGED positionVars => PositionInv'
<1> SUFFICES ASSUME PositionInv, UNCHANGED positionVars PROVE PositionInv'
  OBVIOUS
<1>1. UNCHANGED <<next, m_InsertData, position, place, insertAt, batches, storedRows, result,
                  batch, row, inserter, overlapped>>
  BY DEF positionVars
<1>2. Batched' = Batched /\ \A b : PositionsOf(b)' = PositionsOf(b)
  BY <1>1 DEF Batched, PositionsOf
<1>3. PositionType' /\ InOnePlace' /\ Touched' /\ Kept'
  BY <1>1, <1>2 DEF PositionInv, PositionType, InOnePlace, Touched, Kept
<1>4. BatchInv'
  BY <1>1 DEF PositionInv, BatchInv, P!BatchesWhole
<1> QED
  BY <1>3, <1>4 DEF PositionInv

LEMMA ProgramSame == ProgramInv /\ UNCHANGED programVars => ProgramInv'
BY DEF ProgramInv, programVars

LEMMA RowsStep == ASSUME A!ArcAssumption, RowsInv, [MCNext]_vars PROVE RowsInv'
<1>1. ConnectionInv /\ AnswerInv /\ ArcInv /\ PositionInv /\ ProgramInv
  BY DEF RowsInv
<1>2. CASE D!Connect /\ NotDatabase
  <2>1. UNCHANGED <<m_conditions, rows, m_setValues, updated, detectorVars, positionVars, programVars>>
    <3>1. UNCHANGED D!queryVars
      BY <1>2 DEF D!Connect, D!ServerDown, D!ServerUp, D!Stop, D!ThreadBegins, D!ThreadEnds, D!NoName,
         D!Reuse, D!NotOpen, D!Add, D!AddFails, D!InsertName, D!Exec, D!Step
    <3> QED
      BY <1>2, <3>1 DEF D!queryVars, NotDatabase
  <2>2. ConnectionInv'
    BY <1>1, <1>2, ConnectionNext DEF D!Next
  <2> QED
    BY <1>1, <2>1, <2>2, AnswerSame, ArcSame, PositionSame, ProgramSame DEF RowsInv
<1>3. CASE D!Select /\ NotDatabase
  <2>1. UNCHANGED <<detectorVars, positionVars, programVars>>
    BY <1>3 DEF NotDatabase
  <2>2. ConnectionInv' /\ AnswerInv'
    BY <1>1, <1>3, ConnectionNext, AnswerStep DEF D!Next
  <2> QED
    BY <1>1, <2>1, <2>2, ArcSame, PositionSame, ProgramSame DEF RowsInv
<1>4. CASE A!Next /\ NotDetector
  <2>1. UNCHANGED <<databaseVars, positionVars, programVars>>
    BY <1>4 DEF NotDetector
  <2>2. UNCHANGED <<m_conditions, rows, m_setValues, updated>>
    BY <2>1 DEF databaseVars
  <2>3. ArcInv'
    BY <1>1, <1>4, ArcStep
  <2> QED
    BY <1>1, <2>1, <2>2, <2>3, ConnectionSame, AnswerSame, PositionSame, ProgramSame DEF RowsInv
<1>5. CASE P!Next /\ NotPositions
  <2>1. UNCHANGED <<databaseVars, detectorVars, programVars>>
    BY <1>5 DEF NotPositions
  <2>2. UNCHANGED <<m_conditions, rows, m_setValues, updated>>
    BY <2>1 DEF databaseVars
  <2>3. PositionInv'
    BY <1>1, <1>5, PositionStep
  <2> QED
    BY <1>1, <2>1, <2>2, <2>3, ConnectionSame, AnswerSame, ArcSame, ProgramSame DEF RowsInv
<1>6. CASE H!Next /\ NotProgram
  <2>1. UNCHANGED <<databaseVars, detectorVars, positionVars>>
    BY <1>6 DEF NotProgram
  <2>2. UNCHANGED <<m_conditions, rows, m_setValues, updated>>
    BY <2>1 DEF databaseVars
  <2>3. ProgramInv'
    BY <1>1, <1>6, ProgramStep
  <2> QED
    BY <1>1, <2>1, <2>2, <2>3, ConnectionSame, AnswerSame, ArcSame, PositionSame DEF RowsInv
<1>7. CASE UNCHANGED <<databaseVars, detectorVars, positionVars, programVars>>
  <2>1. UNCHANGED <<databaseVars, detectorVars, positionVars, programVars>>
    BY <1>7
  <2>2. UNCHANGED <<m_conditions, rows, m_setValues, updated>>
    BY <2>1 DEF databaseVars
  <2> QED
    BY <1>1, <2>1, <2>2, ConnectionSame, AnswerSame, ArcSame, PositionSame, ProgramSame DEF RowsInv
<1>8. \/ D!Connect /\ NotDatabase
      \/ D!Select /\ NotDatabase
      \/ A!Next /\ NotDetector
      \/ P!Next /\ NotPositions
      \/ H!Next /\ NotProgram
      \/ UNCHANGED <<databaseVars, detectorVars, positionVars, programVars>>
  BY DEF MCNext, vars, NotPlayer, NotTitles, NotPacket, NotStream, NotThermal
<1> QED
  BY <1>2, <1>3, <1>4, <1>5, <1>6, <1>7, <1>8

\* What is told for the database comes to be there, once and whole
\* (DatabaseConnections.cpp:44-66, SqlSelect.h:65-160, SqlUpdate.h:104-231,
\* dwcarcuv.cpp:60-168, PositionDataBase.cpp:54-68, SqlInsert.h:119-141,
\* DBCommunicationHandle.cpp:70-131, HistoryUniqueIDRecviever.cpp:53-92).
THEOREM RowsComeToTheDatabase == MCSpec => []RowsInDatabase
<1>1. MCInit => RowsInv
  BY MCAssumption, ConnectionInit, AnswerInit, ArcInit, PositionInit, ProgramInit DEF MCInit, RowsInv
<1>2. RowsInv /\ [MCNext]_vars => RowsInv'
  BY MCAssumption, RowsStep
<1>3. RowsInv => RowsInDatabase
  <2>1. ConnectionInv => D!OneStatementLost /\ D!NamesRegistered
    BY DEF ConnectionInv, NextOneWorks, Registry, D!OneStatementLost, D!NamesRegistered
  <2>2. AnswerInv => D!AnswersWhatIsAsked
    BY DEF AnswerInv
  <2> QED
    BY <2>1, <2>2, MCAssumption, ArcSound, PositionSound, ProgramSound DEF RowsInv, RowsInDatabase
<1> QED
  BY <1>1, <1>2, <1>3, PTL DEF MCSpec

-----------------------------------------------------------------------------
(* The subtitles.                                                           *)

Chars == DOMAIN Width

LEMMA UpTo ==
  ASSUME NEW N \in Nat, NEW Good, 0 \in Good, \A n \in 1..N : n - 1 \in Good => n \in Good
  PROVE  \A n \in 0..N : n \in Good
<1> DEFINE Q == {n \in Nat : n <= N => n \in Good}
<1>1. 0 \in Q /\ \A n \in Nat : n \in Q => n + 1 \in Q
  <2> SUFFICES ASSUME NEW n \in Nat, n \in Q, n + 1 <= N PROVE n + 1 \in Good
    OBVIOUS
  <2>1. n \in Good /\ n + 1 \in 1..N
    OBVIOUS
  <2>2. (n + 1) - 1 \in Good
    BY <2>1
  <2> QED
    BY <2>1, <2>2
<1>2. Nat \subseteq Q
  <2> HIDE DEF Q
  <2> QED
    BY <1>1, NatSet
<1> QED
  BY <1>2

\* A function on numbers can be defined by what each value makes of the one before.
Solves(f, N, U, x, onward) == /\ f \in [0..N -> U] /\ f[0] = x
                            /\ \A n \in 1..N : f[n] = onward[<<n, f[n - 1]>>]

LEMMA Recursion ==
  ASSUME NEW N \in Nat, NEW U, NEW x \in U, NEW onward \in [(1..N) \X U -> U]
  PROVE  \E f : Solves(f, N, U, x, onward)
<1> DEFINE Good == {m \in 0..N : \E f : Solves(f, m, U, x, onward)}
<1> USE DEF Solves
<1>1. 0 \in Good
  <2> DEFINE g == [n \in 0..0 |-> x]
  <2>1. g \in [0..0 -> U] /\ g[0] = x /\ 1..0 = {} /\ 0 \in 0..N
    OBVIOUS
  <2> HIDE DEF g
  <2>2. Solves(g, 0, U, x, onward)
    BY <2>1
  <2> QED
    BY <2>1, <2>2
<1>2. ASSUME NEW m \in 1..N, m - 1 \in Good PROVE m \in Good
  <2>1. PICK f : Solves(f, m - 1, U, x, onward)
    BY <1>2
  <2> DEFINE g == [n \in 0..m |-> IF n = m THEN onward[<<m, f[m - 1]>>] ELSE f[n]]
  <2>2. f[m - 1] \in U /\ m - 1 \in 0..(m - 1)
    BY <2>1
  <2>3. onward[<<m, f[m - 1]>>] \in U
    BY <2>2
  <2>4. g \in [0..m -> U] /\ g[0] = x
    BY <2>1, <2>3
  <2>5. ASSUME NEW n \in 1..m PROVE g[n] = onward[<<n, g[n - 1]>>]
    <3>1. g[n - 1] = f[n - 1]
      OBVIOUS
    <3>2. CASE n = m
      <4>1. g[m] = onward[<<m, f[m - 1]>>]
        OBVIOUS
      <4> QED
        BY <3>1, <3>2, <4>1
    <3>3. CASE n # m
      <4>1. n \in 1..(m - 1) /\ g[n] = f[n]
        BY <3>3
      <4> QED
        BY <2>1, <3>1, <4>1
    <3> QED
      BY <3>2, <3>3
  <2>6. Solves(g, m, U, x, onward)
    BY <2>4, <2>5
  <2> HIDE DEF Solves, g
  <2> QED
    BY <2>6
<1>3. N \in Good
  <2> HIDE DEF Good
  <2>1. \A n \in 0..N : n \in Good
    BY <1>1, <1>2, UpTo
  <2> QED
    BY <2>1
<1> QED
  BY <1>3

LEMMA Widths ==
  ASSUME T!SubtitleAssumption
  PROVE  /\ MaxBytes \in Nat /\ MaxLines \in Nat /\ T!Space \in Chars
         /\ \A c \in Chars : Width[c] \in Nat
<1>1. MaxBytes \in Nat /\ MaxLines \in Nat
  BY DEF T!SubtitleAssumption
<1>2. T!Space \in Chars
  BY Zenon DEF T!SubtitleAssumption, Chars
<1>3. \A c \in Chars : Width[c] \in 1..MaxBytes
  BY Zenon DEF T!SubtitleAssumption, Chars
<1> QED
  BY <1>1, <1>2, <1>3

LEMMA BytesDef ==
  ASSUME T!SubtitleAssumption, NEW s \in Seq(Chars)
  PROVE  \E z \in [0..Len(s) -> Nat] :
            /\ z[0] = 0 /\ \A k \in 1..Len(s) : z[k] = z[k - 1] + Width[s[k]]
            /\ T!Bytes(s) = z[Len(s)]
<1> DEFINE E(f) == [k \in 0..Len(s) |-> IF k = 0 THEN 0 ELSE f[k - 1] + Width[s[k]]]
           onward == [p \in (1..Len(s)) \X Nat |-> p[2] + Width[s[p[1]]]]
           z    == CHOOSE f : f = E(f)
<1>0. Len(s) \in Nat /\ \A k \in 1..Len(s) : Width[s[k]] \in Nat
  <2>1. Len(s) \in Nat /\ \A k \in 1..Len(s) : s[k] \in Chars
    OBVIOUS
  <2> QED
    BY <2>1, Widths
<1>1. onward \in [(1..Len(s)) \X Nat -> Nat] /\ \A k \in 1..Len(s), n \in Nat : onward[<<k, n>>] = n + Width[s[k]]
  BY <1>0
<1>2. \E f : f = E(f)
  <2> HIDE DEF onward
  <2>1. PICK f : Solves(f, Len(s), Nat, 0, onward)
    <3>1. Len(s) \in Nat /\ 0 \in Nat /\ onward \in [(1..Len(s)) \X Nat -> Nat]
      BY <1>0, <1>1
    <3> QED
      BY <3>1, Recursion, Zenon
  <2>2. ASSUME NEW k \in 0..Len(s) PROVE f[k] = E(f)[k]
    <3>1. k # 0 => k \in 1..Len(s) /\ f[k - 1] \in Nat
      <4>1. k # 0 => k \in 1..Len(s) /\ k - 1 \in 0..Len(s)
        BY <1>0
      <4> QED
        BY <2>1, <4>1 DEF Solves
    <3> QED
      BY <1>0, <1>1, <2>1, <3>1 DEF Solves
  <2>3. f = E(f)
    BY <2>1, <2>2 DEF Solves
  <2> QED
    BY <2>3
<1>3. z = E(z)
  <2> HIDE DEF E
  <2> QED
    BY <1>2
<1>4. T!Bytes(s) = z[Len(s)]
  BY DEF T!Bytes
<1> HIDE DEF z
<1>5. z[0] = 0 /\ \A k \in 1..Len(s) : z[k] = z[k - 1] + Width[s[k]]
  BY <1>0, <1>3
<1>6. \A k \in 0..Len(s) : z[k] \in Nat
  <2> DEFINE Good == {k \in 0..Len(s) : z[k] \in Nat}
  <2>1. 0 \in Good /\ \A k \in 1..Len(s) : k - 1 \in Good => k \in Good
    BY <1>0, <1>5
  <2> HIDE DEF Good
  <2>2. \A k \in 0..Len(s) : k \in Good
    BY <1>0, <2>1, UpTo
  <2> QED
    BY <2>2 DEF Good
<1>7. z \in [0..Len(s) -> Nat]
  BY <1>3, <1>6
<1> QED
  BY <1>4, <1>5, <1>7

\* How the sizes of the beginnings of a string grow.
Sized(z, s) == /\ z \in [0..Len(s) -> Nat] /\ z[0] = 0
               /\ \A k \in 1..Len(s) : z[k] = z[k - 1] + Width[s[k]]

LEMMA BytesOfPrefix ==
  ASSUME T!SubtitleAssumption, NEW s \in Seq(Chars), NEW z, Sized(z, s), NEW k \in 0..Len(s)
  PROVE  T!Bytes(SubSeq(s, 1, k)) = z[k]
<1> DEFINE t == SubSeq(s, 1, k)
<1>1. k \in Nat /\ t \in Seq(Chars) /\ Len(t) = k /\ \A i \in 1..k : t[i] = s[i] /\ i \in 1..Len(s)
  OBVIOUS
<1> HIDE DEF t
<1>2. PICK w : Sized(w, t) /\ T!Bytes(t) = w[Len(t)]
  BY <1>1, BytesDef DEF Sized
<1> DEFINE Good == {i \in 0..k : w[i] = z[i]}
<1>3. 0 \in Good
  BY <1>1, <1>2 DEF Sized
<1>4. ASSUME NEW i \in 1..k, i - 1 \in Good PROVE i \in Good
  <2>1. w[i] = w[i - 1] + Width[t[i]] /\ z[i] = z[i - 1] + Width[s[i]] /\ t[i] = s[i]
    BY <1>1, <1>2 DEF Sized
  <2> QED
    BY <1>4, <2>1
<1> HIDE DEF Good
<1>5. k \in Good
  <2>1. \A i \in 0..k : i \in Good
    BY <1>1, <1>3, <1>4, UpTo
  <2> QED
    BY <1>1, <2>1
<1> QED
  BY <1>1, <1>2, <1>5 DEF Good, t

LEMMA Bytes ==
  ASSUME T!SubtitleAssumption, NEW s \in Seq(Chars)
  PROVE  /\ T!Bytes(s) \in Nat /\ T!Bytes(<<>>) = 0
         /\ \A k \in 0..Len(s) : T!Bytes(SubSeq(s, 1, k)) \in Nat /\ T!Bytes(SubSeq(s, 1, k)) <= T!Bytes(s)
<1>1. PICK z : Sized(z, s) /\ T!Bytes(s) = z[Len(s)]
  BY BytesDef DEF Sized
<1>2. Len(s) \in Nat /\ \A k \in 0..Len(s) : z[k] \in Nat
  <2>1. z \in [0..Len(s) -> Nat]
    BY <1>1, Zenon DEF Sized
  <2> QED
    BY <2>1
<1>3. \A k \in 0..Len(s) : T!Bytes(SubSeq(s, 1, k)) = z[k]
  BY <1>1, BytesOfPrefix
<1>4. SubSeq(s, 1, 0) = <<>> /\ 0 \in 0..Len(s) /\ z[0] = 0
  BY <1>1, <1>2 DEF Sized
<1>5. \A k \in 0..Len(s) : z[k] <= z[Len(s)]
  <2> DEFINE Good == {n \in 0..Len(s) : \A j \in 0..n : z[j] <= z[n]}
  <2>1. 0 \in Good
    BY <1>2
  <2>2. ASSUME NEW n \in 1..Len(s), n - 1 \in Good PROVE n \in Good
    <3>1. z[n] = z[n - 1] + Width[s[n]] /\ Width[s[n]] \in Nat
      <4>1. s[n] \in Chars
        OBVIOUS
      <4> QED
        BY <1>1, <4>1, Widths DEF Sized
    <3>2. n - 1 \in 0..Len(s) /\ \A j \in 0..(n - 1) : z[j] <= z[n - 1] /\ z[j] \in Nat
      BY <1>2, <2>2
    <3>3. z[n - 1] <= z[n]
      BY <1>2, <3>1, <3>2
    <3>4. ASSUME NEW j \in 0..n PROVE z[j] <= z[n]
      <4>1. CASE j = n
        BY <1>2, <4>1
      <4>2. CASE j # n
        <5>1. j \in 0..(n - 1)
          BY <1>2, <4>2
        <5> QED
          BY <1>2, <3>2, <3>3, <5>1
      <4> QED
        BY <4>1, <4>2
    <3> QED
      BY <3>4
  <2> HIDE DEF Good
  <2>3. Len(s) \in Good
    <3>1. \A n \in 0..Len(s) : n \in Good
      BY <1>2, <2>1, <2>2, UpTo
    <3> QED
      BY <1>2, <3>1
  <2> QED
    BY <1>2, <2>3 DEF Good
<1>6. T!Bytes(<<>>) = 0
  BY <1>3, <1>4
<1>7. T!Bytes(s) \in Nat
  BY <1>1, <1>2
<1> QED
  BY <1>1, <1>2, <1>3, <1>5, <1>6, <1>7

\* A string always has a longest beginning that fits.
LEMMA Fits ==
  ASSUME T!SubtitleAssumption, NEW s \in Seq(Chars), NEW n \in Nat
  PROVE  /\ T!Fitting(s, n) \in 0..Len(s) /\ T!Bytes(SubSeq(s, 1, T!Fitting(s, n))) <= n
         /\ T!Bytes(s) > n => T!Fitting(s, n) < Len(s)
<1> DEFINE B(k) == T!Bytes(SubSeq(s, 1, k))
           F(k) == B(k) <= n /\ (k < Len(s) => B(k + 1) > n)
           Good == {k \in 0..Len(s) : B(k) <= n}
<1>1. Len(s) \in Nat /\ SubSeq(s, 1, Len(s)) = s /\ SubSeq(s, 1, 0) = <<>>
  BY SubSeqFull
<1>2. B(0) = 0 /\ \A k \in 0..Len(s) : B(k) \in Nat
  BY <1>1, Bytes
<1>3. \E k \in 0..Len(s) : F(k)
  <2> SUFFICES ASSUME \A k \in 0..Len(s) : ~F(k) PROVE FALSE
    OBVIOUS
  <2> HIDE DEF B
  <2>1. 0 \in Good
    BY <1>1, <1>2
  <2>2. ASSUME NEW k \in 1..Len(s), k - 1 \in Good PROVE k \in Good
    <3>1. k - 1 \in 0..Len(s) /\ k - 1 < Len(s) /\ (k - 1) + 1 = k /\ k \in 0..Len(s)
      BY <1>1
    <3>2. ~(B(k) > n)
      BY <2>2, <3>1
    <3> QED
      BY <1>2, <3>1, <3>2
  <2>3. Len(s) \in Good
    <3> HIDE DEF Good
    <3>1. \A k \in 0..Len(s) : k \in Good
      BY <1>1, <2>1, <2>2, UpTo
    <3> QED
      BY <1>1, <3>1
  <2>4. Len(s) \in 0..Len(s) /\ F(Len(s))
    BY <1>1, <2>3
  <2> QED
    BY <2>4
<1>4. T!Fitting(s, n) \in 0..Len(s) /\ F(T!Fitting(s, n))
  <2>1. T!Fitting(s, n) = CHOOSE k \in 0..Len(s) : F(k)
    BY DEF T!Fitting
  <2> HIDE DEF F
  <2> QED
    BY <1>3, <2>1
<1>5. T!Fitting(s, n) = Len(s) => T!Bytes(s) <= n
  BY <1>1, <1>4
<1>6. T!Bytes(s) \in Nat
  BY Bytes
<1> QED
  BY <1>1, <1>4, <1>5, <1>6

LEMMA AppendOfConcat ==
  ASSUME NEW U, NEW s \in Seq(U), NEW t \in Seq(U), NEW e \in U
  PROVE  s \o Append(t, e) = Append(s \o t, e)
<1>1. <<e>> \in Seq(U) /\ s \o t \in Seq(U)
  OBVIOUS
<1>2. Append(s \o t, e) = (s \o t) \o <<e>> /\ Append(t, e) = t \o <<e>>
  BY <1>1, AppendIsConcat
<1> QED
  BY <1>1, <1>2, ConcatAssociative

\* The letters of the beginnings of a string.
Lettered(z, s) == /\ z \in [0..Len(s) -> Seq(Chars)] /\ z[0] = <<>>
                  /\ \A k \in 1..Len(s) :
                       z[k] = IF s[k] = T!Space THEN z[k - 1] ELSE Append(z[k - 1], s[k])

LEMMA LettersDef ==
  ASSUME NEW s \in Seq(Chars)
  PROVE  \E z : Lettered(z, s) /\ T!WithoutSpaces(s) = z[Len(s)]
<1> DEFINE E(f) == [k \in 0..Len(s) |-> IF k = 0 THEN <<>>
                      ELSE IF s[k] = T!Space THEN f[k - 1] ELSE Append(f[k - 1], s[k])]
           onward == [p \in (1..Len(s)) \X Seq(Chars) |->
                      IF s[p[1]] = T!Space THEN p[2] ELSE Append(p[2], s[p[1]])]
           z    == CHOOSE f : f = E(f)
<1>0. Len(s) \in Nat /\ \A k \in 1..Len(s) : s[k] \in Chars
  OBVIOUS
<1>1. /\ onward \in [(1..Len(s)) \X Seq(Chars) -> Seq(Chars)]
      /\ \A k \in 1..Len(s), l \in Seq(Chars) :
            onward[<<k, l>>] = IF s[k] = T!Space THEN l ELSE Append(l, s[k])
  <2>1. \A l \in Seq(Chars), c \in Chars : Append(l, c) \in Seq(Chars)
    OBVIOUS
  <2> QED
    BY <1>0, <2>1
<1>2. \E f : f = E(f)
  <2> HIDE DEF onward
  <2>1. PICK f : Solves(f, Len(s), Seq(Chars), <<>>, onward)
    <3>1. Len(s) \in Nat /\ <<>> \in Seq(Chars) /\ onward \in [(1..Len(s)) \X Seq(Chars) -> Seq(Chars)]
      BY <1>0, <1>1
    <3> QED
      BY <3>1, Recursion, Zenon
  <2>2. ASSUME NEW k \in 0..Len(s) PROVE f[k] = E(f)[k]
    <3>1. k # 0 => k \in 1..Len(s) /\ f[k - 1] \in Seq(Chars)
      <4>1. k # 0 => k \in 1..Len(s) /\ k - 1 \in 0..Len(s)
        BY <1>0
      <4> QED
        BY <2>1, <4>1 DEF Solves
    <3> QED
      BY <1>0, <1>1, <2>1, <3>1 DEF Solves
  <2>3. f = E(f)
    BY <2>1, <2>2 DEF Solves
  <2> QED
    BY <2>3
<1>3. z = E(z)
  <2> HIDE DEF E
  <2> QED
    BY <1>2
<1>4. T!WithoutSpaces(s) = z[Len(s)]
  BY DEF T!WithoutSpaces
<1> HIDE DEF z
<1>5. /\ z[0] = <<>>
      /\ \A k \in 1..Len(s) : z[k] = IF s[k] = T!Space THEN z[k - 1] ELSE Append(z[k - 1], s[k])
  <2>1. \A k \in 0..Len(s) : z[k] = E(z)[k]
    BY <1>3, Zenon
  <2> HIDE <1>3
  <2>2. z[0] = <<>>
    BY <1>0, <2>1
  <2>3. ASSUME NEW k \in 1..Len(s) PROVE z[k] = IF s[k] = T!Space THEN z[k - 1] ELSE Append(z[k - 1], s[k])
    <3>1. k \in 0..Len(s) /\ k # 0
      BY <1>0
    <3> QED
      BY <2>1, <3>1
  <2> QED
    BY <2>2, <2>3
<1>6. \A k \in 0..Len(s) : z[k] \in Seq(Chars)
  <2> DEFINE Good == {k \in 0..Len(s) : z[k] \in Seq(Chars)}
  <2>1. 0 \in Good /\ \A k \in 1..Len(s) : k - 1 \in Good => k \in Good
    <3>1. z[0] = <<>> /\ <<>> \in Seq(Chars) /\ 0 \in 0..Len(s)
      BY <1>0, <1>5
    <3>2. 0 \in Good
      BY <3>1, Zenon
    <3>3. ASSUME NEW k \in 1..Len(s), k - 1 \in Good PROVE k \in Good
      <4>1. z[k - 1] \in Seq(Chars) /\ s[k] \in Chars /\ k \in 0..Len(s)
        BY <1>0, <3>3
      <4>2. Append(z[k - 1], s[k]) \in Seq(Chars)
        BY <4>1
      <4> QED
        BY <1>5, <4>1, <4>2
    <3> QED
      BY <3>2, <3>3
  <2> HIDE DEF Good
  <2>2. \A k \in 0..Len(s) : k \in Good
    BY <1>0, <2>1, UpTo
  <2> QED
    BY <2>2 DEF Good
<1>7. z \in [0..Len(s) -> Seq(Chars)]
  BY <1>3, <1>6
<1> QED
  BY <1>4, <1>5, <1>7 DEF Lettered

\* The letters of two strings, one after the other, of none and of a space.
LEMMA Letters ==
  ASSUME NEW s \in Seq(Chars), NEW t \in Seq(Chars)
  PROVE  /\ T!WithoutSpaces(s) \in Seq(Chars)
         /\ T!WithoutSpaces(s \o t) = T!WithoutSpaces(s) \o T!WithoutSpaces(t)
<1>1. PICK zs : Lettered(zs, s) /\ T!WithoutSpaces(s) = zs[Len(s)]
  BY LettersDef
<1>2. PICK zt : Lettered(zt, t) /\ T!WithoutSpaces(t) = zt[Len(t)]
  BY LettersDef
<1> DEFINE u == s \o t
           n == Len(s)
           m == Len(t)
<1>3. /\ n \in Nat /\ m \in Nat /\ u \in Seq(Chars) /\ Len(u) = n + m
      /\ \A k \in 1..n : u[k] = s[k]
      /\ \A k \in 1..m : u[n + k] = t[k]
  BY ConcatProperties
<1>4. /\ \A k \in 0..n : zs[k] \in Seq(Chars)
      /\ \A k \in 0..m : zt[k] \in Seq(Chars)
      /\ \A k \in 1..m : t[k] \in Chars
  <2>1. zs \in [0..n -> Seq(Chars)] /\ zt \in [0..m -> Seq(Chars)]
    BY <1>1, <1>2 DEF Lettered
  <2> HIDE DEF n, m
  <2>2. (\A k \in 0..n : zs[k] \in Seq(Chars)) /\ (\A k \in 0..m : zt[k] \in Seq(Chars))
    BY <2>1
  <2>3. \A k \in 1..m : t[k] \in Chars
    BY DEF m
  <2> QED
    BY <2>2, <2>3
<1>5. PICK z : Lettered(z, u) /\ T!WithoutSpaces(u) = z[Len(u)]
  BY <1>3, LettersDef
<1> HIDE DEF u, n, m
<1> DEFINE Good == {k \in 0..n : z[k] = zs[k]}
<1>6. n \in Good
  <2>1. 0 \in Good
    BY <1>1, <1>3, <1>5 DEF Lettered
  <2>2. ASSUME NEW k \in 1..n, k - 1 \in Good PROVE k \in Good
    <3>1. k \in 1..Len(s) /\ k \in 1..Len(u) /\ k \in 0..n
      BY <1>3 DEF n
    <3>2. /\ zs[k] = IF s[k] = T!Space THEN zs[k - 1] ELSE Append(zs[k - 1], s[k])
          /\ z[k] = IF u[k] = T!Space THEN z[k - 1] ELSE Append(z[k - 1], u[k])
      BY <1>1, <1>5, <3>1 DEF Lettered
    <3> QED
      BY <1>3, <2>2, <3>1, <3>2
  <2> HIDE DEF Good
  <2>3. \A k \in 0..n : k \in Good
    BY <1>3, <2>1, <2>2, UpTo
  <2> QED
    BY <1>3, <2>3
<1>7. zs[n] \o <<>> = zs[n] /\ zt[0] = <<>> /\ n + 0 = n
  BY <1>2, <1>3, <1>4, ConcatEmptySeq DEF Lettered
<1> DEFINE R == {k \in 0..m : z[n + k] = zs[n] \o zt[k]}
<1>8. m \in R
  <2>1. 0 \in R
    <3>1. z[n] = zs[n]
      BY <1>6
    <3>2. zs[n] = zs[n] \o zt[0]
      BY <1>7, Zenon
    <3>3. 0 \in 0..m
      BY <1>3
    <3> QED
      BY <1>7, <3>1, <3>2, <3>3, Zenon
  <2>2. ASSUME NEW k \in 1..m, k - 1 \in R PROVE k \in R
    <3>1. /\ k \in 1..Len(t) /\ n + k \in 1..Len(u) /\ n + (k - 1) = (n + k) - 1 /\ k - 1 \in 0..m /\ k \in 0..m
      BY <1>3 DEF m
    <3>2. /\ zt[k] = IF t[k] = T!Space THEN zt[k - 1] ELSE Append(zt[k - 1], t[k])
          /\ z[n + k] = IF u[n + k] = T!Space THEN z[(n + k) - 1] ELSE Append(z[(n + k) - 1], u[n + k])
      BY <1>2, <1>5, <3>1 DEF Lettered
    <3>3. u[n + k] = t[k] /\ z[(n + k) - 1] = zs[n] \o zt[k - 1]
      BY <1>3, <2>2, <3>1
    <3>4. zs[n] \in Seq(Chars) /\ zt[k - 1] \in Seq(Chars) /\ t[k] \in Chars
      BY <1>3, <1>4, <3>1
    <3>5. zs[n] \o Append(zt[k - 1], t[k]) = Append(zs[n] \o zt[k - 1], t[k])
      <4> DEFINE a == zs[n]
                 b == zt[k - 1]
                 c == t[k]
      <4>1. a \in Seq(Chars) /\ b \in Seq(Chars) /\ c \in Chars
        BY <3>4
      <4> HIDE DEF a, b, c
      <4>2. a \o Append(b, c) = Append(a \o b, c)
        BY <4>1, AppendOfConcat
      <4> QED
        BY <4>2 DEF a, b, c
    <3> QED
      BY <3>1, <3>2, <3>3, <3>5
  <2> HIDE DEF R
  <2>3. \A k \in 0..m : k \in R
    BY <1>3, <2>1, <2>2, UpTo
  <2> QED
    BY <1>3, <2>3
<1>9. T!WithoutSpaces(u) = T!WithoutSpaces(s) \o T!WithoutSpaces(t)
  BY <1>1, <1>2, <1>3, <1>5, <1>8 DEF n, m
<1> QED
  BY <1>1, <1>3, <1>4, <1>9 DEF u, n

LEMMA NoLetters == ASSUME T!Space \in Chars PROVE T!WithoutSpaces(<<>>) = <<>> /\ T!WithoutSpaces(<<T!Space>>) = <<>>
<1>0. <<>> \in Seq(Chars)
  OBVIOUS
<1>1. PICK z : Lettered(z, <<>>) /\ T!WithoutSpaces(<<>>) = z[Len(<<>>)]
  BY <1>0, LettersDef
<1>2. <<T!Space>> \in Seq(Chars) /\ Len(<<T!Space>>) = 1 /\ <<T!Space>>[1] = T!Space /\ Len(<<>>) = 0
  OBVIOUS
<1>3. PICK y : Lettered(y, <<T!Space>>) /\ T!WithoutSpaces(<<T!Space>>) = y[Len(<<T!Space>>)]
  BY <1>2, LettersDef
<1>4. y[1] = y[1 - 1]
  BY <1>2, <1>3 DEF Lettered
<1> QED
  BY <1>1, <1>2, <1>3, <1>4 DEF Lettered

\* The text of the first of some lines.
Lines == Seq(Seq(Chars))

Texted(z, ls) == /\ z \in [0..Len(ls) -> Seq(Chars)] /\ z[0] = <<>>
                 /\ \A i \in 1..Len(ls) : z[i] = z[i - 1] \o T!WithoutSpaces(ls[i])

LEMMA TextDef ==
  ASSUME NEW ls \in Lines
  PROVE  \E z : Texted(z, ls) /\ T!Text(ls) = z[Len(ls)]
<1> DEFINE E(f) == [i \in 0..Len(ls) |-> IF i = 0 THEN <<>> ELSE f[i - 1] \o T!WithoutSpaces(ls[i])]
           onward == [p \in (1..Len(ls)) \X Seq(Chars) |-> p[2] \o T!WithoutSpaces(ls[p[1]])]
           z    == CHOOSE f : f = E(f)
<1>0. Len(ls) \in Nat /\ \A i \in 1..Len(ls) : T!WithoutSpaces(ls[i]) \in Seq(Chars)
  <2>1. Len(ls) \in Nat /\ \A i \in 1..Len(ls) : ls[i] \in Seq(Chars)
    BY DEF Lines
  <2> QED
    BY <2>1, Letters
<1>1. /\ onward \in [(1..Len(ls)) \X Seq(Chars) -> Seq(Chars)]
      /\ \A i \in 1..Len(ls), l \in Seq(Chars) : onward[<<i, l>>] = l \o T!WithoutSpaces(ls[i])
  <2>1. \A l, m \in Seq(Chars) : l \o m \in Seq(Chars)
    OBVIOUS
  <2> QED
    BY <1>0, <2>1
<1>2. \E f : f = E(f)
  <2> HIDE DEF onward
  <2>1. PICK f : Solves(f, Len(ls), Seq(Chars), <<>>, onward)
    <3>1. Len(ls) \in Nat /\ <<>> \in Seq(Chars) /\ onward \in [(1..Len(ls)) \X Seq(Chars) -> Seq(Chars)]
      BY <1>0, <1>1
    <3> QED
      BY <3>1, Recursion, Zenon
  <2>2. ASSUME NEW i \in 0..Len(ls) PROVE f[i] = E(f)[i]
    <3>1. i # 0 => i \in 1..Len(ls) /\ f[i - 1] \in Seq(Chars)
      <4>1. i # 0 => i \in 1..Len(ls) /\ i - 1 \in 0..Len(ls)
        BY <1>0
      <4> QED
        BY <2>1, <4>1 DEF Solves
    <3> QED
      BY <1>0, <1>1, <2>1, <3>1 DEF Solves
  <2>3. f = E(f)
    BY <2>1, <2>2 DEF Solves
  <2> QED
    BY <2>3
<1>3. z = E(z)
  <2> HIDE DEF E
  <2> QED
    BY <1>2
<1>4. T!Text(ls) = z[Len(ls)]
  BY DEF T!Text
<1> HIDE DEF z
<1>5. z[0] = <<>> /\ \A i \in 1..Len(ls) : z[i] = z[i - 1] \o T!WithoutSpaces(ls[i])
  <2>1. \A i \in 0..Len(ls) : z[i] = E(z)[i]
    BY <1>3, Zenon
  <2> HIDE <1>3
  <2>2. z[0] = <<>>
    BY <1>0, <2>1
  <2>3. ASSUME NEW i \in 1..Len(ls) PROVE z[i] = z[i - 1] \o T!WithoutSpaces(ls[i])
    <3>1. i \in 0..Len(ls) /\ i # 0
      BY <1>0
    <3> QED
      BY <2>1, <3>1
  <2> QED
    BY <2>2, <2>3
<1>6. \A i \in 0..Len(ls) : z[i] \in Seq(Chars)
  <2> DEFINE Good == {i \in 0..Len(ls) : z[i] \in Seq(Chars)}
  <2>1. 0 \in Good /\ \A i \in 1..Len(ls) : i - 1 \in Good => i \in Good
    <3>1. z[0] = <<>> /\ <<>> \in Seq(Chars) /\ 0 \in 0..Len(ls)
      BY <1>0, <1>5
    <3>2. 0 \in Good
      BY <3>1, Zenon
    <3>3. ASSUME NEW i \in 1..Len(ls), i - 1 \in Good PROVE i \in Good
      <4>1. z[i - 1] \in Seq(Chars) /\ T!WithoutSpaces(ls[i]) \in Seq(Chars) /\ i \in 0..Len(ls)
        BY <1>0, <3>3
      <4>2. z[i - 1] \o T!WithoutSpaces(ls[i]) \in Seq(Chars)
        BY <4>1
      <4> QED
        BY <1>5, <4>1, <4>2
    <3> QED
      BY <3>2, <3>3
  <2> HIDE DEF Good
  <2>2. \A i \in 0..Len(ls) : i \in Good
    BY <1>0, <2>1, UpTo
  <2> QED
    BY <2>2 DEF Good
<1>7. z \in [0..Len(ls) -> Seq(Chars)]
  BY <1>3, <1>6
<1> QED
  BY <1>4, <1>5, <1>7 DEF Texted

LEMMA TextOfNone == T!Text(<<>>) = <<>>
<1>1. <<>> \in Lines /\ Len(<<>>) = 0
  BY DEF Lines
<1>2. PICK z : Texted(z, <<>>) /\ T!Text(<<>>) = z[Len(<<>>)]
  BY <1>1, TextDef
<1> QED
  BY <1>1, <1>2 DEF Texted

LEMMA TextOfOneMore ==
  ASSUME NEW ls \in Lines, NEW l \in Seq(Chars)
  PROVE  T!Text(ls) \in Seq(Chars) /\ T!Text(Append(ls, l)) = T!Text(ls) \o T!WithoutSpaces(l)
<1> DEFINE n == Len(ls)
           m == Append(ls, l)
<1>1. PICK z : Texted(z, ls) /\ T!Text(ls) = z[n]
  BY TextDef
<1>2. /\ n \in Nat /\ m \in Lines /\ Len(m) = n + 1 /\ m[n + 1] = l
      /\ \A i \in 1..n : m[i] = ls[i]
  BY AppendProperties DEF Lines
<1> HIDE DEF m
<1>3. PICK y : Texted(y, m) /\ T!Text(m) = y[n + 1]
  BY <1>2, TextDef
<1> HIDE DEF n
<1> DEFINE Good == {i \in 0..n : y[i] = z[i]}
<1>4. 0 \in Good
  BY <1>1, <1>2, <1>3 DEF Texted
<1>5. ASSUME NEW i \in 1..n, i - 1 \in Good PROVE i \in Good
  <2>1. i \in 1..Len(ls) /\ i \in 1..Len(m) /\ i \in 0..n /\ m[i] = ls[i]
    BY <1>2 DEF n
  <2>2. z[i] = z[i - 1] \o T!WithoutSpaces(ls[i]) /\ y[i] = y[i - 1] \o T!WithoutSpaces(m[i])
    BY <1>1, <1>3, <2>1 DEF Texted
  <2> QED
    BY <1>5, <2>1, <2>2
<1>6. y[n] = z[n]
  <2> HIDE DEF Good
  <2>1. \A i \in 0..n : i \in Good
    BY <1>2, <1>4, <1>5, UpTo
  <2> QED
    BY <1>2, <2>1 DEF Good
<1>7. y[n + 1] = y[(n + 1) - 1] \o T!WithoutSpaces(m[n + 1])
  <2>1. n + 1 \in 1..Len(m)
    BY <1>2
  <2> QED
    BY <1>3, <2>1 DEF Texted
<1>8. z[n] \in Seq(Chars)
  BY <1>1, <1>2 DEF Texted, n
<1>9. (n + 1) - 1 = n
  BY <1>2
<1>10. T!Text(m) = T!Text(ls) \o T!WithoutSpaces(l)
  BY <1>1, <1>2, <1>3, <1>6, <1>7, <1>9
<1> QED
  BY <1>1, <1>8, <1>10 DEF m

LEMMA FrontOfPrefix ==
  ASSUME NEW U, NEW s \in Seq(U), NEW p \in 0..Len(s)
  PROVE  T!Front(SubSeq(s, 1, p)) = SubSeq(s, 1, IF p = 0 THEN 0 ELSE p - 1)
<1> DEFINE q == IF p = 0 THEN 0 ELSE p - 1
           t == SubSeq(s, 1, p)
<1>1. Len(s) \in Nat /\ p \in Nat /\ q \in Nat /\ q <= p /\ p <= Len(s)
  OBVIOUS
<1>2. t \in Seq(U) /\ Len(t) = p /\ \A i \in 1..p : t[i] = s[i]
  OBVIOUS
<1>3. SubSeq(s, 1, q) \in Seq(U) /\ Len(SubSeq(s, 1, q)) = q /\ \A i \in 1..q : SubSeq(s, 1, q)[i] = s[i]
  BY <1>1
<1> HIDE DEF t
<1>4. SubSeq(t, 1, p - 1) \in Seq(U) /\ Len(SubSeq(t, 1, p - 1)) = q /\ \A i \in 1..q : SubSeq(t, 1, p - 1)[i] = t[i]
  BY <1>1, <1>2
<1>5. T!Front(t) = SubSeq(t, 1, p - 1)
  BY <1>2 DEF T!Front
<1>6. SubSeq(t, 1, p - 1) = SubSeq(s, 1, q)
  <2>1. \A i \in 1..q : SubSeq(t, 1, p - 1)[i] = SubSeq(s, 1, q)[i]
    BY <1>1, <1>2, <1>3, <1>4
  <2> QED
    BY <1>3, <1>4, <2>1, SeqEqual
<1> QED
  BY <1>5, <1>6 DEF t

\* What is taken of a line that is too long: one character more than what fits, or less.
LEMMA Cuts ==
  ASSUME T!SubtitleAssumption, NEW s \in Seq(Chars), NEW over \in Int
  PROVE  LET cut == T!FindSafeSplitPos(s, over)
         IN /\ cut.pos \in 0..Len(s) /\ cut.kept \in Int
            /\ T!Bytes(T!Front(SubSeq(s, 1, cut.pos))) <= MaxBytes
<1> DEFINE n   == T!Fitting(s, MaxBytes)
           cut == T!FindSafeSplitPos(s, over)
<1>0. MaxBytes \in Nat /\ Len(s) \in Nat /\ T!Bytes(s) \in Nat
  BY Widths, Bytes
<1>1. n \in 0..Len(s) /\ T!Bytes(SubSeq(s, 1, n)) <= MaxBytes /\ (T!Bytes(s) > MaxBytes => n < Len(s))
  BY <1>0, Fits
<1>2. \A k \in 0..Len(s) : T!Bytes(SubSeq(s, 1, k)) \in Nat /\ T!Bytes(SubSeq(s, 1, k)) <= T!Bytes(s)
  BY Bytes
<1>3. \A k \in 0..n : T!Bytes(SubSeq(s, 1, k)) <= MaxBytes
  <2> SUFFICES ASSUME NEW k \in 0..n PROVE T!Bytes(SubSeq(s, 1, k)) <= MaxBytes
    OBVIOUS
  <2>1. PICK z : Sized(z, s)
    BY BytesDef DEF Sized
  <2> DEFINE t == SubSeq(s, 1, n)
  <2>2. t \in Seq(Chars) /\ Len(t) = n
    BY <1>1
  <2>3. SubSeq(t, 1, k) = SubSeq(s, 1, k)
    <3>1. SubSeq(t, 1, k) \in Seq(Chars) /\ Len(SubSeq(t, 1, k)) = k /\ \A i \in 1..k : SubSeq(t, 1, k)[i] = s[i]
      BY <1>0, <1>1
    <3>2. SubSeq(s, 1, k) \in Seq(Chars) /\ Len(SubSeq(s, 1, k)) = k /\ \A i \in 1..k : SubSeq(s, 1, k)[i] = s[i]
      BY <1>0, <1>1
    <3>3. ASSUME NEW i \in 1..k PROVE SubSeq(t, 1, k)[i] = SubSeq(s, 1, k)[i]
      <4>1. SubSeq(t, 1, k)[i] = s[i] /\ SubSeq(s, 1, k)[i] = s[i]
        BY <3>1, <3>2, Zenon
      <4> QED
        BY <4>1, Zenon
    <3> QED
      BY <3>1, <3>2, <3>3, SeqEqual
  <2> HIDE DEF t
  <2>4. T!Bytes(SubSeq(t, 1, k)) \in Nat /\ T!Bytes(SubSeq(t, 1, k)) <= T!Bytes(t) /\ T!Bytes(t) \in Nat
    BY <2>2, Bytes
  <2>5. T!Bytes(t) <= MaxBytes
    BY <1>1 DEF t
  <2>6. T!Bytes(SubSeq(t, 1, k)) <= MaxBytes
    BY <1>0, <2>4, <2>5
  <2> QED
    BY <2>3, <2>6, Zenon
<1>4. CASE T!Bytes(s) <= MaxBytes
  <2>1. cut.pos = Len(s) /\ cut.kept = over
    BY <1>4 DEF T!FindSafeSplitPos
  <2> DEFINE k == IF Len(s) = 0 THEN 0 ELSE Len(s) - 1
  <2>2. T!Front(SubSeq(s, 1, Len(s))) = SubSeq(s, 1, k) /\ k \in 0..Len(s)
    BY <1>0, FrontOfPrefix
  <2>3. T!Bytes(SubSeq(s, 1, k)) <= MaxBytes
    <3> HIDE DEF k
    <3> QED
      BY <1>0, <1>2, <1>4, <2>2
  <2> HIDE DEF k, cut
  <2>4. cut.pos \in 0..Len(s) /\ cut.kept \in Int /\ T!Bytes(T!Front(SubSeq(s, 1, cut.pos))) <= MaxBytes
    <3>1. Len(s) \in 0..Len(s)
      BY <1>0
    <3> QED
      BY <2>1, <2>2, <2>3, <3>1, Zenon
  <2> QED
    BY <2>4 DEF cut
<1>5. CASE T!Bytes(s) > MaxBytes
  <2>1. cut.pos = n + (IF over > 0 THEN 1 ELSE 0) /\ cut.kept = MaxBytes - T!Bytes(SubSeq(s, 1, n))
    BY <1>0, <1>5 DEF T!FindSafeSplitPos
  <2> DEFINE k == IF cut.pos = 0 THEN 0 ELSE cut.pos - 1
  <2>2. cut.pos \in 0..Len(s) /\ k \in 0..n /\ cut.kept \in Int
    BY <1>0, <1>1, <1>2, <1>5, <2>1
  <2>3. T!Front(SubSeq(s, 1, cut.pos)) = SubSeq(s, 1, k)
    BY <2>2, FrontOfPrefix
  <2>4. T!Bytes(SubSeq(s, 1, k)) <= MaxBytes
    <3> HIDE DEF k
    <3> QED
      BY <1>3, <2>2
  <2> QED
    BY <2>2, <2>3, <2>4
<1> QED
  BY <1>0, <1>4, <1>5

\* What foldSubtitles keeps: lines that may be one character too long, and the text.
Folding == [result : Lines, line : Seq(Chars), kept : Int, full : BOOLEAN]

PiecesFit(ls) == \A i \in 1..Len(ls) : T!Bytes(T!Front(ls[i])) <= MaxBytes

KeepsText(ls, text) == /\ \E rest \in Seq(Chars) : text = T!Text(ls) \o rest
                       /\ Len(ls) < MaxLines => text = T!Text(ls)

FoldOf(f, text) ==
  /\ f \in Folding /\ Len(f.result) <= MaxLines /\ PiecesFit(f.result)
  /\ f.full => Len(f.result) = MaxLines /\ \E rest \in Seq(Chars) : text = T!Text(f.result) \o rest
  /\ ~f.full => /\ text = T!Text(f.result) \o T!WithoutSpaces(f.line)
                /\ Len(f.result) < MaxLines => T!Bytes(f.line) <= MaxBytes

LEMMA ShortLine ==
  ASSUME T!SubtitleAssumption, NEW l \in Seq(Chars), T!Bytes(l) <= MaxBytes
  PROVE  T!Bytes(T!Front(l)) <= MaxBytes
<1> DEFINE k == IF Len(l) = 0 THEN 0 ELSE Len(l) - 1
<1>1. Len(l) \in Nat /\ SubSeq(l, 1, Len(l)) = l /\ Len(l) \in 0..Len(l) /\ k \in 0..Len(l)
  BY SubSeqFull
<1>2. T!Front(SubSeq(l, 1, Len(l))) = SubSeq(l, 1, k)
  BY <1>1, FrontOfPrefix
<1> HIDE DEF k
<1>3. T!Bytes(SubSeq(l, 1, k)) \in Nat /\ T!Bytes(SubSeq(l, 1, k)) <= T!Bytes(l) /\ T!Bytes(l) \in Nat
  BY <1>1, Bytes
<1>4. T!Bytes(SubSeq(l, 1, k)) <= MaxBytes
  BY <1>3, Widths
<1>5. T!Front(l) = SubSeq(l, 1, k)
  BY <1>1, <1>2, Zenon
<1> QED
  BY <1>4, <1>5, Zenon

LEMMA PiecesAppended ==
  ASSUME NEW ls \in Lines, NEW l \in Seq(Chars), PiecesFit(ls), T!Bytes(T!Front(l)) <= MaxBytes
  PROVE  Append(ls, l) \in Lines /\ Len(Append(ls, l)) = Len(ls) + 1 /\ PiecesFit(Append(ls, l))
<1> DEFINE m == Append(ls, l)
<1>1. /\ m \in Lines /\ Len(m) = Len(ls) + 1 /\ Len(ls) \in Nat /\ m[Len(ls) + 1] = l
      /\ \A i \in 1..Len(ls) : m[i] = ls[i]
  BY AppendProperties DEF Lines
<1> HIDE DEF m
<1>2. ASSUME NEW i \in 1..Len(m) PROVE T!Bytes(T!Front(m[i])) <= MaxBytes
  <2>1. CASE i = Len(ls) + 1
    <3>1. m[i] = l
      BY <1>1, <2>1
    <3> QED
      BY <3>1, Zenon
  <2>2. CASE i # Len(ls) + 1
    <3>1. i \in 1..Len(ls)
      BY <1>1, <2>2
    <3> QED
      BY <1>1, <3>1, Zenon DEF PiecesFit
  <2> QED
    BY <2>1, <2>2
<1> QED
  BY <1>1, <1>2 DEF PiecesFit, m

LEMMA TextTypes ==
  ASSUME NEW ls \in Lines
  PROVE  T!Text(ls) \in Seq(Chars) /\ T!Text(ls) \o <<>> = T!Text(ls)
<1>1. <<>> \in Seq(Chars)
  OBVIOUS
<1>2. T!Text(ls) \in Seq(Chars)
  BY <1>1, TextOfOneMore
<1> QED
  BY <1>2, ConcatEmptySeq

\* The line is after, when there is one and room for it.
LEMMA PushedLine ==
  ASSUME T!SubtitleAssumption, NEW f, NEW text, FoldOf(f, text)
  PROVE  LET g == T!PushLine(f)
         IN /\ g \in Folding /\ g.full = f.full /\ Len(g.result) <= MaxLines /\ PiecesFit(g.result)
            /\ KeepsText(g.result, text)
<1> DEFINE g == T!PushLine(f)
<1>1. /\ f \in Folding /\ f.result \in Lines /\ f.line \in Seq(Chars) /\ f.full \in BOOLEAN
      /\ Len(f.result) <= MaxLines /\ PiecesFit(f.result) /\ Len(f.result) \in Nat /\ MaxLines \in Nat
  BY Widths DEF FoldOf, Folding, Lines
<1>2. CASE f.line # <<>> /\ Len(f.result) < MaxLines
  <2> DEFINE r == Append(f.result, f.line)
  <2>1. g = [f EXCEPT !.result = r]
    BY <1>2 DEF T!PushLine
  <2>2. ~f.full
    BY <1>1, <1>2 DEF FoldOf
  <2>3. text = T!Text(f.result) \o T!WithoutSpaces(f.line) /\ T!Bytes(f.line) <= MaxBytes
    BY <1>2, <2>2 DEF FoldOf
  <2>4. T!Bytes(T!Front(f.line)) <= MaxBytes
    BY <1>1, <2>3, ShortLine
  <2>5. r \in Lines /\ Len(r) = Len(f.result) + 1 /\ PiecesFit(r)
    BY <1>1, <2>4, PiecesAppended
  <2>6. T!Text(r) = text
    BY <1>1, <2>3, TextOfOneMore
  <2> HIDE DEF r, g
  <2>7. g \in Folding /\ g.full = f.full /\ g.result = r
    BY <1>1, <2>1, <2>5 DEF Folding
  <2>8. KeepsText(r, text)
    <3>1. <<>> \in Seq(Chars) /\ text = T!Text(r) \o <<>>
      BY <2>5, <2>6, TextTypes
    <3> QED
      BY <2>6, <3>1 DEF KeepsText
  <2>9. Len(r) <= MaxLines
    BY <1>1, <1>2, <2>5
  <2> QED
    BY <2>5, <2>7, <2>8, <2>9 DEF g
<1>3. CASE ~(f.line # <<>> /\ Len(f.result) < MaxLines)
  <2>1. g = f
    BY <1>3 DEF T!PushLine
  <2>2. KeepsText(f.result, text)
    <3>1. CASE f.full
      <4>1. Len(f.result) = MaxLines /\ \E rest \in Seq(Chars) : text = T!Text(f.result) \o rest
        BY <3>1, Zenon DEF FoldOf
      <4>2. ~(Len(f.result) < MaxLines)
        BY <1>1, <4>1
      <4> QED
        BY <4>1, <4>2, Zenon DEF KeepsText
    <3>2. CASE ~f.full
      <4>1. text = T!Text(f.result) \o T!WithoutSpaces(f.line) /\ T!WithoutSpaces(f.line) \in Seq(Chars)
        BY <1>1, <3>2, Letters DEF FoldOf
      <4>2. ASSUME Len(f.result) < MaxLines PROVE text = T!Text(f.result)
        <5>1. f.line = <<>>
          BY <1>3, <4>2
        <5>2. T!WithoutSpaces(f.line) = <<>>
          BY <5>1, Widths, NoLetters
        <5> QED
          BY <1>1, <4>1, <5>2, TextTypes
      <4> QED
        BY <4>1, <4>2 DEF KeepsText
    <3> QED
      BY <3>1, <3>2
  <2> QED
    BY <1>1, <2>1, <2>2
<1> QED
  BY <1>2, <1>3

\* A subtitle that is too long, cut n times.
Splitting(g, text, n) ==
  /\ g \in Folding /\ g.full = FALSE /\ Len(g.result) <= MaxLines /\ PiecesFit(g.result)
  /\ text = T!Text(g.result) \o T!WithoutSpaces(g.line)
  /\ g.line = <<>> \/ Len(g.result) = MaxLines \/ n <= Len(g.result)

LEMMA CutOnce ==
  ASSUME T!SubtitleAssumption, NEW g \in Folding
  PROVE  LET cut == T!FindSafeSplitPos(g.line, g.kept)
             p   == SubSeq(g.line, 1, cut.pos)
             r   == SubSeq(g.line, cut.pos + 1, Len(g.line))
         IN /\ p \in Seq(Chars) /\ r \in Seq(Chars) /\ p \o r = g.line /\ cut.kept \in Int
            /\ T!Bytes(T!Front(p)) <= MaxBytes
<1> DEFINE s   == g.line
           cut == T!FindSafeSplitPos(s, g.kept)
           k   == cut.pos
<1>1. s \in Seq(Chars) /\ g.kept \in Int /\ Len(s) \in Nat
  BY DEF Folding
<1>2. k \in 0..Len(s) /\ cut.kept \in Int /\ T!Bytes(T!Front(SubSeq(s, 1, k))) <= MaxBytes
  BY <1>1, Cuts
<1> HIDE DEF s, k, cut
<1>3. SubSeq(s, 1, k) \in Seq(Chars) /\ SubSeq(s, k + 1, Len(s)) \in Seq(Chars)
  BY <1>1, <1>2
<1>4. SubSeq(s, 1, k) \o SubSeq(s, k + 1, Len(s)) = SubSeq(s, 1, Len(s))
  <2>1. 1 \in 1..(Len(s) + 1) /\ k \in (1 - 1)..Len(s) /\ Len(s) \in k..Len(s)
    BY <1>1, <1>2
  <2> QED
    BY <1>1, <2>1, ConcatAdjacentSubSeq
<1>5. SubSeq(s, 1, Len(s)) = s
  BY <1>1, SubSeqFull
<1>6. /\ SubSeq(s, 1, k) \in Seq(Chars) /\ SubSeq(s, k + 1, Len(s)) \in Seq(Chars)
      /\ SubSeq(s, 1, k) \o SubSeq(s, k + 1, Len(s)) = s /\ cut.kept \in Int
      /\ T!Bytes(T!Front(SubSeq(s, 1, k))) <= MaxBytes
  BY <1>2, <1>3, <1>4, <1>5, Zenon
<1> QED
  BY <1>6, Zenon DEF s, k, cut

LEMMA CutStep ==
  ASSUME T!SubtitleAssumption, NEW g \in Folding
  PROVE  /\ T!CutLine(g) \in Folding
         /\ \A text, n : n \in 1..MaxLines /\ Splitting(g, text, n - 1) => Splitting(T!CutLine(g), text, n)
<1> DEFINE cut == T!FindSafeSplitPos(g.line, g.kept)
           p   == SubSeq(g.line, 1, cut.pos)
           r   == SubSeq(g.line, cut.pos + 1, Len(g.line))
           h   == T!CutLine(g)
<1>1. /\ p \in Seq(Chars) /\ r \in Seq(Chars) /\ p \o r = g.line /\ cut.kept \in Int
      /\ T!Bytes(T!Front(p)) <= MaxBytes
  BY CutOnce
<1>2. g.result \in Lines /\ g.line \in Seq(Chars) /\ Len(g.result) \in Nat /\ MaxLines \in Nat
  BY Widths DEF Folding, Lines
<1>3. CASE g.line = <<>> \/ Len(g.result) = MaxLines
  <2>1. h = g
    BY <1>3 DEF T!CutLine
  <2>2. ASSUME NEW text, NEW n \in 1..MaxLines, Splitting(g, text, n - 1) PROVE Splitting(g, text, n)
    BY <1>3, <2>2, Zenon DEF Splitting
  <2> QED
    BY <2>1, <2>2
<1>4. CASE ~(g.line = <<>> \/ Len(g.result) = MaxLines)
  <2> DEFINE q == Append(g.result, p)
  <2>1. h = [g EXCEPT !.result = q, !.line = r, !.kept = cut.kept]
    BY <1>4 DEF T!CutLine
  <2> HIDE DEF p, r, cut, h
  <2>2. q \in Lines
    BY <1>1, <1>2 DEF Lines
  <2>3. Len(q) = Len(g.result) + 1
    BY <1>1, <1>2 DEF Lines
  <2>4. T!Text(q) = T!Text(g.result) \o T!WithoutSpaces(p)
    BY <1>1, <1>2, TextOfOneMore
  <2>5. PiecesFit(g.result) => PiecesFit(q)
    BY <1>1, <1>2, PiecesAppended
  <2> HIDE DEF q
  <2>6. /\ h \in Folding /\ h.result = q /\ h.line = r /\ h.full = g.full
    BY <1>1, <2>1, <2>2 DEF Folding
  <2>7. T!WithoutSpaces(g.line) = T!WithoutSpaces(p) \o T!WithoutSpaces(r)
    BY <1>1, Letters
  <2>8. T!Text(q) \o T!WithoutSpaces(r) = T!Text(g.result) \o T!WithoutSpaces(g.line)
    <3>1. /\ T!Text(g.result) \in Seq(Chars) /\ T!WithoutSpaces(p) \in Seq(Chars) /\ T!WithoutSpaces(r) \in Seq(Chars)
      BY <1>1, <1>2, TextTypes, Letters
    <3>2. (T!Text(g.result) \o T!WithoutSpaces(p)) \o T!WithoutSpaces(r)
            = T!Text(g.result) \o (T!WithoutSpaces(p) \o T!WithoutSpaces(r))
      BY <3>1, ConcatAssociative
    <3> QED
      BY <2>4, <2>7, <3>2, Zenon
  <2>9. ASSUME NEW text, NEW n \in 1..MaxLines, Splitting(g, text, n - 1) PROVE Splitting(h, text, n)
    <3>1. /\ g.full = FALSE /\ Len(g.result) <= MaxLines /\ PiecesFit(g.result) /\ n - 1 <= Len(g.result)
          /\ text = T!Text(g.result) \o T!WithoutSpaces(g.line)
      BY <1>4, <2>9, Zenon DEF Splitting
    <3>2. Len(q) <= MaxLines /\ n <= Len(q)
      BY <1>2, <1>4, <2>3, <3>1
    <3> QED
      BY <2>5, <2>6, <2>8, <3>1, <3>2, Zenon DEF Splitting
  <2> QED
    BY <2>6, <2>9 DEF h
<1> QED
  BY <1>3, <1>4

\* The loop that cuts a subtitle: a line is left only when all lines are used.
LEMMA SplitFolds ==
  ASSUME T!SubtitleAssumption, NEW f \in Folding, NEW text, NEW sub \in Seq(Chars),
         f.full = FALSE, Len(f.result) <= MaxLines, PiecesFit(f.result), text = T!Text(f.result)
  PROVE  FoldOf(T!SplitTitle(f, sub), text \o T!WithoutSpaces(sub))
<1> DEFINE x    == [f EXCEPT !.line = sub]
           E(a) == [n \in 0..MaxLines |-> IF n = 0 THEN [f EXCEPT !.line = sub] ELSE T!CutLine(a[n - 1])]
           onward == [p \in (1..MaxLines) \X Folding |-> T!CutLine(p[2])]
           z    == CHOOSE a : a = E(a)
           all  == text \o T!WithoutSpaces(sub)
<1>0. MaxLines \in Nat /\ x \in Folding /\ x.line = sub /\ x.result = f.result /\ x.full = FALSE
  BY Widths DEF Folding
<1>1. onward \in [(1..MaxLines) \X Folding -> Folding] /\ \A n \in 1..MaxLines, g \in Folding : onward[<<n, g>>] = T!CutLine(g)
  BY CutStep
<1>2. \E a : a = E(a)
  <2> HIDE DEF onward, x
  <2>1. PICK a : Solves(a, MaxLines, Folding, x, onward)
    BY <1>0, <1>1, Recursion, Zenon
  <2>2. ASSUME NEW n \in 0..MaxLines PROVE a[n] = E(a)[n]
    <3>1. n # 0 => n \in 1..MaxLines /\ a[n - 1] \in Folding
      <4>1. n # 0 => n \in 1..MaxLines /\ n - 1 \in 0..MaxLines
        BY <1>0
      <4> QED
        BY <2>1, <4>1 DEF Solves
    <3> QED
      BY <1>0, <1>1, <2>1, <3>1 DEF Solves, x
  <2>3. a = E(a)
    BY <2>1, <2>2 DEF Solves
  <2> QED
    BY <2>3
<1>3. z = E(z)
  <2> HIDE DEF E
  <2> QED
    BY <1>2
<1>4. T!SplitTitle(f, sub) = z[MaxLines]
  BY DEF T!SplitTitle
<1> HIDE DEF z
<1>5. z[0] = x /\ \A n \in 1..MaxLines : z[n] = T!CutLine(z[n - 1])
  <2>1. \A n \in 0..MaxLines : z[n] = E(z)[n]
    BY <1>3, Zenon
  <2> HIDE <1>3
  <2>2. z[0] = x
    BY <1>0, <2>1
  <2>3. ASSUME NEW n \in 1..MaxLines PROVE z[n] = T!CutLine(z[n - 1])
    <3>1. n \in 0..MaxLines /\ n # 0
      BY <1>0
    <3> QED
      BY <2>1, <3>1
  <2> QED
    BY <2>2, <2>3
<1> HIDE DEF x
<1> DEFINE Good == {n \in 0..MaxLines : Splitting(z[n], all, n)}
<1>6. 0 \in Good
  <2>1. Splitting(x, all, 0)
    <3>1. Len(f.result) \in Nat
      BY DEF Folding, Lines
    <3>2. 0 <= Len(f.result)
      BY <3>1
    <3> QED
      BY <1>0, <3>2, Zenon DEF Splitting
  <2> QED
    BY <1>0, <1>5, <2>1
<1>7. ASSUME NEW n \in 1..MaxLines, n - 1 \in Good PROVE n \in Good
  <2>1. Splitting(z[n - 1], all, n - 1) /\ n \in 0..MaxLines
    BY <1>0, <1>7
  <2>2. z[n - 1] \in Folding
    BY <2>1, Zenon DEF Splitting
  <2>3. Splitting(T!CutLine(z[n - 1]), all, n)
    BY <2>1, <2>2, CutStep, Zenon
  <2> QED
    BY <1>5, <2>1, <2>3
<1>8. Splitting(z[MaxLines], all, MaxLines)
  <2> HIDE DEF Good
  <2>1. \A n \in 0..MaxLines : n \in Good
    BY <1>0, <1>6, <1>7, UpTo
  <2>2. MaxLines \in Good
    BY <1>0, <2>1
  <2> QED
    BY <2>2 DEF Good
<1> DEFINE g == z[MaxLines]
<1> HIDE DEF g, all
<1>9. g \in Folding /\ Len(g.result) \in Nat /\ Splitting(g, all, MaxLines)
  BY <1>8 DEF Splitting, Folding, Lines, g
<1>10. Len(g.result) < MaxLines => T!Bytes(g.line) <= MaxBytes
  <2> SUFFICES ASSUME Len(g.result) < MaxLines PROVE T!Bytes(g.line) <= MaxBytes
    OBVIOUS
  <2>1. g.line = <<>>
    BY <1>0, <1>9 DEF Splitting
  <2>2. T!Bytes(g.line) = 0
    BY <2>1, Bytes
  <2> QED
    BY <2>2, Widths
<1>11. FoldOf(g, all)
  BY <1>9, <1>10, Zenon DEF FoldOf, Splitting
<1> QED
  BY <1>4, <1>11 DEF g, all


\* The text of a line to which a subtitle is added.
LEMMA Joined ==
  ASSUME T!SubtitleAssumption, NEW l \in Seq(Chars), NEW sub \in Seq(Chars)
  PROVE  LET joined == IF l = <<>> THEN sub ELSE l \o <<T!Space>> \o sub
         IN joined \in Seq(Chars) /\ T!WithoutSpaces(joined) = T!WithoutSpaces(l) \o T!WithoutSpaces(sub)
<1>1. T!Space \in Chars /\ T!WithoutSpaces(<<>>) = <<>> /\ T!WithoutSpaces(<<T!Space>>) = <<>>
  BY Widths, NoLetters
<1>2. <<T!Space>> \in Seq(Chars) /\ l \o <<T!Space>> \in Seq(Chars) /\ (l \o <<T!Space>>) \o sub \in Seq(Chars)
  BY <1>1
<1>3. T!WithoutSpaces(l) \in Seq(Chars) /\ T!WithoutSpaces(sub) \in Seq(Chars)
  BY Letters
<1>4. /\ T!WithoutSpaces(l) \o <<>> = T!WithoutSpaces(l)
      /\ <<>> \o T!WithoutSpaces(sub) = T!WithoutSpaces(sub)
  BY <1>3, ConcatEmptySeq
<1>5. CASE l = <<>>
  BY <1>1, <1>4, <1>5
<1>6. CASE l # <<>>
  <2>1. T!WithoutSpaces(l \o <<T!Space>>) = T!WithoutSpaces(l)
    BY <1>1, <1>2, <1>4, Letters
  <2>2. T!WithoutSpaces((l \o <<T!Space>>) \o sub) = T!WithoutSpaces(l \o <<T!Space>>) \o T!WithoutSpaces(sub)
    BY <1>2, Letters
  <2>3. T!WithoutSpaces((l \o <<T!Space>>) \o sub) = T!WithoutSpaces(l) \o T!WithoutSpaces(sub)
    BY <2>1, <2>2, Zenon
  <2> QED
    BY <1>2, <1>6, <2>3
<1> QED
  BY <1>5, <1>6

\* A subtitle more: the lines hold the text to its end, or are full.
LEMMA FoldStep ==
  ASSUME T!SubtitleAssumption, NEW f, NEW text \in Seq(Chars), FoldOf(f, text), NEW sub \in Seq(Chars)
  PROVE  FoldOf(T!FoldTitle(f, sub), text \o T!WithoutSpaces(sub))
<1> DEFINE joined == IF f.line = <<>> THEN sub ELSE f.line \o <<T!Space>> \o sub
           after == T!PushLine(f)
           all    == text \o T!WithoutSpaces(sub)
           g      == T!FoldTitle(f, sub)
<1>1. /\ f \in Folding /\ f.result \in Lines /\ f.line \in Seq(Chars) /\ f.full \in BOOLEAN
      /\ Len(f.result) <= MaxLines /\ PiecesFit(f.result) /\ Len(f.result) \in Nat /\ MaxLines \in Nat
      /\ T!Text(f.result) \in Seq(Chars) /\ MaxBytes \in Nat
  BY Widths, TextTypes DEF FoldOf, Folding, Lines
<1>2. /\ joined \in Seq(Chars) /\ T!WithoutSpaces(joined) = T!WithoutSpaces(f.line) \o T!WithoutSpaces(sub)
      /\ T!WithoutSpaces(f.line) \in Seq(Chars) /\ T!WithoutSpaces(sub) \in Seq(Chars)
  BY <1>1, Joined, Letters
<1>3. /\ after \in Folding /\ after.full = f.full /\ Len(after.result) <= MaxLines /\ PiecesFit(after.result)
      /\ KeepsText(after.result, text)
  BY PushedLine
<1>4. after.result \in Lines /\ Len(after.result) \in Nat /\ T!Text(after.result) \in Seq(Chars)
  BY <1>3, TextTypes DEF Folding, Lines
<1>5. T!Bytes(joined) \in Nat /\ T!Bytes(sub) \in Nat
  BY <1>2, Bytes
<1>6. \A a \in Seq(Chars), b \in Seq(Chars) : (a \o b) \o T!WithoutSpaces(sub) = a \o (b \o T!WithoutSpaces(sub))
                                             /\ b \o T!WithoutSpaces(sub) \in Seq(Chars)
  <2> DEFINE c == T!WithoutSpaces(sub)
  <2>1. c \in Seq(Chars)
    BY <1>2
  <2> HIDE DEF c
  <2>2. \A a \in Seq(Chars), b \in Seq(Chars) : (a \o b) \o c = a \o (b \o c) /\ b \o c \in Seq(Chars)
    BY <2>1, ConcatAssociative
  <2> QED
    BY <2>2 DEF c
<1>7. g = IF f.full THEN f
          ELSE IF T!Bytes(joined) <= MaxBytes THEN [f EXCEPT !.line = joined]
          ELSE IF Len(after.result) = MaxLines THEN [after EXCEPT !.line = <<>>, !.full = TRUE]
          ELSE IF T!Bytes(sub) > MaxBytes THEN T!SplitTitle(after, sub)
          ELSE [after EXCEPT !.line = sub]
  BY DEF T!FoldTitle
<1> HIDE DEF joined, after, all, g
<1>8. CASE f.full
  <2>1. PICK rest \in Seq(Chars) : text = T!Text(f.result) \o rest
    BY <1>8, Zenon DEF FoldOf
  <2>2. all = T!Text(f.result) \o (rest \o T!WithoutSpaces(sub)) /\ rest \o T!WithoutSpaces(sub) \in Seq(Chars)
    BY <1>1, <1>6, <2>1, Zenon DEF all
  <2>3. Len(f.result) = MaxLines
    BY <1>8, Zenon DEF FoldOf
  <2> QED
    BY <1>1, <1>7, <1>8, <2>2, <2>3, Zenon DEF FoldOf, all, g
<1>9. CASE ~f.full /\ T!Bytes(joined) <= MaxBytes
  <2>1. g \in Folding /\ g.line = joined /\ g.full = f.full /\ g.result = f.result
    BY <1>1, <1>2, <1>7, <1>9 DEF Folding
  <2>2. text = T!Text(f.result) \o T!WithoutSpaces(f.line)
    BY <1>9, Zenon DEF FoldOf
  <2>3. all = T!Text(f.result) \o T!WithoutSpaces(joined)
    <3>1. (T!Text(f.result) \o T!WithoutSpaces(f.line)) \o T!WithoutSpaces(sub)
             = T!Text(f.result) \o (T!WithoutSpaces(f.line) \o T!WithoutSpaces(sub))
      BY <1>1, <1>2, <1>6, Zenon
    <3> QED
      BY <1>2, <2>2, <3>1, Zenon DEF all
  <2>4. FoldOf(g, all)
    BY <1>1, <1>9, <2>1, <2>3, Zenon DEF FoldOf
  <2> QED
    BY <2>4 DEF g, all
<1>10. CASE ~f.full /\ ~(T!Bytes(joined) <= MaxBytes) /\ Len(after.result) = MaxLines
  <2>1. g \in Folding /\ g.full = TRUE /\ g.result = after.result
    <3>1. g = [after EXCEPT !.line = <<>>, !.full = TRUE]
      BY <1>7, <1>10, Zenon
    <3>2. <<>> \in Seq(Chars)
      OBVIOUS
    <3> QED
      BY <1>3, <3>1, <3>2 DEF Folding
  <2>2. PICK rest \in Seq(Chars) : text = T!Text(after.result) \o rest
    BY <1>3, Zenon DEF KeepsText
  <2>3. all = T!Text(after.result) \o (rest \o T!WithoutSpaces(sub)) /\ rest \o T!WithoutSpaces(sub) \in Seq(Chars)
    BY <1>4, <1>6, <2>2, Zenon DEF all
  <2>4. FoldOf(g, all)
    BY <1>3, <1>10, <2>1, <2>3, Zenon DEF FoldOf
  <2> QED
    BY <2>4 DEF g, all
<1>11. CASE ~f.full /\ ~(T!Bytes(joined) <= MaxBytes) /\ Len(after.result) # MaxLines
  <2>1. Len(after.result) < MaxLines /\ text = T!Text(after.result)
    <3>1. Len(after.result) < MaxLines
      BY <1>1, <1>3, <1>4, <1>11
    <3> QED
      BY <1>3, <3>1, Zenon DEF KeepsText
  <2>2. after.full = FALSE
    BY <1>3, <1>11
  <2>3. CASE T!Bytes(sub) > MaxBytes
    <3>1. g = T!SplitTitle(after, sub)
      BY <1>7, <1>11, <2>3, Zenon
    <3>2. FoldOf(T!SplitTitle(after, sub), text \o T!WithoutSpaces(sub))
      BY <1>3, <2>1, <2>2, SplitFolds
    <3> QED
      BY <3>1, <3>2, Zenon DEF g
  <2>4. CASE ~(T!Bytes(sub) > MaxBytes)
    <3>1. g = [after EXCEPT !.line = sub] /\ T!Bytes(sub) <= MaxBytes
      BY <1>1, <1>5, <1>7, <1>11, <2>4
    <3>2. g \in Folding /\ g.line = sub /\ g.full = FALSE /\ g.result = after.result
      BY <1>3, <2>2, <3>1 DEF Folding
    <3>3. FoldOf(g, all)
      BY <1>3, <2>1, <3>1, <3>2, Zenon DEF FoldOf, all
    <3> QED
      BY <3>3 DEF g, all
  <2> QED
    BY <2>3, <2>4
<1> QED
  BY <1>8, <1>9, <1>10, <1>11

Folded == {g \in Folding : \E text \in Seq(Chars) : FoldOf(g, text)}

LEMMA BegunFolds ==
  ASSUME T!SubtitleAssumption
  PROVE  FoldOf(T!Begun, <<>>) /\ T!Begun \in Folded
<1>1. /\ T!Begun.result = <<>> /\ T!Begun.line = <<>> /\ T!Begun.kept = 0 /\ T!Begun.full = FALSE
      /\ <<>> \in Lines /\ <<>> \in Seq(Chars) /\ T!Begun \in Folding
  BY DEF T!Begun, Lines, Folding
<1>2. Len(T!Begun.result) <= MaxLines /\ PiecesFit(T!Begun.result)
  BY <1>1, Widths DEF PiecesFit
<1>3. T!Text(T!Begun.result) \o T!WithoutSpaces(T!Begun.line) = <<>>
  <2>1. T!Text(<<>>) = <<>> /\ T!WithoutSpaces(<<>>) = <<>>
    BY Widths, TextOfNone, NoLetters
  <2>2. <<>> \o <<>> = <<>>
    OBVIOUS
  <2> QED
    BY <1>1, <2>1, <2>2, Zenon
<1>4. T!Bytes(T!Begun.line) <= MaxBytes
  <2>1. T!Bytes(T!Begun.line) = 0
    BY <1>1, Bytes
  <2> QED
    BY <2>1, Widths
<1>5. FoldOf(T!Begun, <<>>)
  BY <1>1, <1>2, <1>3, <1>4, Zenon DEF FoldOf
<1> QED
  BY <1>1, <1>5 DEF Folded

\* The subtitles in the lines: no line that is longer than one character too many,
\* and the text from its beginning, all of it unless all lines are used.
LEMMA TitlesFold ==
  ASSUME T!SubtitleAssumption, NEW titles \in Lines
  PROVE  LET ls == T!FoldSubtitles(titles)
         IN ls \in Lines /\ PiecesFit(ls) /\ KeepsText(ls, T!Text(titles))
<1> DEFINE N    == Len(titles)
           E(a) == [i \in 0..Len(titles) |-> IF i = 0 THEN T!Begun ELSE T!FoldTitle(a[i - 1], titles[i])]
           onward == [p \in (1..N) \X Folded |-> T!FoldTitle(p[2], titles[p[1]])]
           z    == CHOOSE a : a = E(a)
<1>0. N \in Nat /\ \A i \in 1..N : titles[i] \in Seq(Chars)
  BY DEF Lines
<1>1. ASSUME NEW g \in Folded, NEW sub \in Seq(Chars) PROVE T!FoldTitle(g, sub) \in Folded
  <2>1. PICK text \in Seq(Chars) : FoldOf(g, text)
    BY <1>1 DEF Folded
  <2>2. FoldOf(T!FoldTitle(g, sub), text \o T!WithoutSpaces(sub))
    BY <1>1, <2>1, FoldStep
  <2>3. text \o T!WithoutSpaces(sub) \in Seq(Chars)
    <3>1. T!WithoutSpaces(sub) \in Seq(Chars)
      BY <1>1, Letters
    <3> QED
      BY <3>1
  <2>4. T!FoldTitle(g, sub) \in Folding
    BY <2>2, Zenon DEF FoldOf
  <2> QED
    BY <2>2, <2>3, <2>4, Zenon DEF Folded
<1>2. onward \in [(1..N) \X Folded -> Folded] /\ \A i \in 1..N, g \in Folded : onward[<<i, g>>] = T!FoldTitle(g, titles[i])
  BY <1>0, <1>1
<1>3. T!Begun \in Folded
  BY BegunFolds
<1>4. \E a : a = E(a)
  <2> HIDE DEF onward
  <2>1. PICK a : Solves(a, N, Folded, T!Begun, onward)
    BY <1>0, <1>2, <1>3, Recursion, Zenon
  <2>2. ASSUME NEW i \in 0..N PROVE a[i] = E(a)[i]
    <3>1. i # 0 => i \in 1..N /\ a[i - 1] \in Folded
      <4>1. i # 0 => i \in 1..N /\ i - 1 \in 0..N
        BY <1>0
      <4> QED
        BY <2>1, <4>1 DEF Solves
    <3> QED
      BY <1>0, <1>2, <2>1, <3>1 DEF Solves
  <2>3. a = E(a)
    BY <2>1, <2>2 DEF Solves
  <2> QED
    BY <2>3
<1>5. z = E(z)
  <2> HIDE DEF E
  <2> QED
    BY <1>4
<1>6. T!FoldSubtitles(titles) = T!PushLine(z[N]).result
  BY DEF T!FoldSubtitles
<1> HIDE DEF z
<1>7. z[0] = T!Begun /\ \A i \in 1..N : z[i] = T!FoldTitle(z[i - 1], titles[i])
  <2>1. \A i \in 0..N : z[i] = E(z)[i]
    BY <1>5, Zenon
  <2> HIDE <1>5
  <2>2. z[0] = T!Begun
    BY <1>0, <2>1
  <2>3. ASSUME NEW i \in 1..N PROVE z[i] = T!FoldTitle(z[i - 1], titles[i])
    <3>1. i \in 0..N /\ i # 0
      BY <1>0
    <3> QED
      BY <2>1, <3>1
  <2> QED
    BY <2>2, <2>3
<1>8. PICK t : Texted(t, titles) /\ T!Text(titles) = t[N]
  BY TextDef
<1>9. /\ t[0] = <<>> /\ \A i \in 1..N : t[i] = t[i - 1] \o T!WithoutSpaces(titles[i])
      /\ \A i \in 0..N : t[i] \in Seq(Chars)
  BY <1>8 DEF Texted
<1> DEFINE Good == {i \in 0..N : FoldOf(z[i], t[i])}
<1> HIDE DEF N, onward, E
<1>10. 0 \in Good
  BY <1>0, <1>7, <1>9, BegunFolds
<1>11. ASSUME NEW i \in 1..N, i - 1 \in Good PROVE i \in Good
  <2>1. FoldOf(z[i - 1], t[i - 1]) /\ i \in 0..N /\ i - 1 \in 0..N
    BY <1>0, <1>11
  <2>2. t[i - 1] \in Seq(Chars) /\ titles[i] \in Seq(Chars)
    BY <1>0, <1>9, <2>1
  <2> DEFINE f == z[i - 1]
             x == t[i - 1]
             s == titles[i]
  <2> HIDE DEF f, x, s
  <2>3. FoldOf(T!FoldTitle(f, s), x \o T!WithoutSpaces(s))
    BY <2>1, <2>2, FoldStep DEF f, x, s
  <2>4. z[i] = T!FoldTitle(f, s) /\ t[i] = x \o T!WithoutSpaces(s)
    BY <1>7, <1>9 DEF f, x, s
  <2> QED
    BY <2>1, <2>3, <2>4
<1>12. FoldOf(z[N], t[N])
  <2> HIDE DEF Good
  <2>1. \A i \in 0..N : i \in Good
    BY <1>0, <1>10, <1>11, UpTo
  <2>2. N \in Good
    BY <1>0, <2>1
  <2> QED
    BY <2>2 DEF Good
<1> DEFINE f == z[N]
           g == T!PushLine(f)
<1> HIDE DEF f
<1>13. FoldOf(f, T!Text(titles))
  BY <1>8, <1>12 DEF f
<1>14. g \in Folding /\ PiecesFit(g.result) /\ KeepsText(g.result, T!Text(titles))
  BY <1>13, PushedLine
<1>15. T!FoldSubtitles(titles) = g.result
  BY <1>6 DEF f
<1> HIDE DEF g
<1>16. g.result \in Lines
  BY <1>14 DEF Folding
<1> QED
  BY <1>14, <1>15, <1>16

LEMMA BeginsText ==
  ASSUME NEW ls \in Lines, NEW text, KeepsText(ls, text)
  PROVE  T!IsPrefix(T!Text(ls), text) /\ (Len(ls) < MaxLines => T!Text(ls) = text)
<1>1. PICK rest \in Seq(Chars) : text = T!Text(ls) \o rest
  BY DEF KeepsText
<1> DEFINE s == T!Text(ls)
<1>2. s \in Seq(Chars)
  BY TextTypes
<1>3. text = s \o rest
  BY <1>1
<1> HIDE DEF s
<1>4. T!IsPrefix(s, text)
  BY <1>2, <1>3 DEF T!IsPrefix
<1> QED
  BY <1>4 DEF KeepsText, s

LEMMA ShownFits ==
  ASSUME T!SubtitleAssumption, NEW l \in Seq(Chars)
  PROVE  T!ShowLine(l).size <= MaxBytes
<1> DEFINE n    == T!Fitting(l, MaxBytes)
           size == T!Bytes(SubSeq(l, 1, n))
<1>1. MaxBytes \in Nat /\ n \in 0..Len(l) /\ size <= MaxBytes
  BY Widths, Fits
<1>2. T!Bytes(l) \in Nat /\ size \in Nat
  BY <1>1, Bytes
<1> HIDE DEF n
<1>3. \/ T!Bytes(l) <= MaxBytes /\ T!ShowLine(l).size = T!Bytes(l)
      \/ T!ShowLine(l).size = size
      \/ size + 3 <= MaxBytes /\ T!ShowLine(l).size = size + 3
  BY DEF T!ShowLine, T!Shown, n
<1> HIDE DEF size
<1> QED
  BY <1>1, <1>2, <1>3

TitlesInv ==
  /\ mvec_subTitle_nofold \in Lines
  /\ folded \in Lines /\ PiecesFit(folded) /\ KeepsText(folded, T!Text(mvec_subTitle_nofold))
  /\ \A i \in DOMAIN m_subTitle_show : m_subTitle_show[i].size <= MaxBytes

LEMMA TitlesInit ==
  ASSUME T!Init
  PROVE  TitlesInv
<1>1. mvec_subTitle_nofold = <<>> /\ folded = <<>> /\ m_subTitle_show = <<>>
  BY DEF T!Init
<1>2. <<>> \in Lines /\ <<>> \in Seq(Chars)
  BY DEF Lines
<1>3. PiecesFit(folded) /\ \A i \in DOMAIN m_subTitle_show : m_subTitle_show[i].size <= MaxBytes
  BY <1>1 DEF PiecesFit
<1>4. KeepsText(folded, T!Text(mvec_subTitle_nofold))
  <2>1. T!Text(<<>>) = T!Text(<<>>) \o <<>>
    BY <1>2, TextTypes
  <2> QED
    BY <1>1, <1>2, <2>1, Zenon DEF KeepsText
<1> QED
  BY <1>1, <1>2, <1>3, <1>4, Zenon DEF TitlesInv

LEMMA TitlesStep ==
  ASSUME T!SubtitleAssumption, TitlesInv, [T!Next]_(T!subtitleVars)
  PROVE  TitlesInv'
<1>1. CASE UNCHANGED T!subtitleVars
  BY <1>1 DEF TitlesInv, T!subtitleVars
<1>2. ASSUME NEW titles \in Told, T!OnWriteSubTitle(titles) PROVE TitlesInv'
  <2>1. titles \in Lines /\ mvec_subTitle_nofold' = titles
    BY <1>2, Zenon DEF T!SubtitleAssumption, T!OnWriteSubTitle, Lines, Chars
  <2>2. CASE titles = mvec_subTitle_nofold
    <3>1. mvec_subTitle_nofold' = mvec_subTitle_nofold /\ folded' = folded /\ m_subTitle_show' = m_subTitle_show
      BY <1>2, <2>1, <2>2, Zenon DEF T!OnWriteSubTitle
    <3> QED
      BY <3>1, Zenon DEF TitlesInv
  <2>3. CASE titles # mvec_subTitle_nofold
    <3>1. folded' = T!FoldSubtitles(titles) /\ m_subTitle_show' = T!ShowLines(folded')
      BY <1>2, <2>3, Zenon DEF T!OnWriteSubTitle
    <3>2. folded' \in Lines /\ PiecesFit(folded') /\ KeepsText(folded', T!Text(mvec_subTitle_nofold'))
      BY <2>1, <3>1, TitlesFold
    <3>3. ASSUME NEW i \in DOMAIN m_subTitle_show' PROVE m_subTitle_show'[i].size <= MaxBytes
      <4> DEFINE ls == folded'
      <4>1. ls \in Lines /\ m_subTitle_show' = [j \in DOMAIN ls |-> T!ShowLine(ls[j])]
        BY <3>1, <3>2 DEF T!ShowLines
      <4> HIDE DEF ls
      <4>2. i \in DOMAIN ls /\ m_subTitle_show'[i] = T!ShowLine(ls[i])
        BY <3>3, <4>1
      <4>3. ls[i] \in Seq(Chars)
        BY <4>1, <4>2 DEF Lines
      <4>4. T!ShowLine(ls[i]).size <= MaxBytes
        BY <4>3, ShownFits
      <4> QED
        BY <4>2, <4>4, Zenon
    <3> QED
      BY <2>1, <3>2, <3>3 DEF TitlesInv
  <2> QED
    BY <2>2, <2>3
<1> QED
  BY <1>1, <1>2 DEF T!Next

LEMMA TitlesSound ==
  ASSUME TitlesInv
  PROVE  T!FoldKeepsText /\ T!LinesFit
<1>1. T!FoldKeepsText
  BY BeginsText, Zenon DEF TitlesInv, T!FoldKeepsText
<1>2. DOMAIN folded = 1..Len(folded)
  BY DEF TitlesInv, Lines
<1>3. T!LinesFit
  BY <1>2, Zenon DEF TitlesInv, PiecesFit, T!LinesFit
<1> QED
  BY <1>1, <1>3

-----------------------------------------------------------------------------
(* The camera of Baumer.                                                    *)

StreamCounts == queued \in Nat /\ busy \in {0, 1} /\ lostBuffers \in Nat /\ connections \in Nat

StreamFlags ==
  /\ deviceOpen \in BOOLEAN /\ streamOpen \in BOOLEAN /\ m_pDevice \in BOOLEAN /\ m_pStream \in BOOLEAN
  /\ acquiring \in BOOLEAN /\ m_ImageBufferPools \in BOOLEAN /\ m_name \in BOOLEAN
  /\ owner \in BOOLEAN /\ unheard \in BOOLEAN

\* Where a camera has its stream, its images and its name.
Stages ==
  /\ at = "search" => ~m_pStream /\ ~m_name
  /\ at \in {"stream", "acquire", "success", "pool", "map"} => m_pStream /\ owner
  /\ at \in {"pool", "map"} \/ m_name => m_ImageBufferPools
  /\ m_name => at \in {"map", "stopped", "revoked"}
  /\ m_name \/ at = "map" => connections # 0
  /\ starter = "connect" => at = "map"

\* What is open, and what has failed when that is not as it should be.
Opened ==
  /\ m_pStream => streamOpen
  /\ m_pStream \/ at = "device" => m_pDevice \/ "close" \in failed
  /\ deviceOpen => at = "device" \/ m_pStream \/ "stream" \in failed \/ "close" \in failed
  /\ acquiring => (m_pStream /\ owner) \/ "stop" \in failed
  /\ at \in {"stopped", "revoked"} /\ m_pStream => (busy = 0 /\ ~acquiring) \/ "stop" \in failed

\* Where there are no buffers.
Empty ==
  /\ at \in {"search", "device"} /\ ~streamOpen => queued = 0 /\ busy = 0 /\ lostBuffers = 0
  /\ at = "revoked" /\ m_pStream /\ crashed = "" => queued = 0 /\ busy = 0 /\ lostBuffers = 0

StreamInv == /\ StreamCounts /\ StreamFlags /\ Stages /\ Opened /\ Empty
             /\ S!BuffersComeBack /\ S!ImagesHavePlace

LEMMA StreamInit == S!StreamAssumption /\ S!Init => StreamInv
<1> SUFFICES ASSUME S!StreamAssumption, S!Init PROVE StreamInv
  OBVIOUS
<1> USE DEF S!Init
<1>1. StreamCounts
  BY DEF StreamCounts
<1>2. StreamFlags
  BY DEF StreamFlags
<1>3. Stages
  BY DEF Stages
<1>4. Opened
  BY DEF Opened
<1>5. Empty
  BY DEF Empty
<1>6. S!BuffersComeBack /\ S!ImagesHavePlace
  BY DEF S!BuffersComeBack, S!ImagesHavePlace
<1> QED
  BY <1>1, <1>2, <1>3, <1>4, <1>5, <1>6 DEF StreamInv

LEMMA StreamStep == ASSUME S!StreamAssumption, StreamInv, [S!Next]_(S!streamVars) PROVE StreamInv'
<1> USE DEF S!driverVars, S!bufferVars, S!cameraVars, S!otherVars, S!Go
<1>0. /\ StreamCounts /\ StreamFlags /\ Stages /\ Opened /\ Empty
      /\ S!BuffersComeBack /\ S!ImagesHavePlace /\ Buffers \in Nat
  BY DEF StreamInv, S!StreamAssumption
<1>1. CASE S!OpenDevice
  BY <1>0, <1>1, Zenon DEF StreamInv, StreamCounts, StreamFlags, Stages, Opened, Empty,
     S!BuffersComeBack, S!ImagesHavePlace, S!OpenDevice
<1>2. CASE S!NoStream
  BY <1>0, <1>2, Zenon DEF StreamInv, StreamCounts, StreamFlags, Stages, Opened, Empty,
     S!BuffersComeBack, S!ImagesHavePlace, S!NoStream
<1>3. CASE S!AlreadyOpen
  BY <1>0, <1>3, Zenon DEF StreamInv, StreamCounts, StreamFlags, Stages, Opened, Empty,
     S!BuffersComeBack, S!ImagesHavePlace, S!AlreadyOpen
<1>4. CASE S!OpenStream
  <2>1. StreamCounts'
    BY <1>0, <1>4 DEF StreamCounts, S!OpenStream
  <2>2. StreamFlags'
    BY <1>0, <1>4, Zenon DEF StreamFlags, S!OpenStream
  <2>3. Stages'
    BY <1>0, <1>4, <2>1, <2>2, Zenon DEF Stages, StreamFlags, StreamCounts, S!OpenStream
  <2>4. Opened'
    BY <1>0, <1>4, <2>1, <2>2, Zenon DEF Stages, Opened, StreamFlags, StreamCounts, S!OpenStream
  <2>5. Empty'
    BY <1>0, <1>4, <2>1, <2>2, Zenon DEF Stages, Opened, Empty, StreamFlags, StreamCounts, S!OpenStream
  <2>6. S!BuffersComeBack'
    <3>1. queued' = Buffers /\ busy' = busy /\ lostBuffers' = lostBuffers /\ at = "device" /\ ~streamOpen
      BY <1>4, Zenon DEF S!OpenStream
    <3>2. busy = 0 /\ lostBuffers = 0
      BY <1>0, <3>1, Zenon DEF Empty
    <3> QED
      BY <1>0, <3>1, <3>2 DEF S!BuffersComeBack
  <2>7. S!ImagesHavePlace'
    BY <1>0, <1>4, Zenon DEF S!ImagesHavePlace, Stages, Opened, StreamFlags, S!OpenStream
  <2> QED
    BY <2>1, <2>2, <2>3, <2>4, <2>5, <2>6, <2>7 DEF StreamInv
<1>5. CASE S!StartAcquisition
  BY <1>0, <1>5, Zenon DEF StreamInv, StreamCounts, StreamFlags, Stages, Opened, Empty,
     S!BuffersComeBack, S!ImagesHavePlace, S!StartAcquisition
<1>6. CASE S!Success
  BY <1>0, <1>6, Zenon DEF StreamInv, StreamCounts, StreamFlags, Stages, Opened, Empty,
     S!BuffersComeBack, S!ImagesHavePlace, S!Success
<1>7. CASE S!Throws
  <2>1. StreamCounts'
    BY <1>0, <1>7, Zenon DEF StreamCounts, S!Throws
  <2>2. StreamFlags'
    BY <1>0, <1>7, Zenon DEF StreamFlags, S!Throws
  <2>3. Stages'
    BY <1>0, <1>7, <2>1, <2>2, Zenon DEF Stages, StreamFlags, StreamCounts, S!Throws
  <2>4. Opened'
    <3>1. at' = "failed" /\ owner' = owner /\ ("stop" \in failed => "stop" \in failed')
      BY <1>7, Zenon DEF S!Throws
    <3>2. CASE /\ ~deviceOpen' /\ ~m_pStream' /\ ~acquiring'
      BY <3>1, <3>2, Zenon DEF Opened
    <3>3. CASE "close" \in failed' /\ UNCHANGED <<deviceOpen, streamOpen, acquiring, m_pDevice, m_pStream>>
      BY <1>0, <3>1, <3>3, Zenon DEF Opened
    <3>4. CASE "close" \in failed' /\ m_pStream /\ UNCHANGED <<streamOpen, acquiring, m_pStream>>
      BY <1>0, <3>1, <3>4, Zenon DEF Opened
    <3> QED
      BY <1>7, <3>2, <3>3, <3>4, Zenon DEF S!Throws
  <2>5. Empty'
    BY <1>0, <1>7, <2>1, <2>2, Zenon DEF Stages, Opened, Empty, StreamFlags, StreamCounts, S!Throws
  <2>6. S!BuffersComeBack'
    BY <1>0, <1>7, <2>1, Zenon DEF S!BuffersComeBack, StreamCounts, Empty, S!Throws
  <2>7. S!ImagesHavePlace'
    BY <1>0, <1>7, Zenon DEF S!ImagesHavePlace, Stages, Opened, StreamFlags, S!Throws
  <2> QED
    BY <2>1, <2>2, <2>3, <2>4, <2>5, <2>6, <2>7 DEF StreamInv
<1>8. CASE S!MakePool
  BY <1>0, <1>8, Zenon DEF StreamInv, StreamCounts, StreamFlags, Stages, Opened, Empty,
     S!BuffersComeBack, S!ImagesHavePlace, S!MakePool
<1>9. CASE S!NoAddress
  BY <1>0, <1>9, Zenon DEF StreamInv, StreamCounts, StreamFlags, Stages, Opened, Empty,
     S!BuffersComeBack, S!ImagesHavePlace, S!NoAddress
<1>10. CASE S!EnterCamera
  <2>1. StreamCounts'
    BY <1>0, <1>10 DEF StreamCounts, S!EnterCamera
  <2>2. StreamFlags'
    BY <1>0, <1>10, Zenon DEF StreamFlags, S!EnterCamera
  <2>3. Stages'
    <3>1. connections' = 1
      BY <1>10, Zenon DEF S!EnterCamera
    <3>2. connections' # 0
      BY <3>1
    <3> QED
      BY <1>0, <1>10, <3>2, Zenon DEF Stages, S!EnterCamera
  <2>4. Opened'
    BY <1>0, <1>10, <2>1, <2>2, Zenon DEF Stages, Opened, StreamFlags, StreamCounts, S!EnterCamera
  <2>5. Empty'
    BY <1>0, <1>10, <2>1, <2>2, Zenon DEF Stages, Opened, Empty, StreamFlags, StreamCounts, S!EnterCamera
  <2>6. S!BuffersComeBack'
    BY <1>0, <1>10, <2>1, Zenon DEF S!BuffersComeBack, StreamCounts, Empty, S!EnterCamera
  <2>7. S!ImagesHavePlace'
    BY <1>0, <1>10, Zenon DEF S!ImagesHavePlace, Stages, Opened, StreamFlags, S!EnterCamera
  <2> QED
    BY <2>1, <2>2, <2>3, <2>4, <2>5, <2>6, <2>7 DEF StreamInv
<1>11. CASE S!NameCamera
  BY <1>0, <1>11, Zenon DEF StreamInv, StreamCounts, StreamFlags, Stages, Opened, Empty,
     S!BuffersComeBack, S!ImagesHavePlace, S!NameCamera
<1>12. CASE S!ConnectAgain
  <2>a. connections' = connections + 1 /\ UNCHANGED <<queued, busy, lostBuffers>> /\ at' = at
    BY <1>12, Zenon DEF S!ConnectAgain
  <2>b. connections' # 0
    BY <1>0, <2>a DEF StreamCounts
  <2>1. StreamCounts'
    BY <1>0, <2>a DEF StreamCounts
  <2>2. StreamFlags'
    BY <1>0, <1>12, Zenon DEF StreamFlags, S!ConnectAgain
  <2>3. Stages'
    BY <1>0, <1>12, <2>b, Zenon DEF Stages, S!ConnectAgain
  <2>4. Opened'
    BY <1>0, <1>12, <2>1, <2>2, Zenon DEF Stages, Opened, StreamFlags, StreamCounts, S!ConnectAgain
  <2>5. Empty'
    BY <1>0, <1>12, <2>1, <2>2, Zenon DEF Stages, Opened, Empty, StreamFlags, StreamCounts, S!ConnectAgain
  <2>6. S!BuffersComeBack'
    BY <1>0, <2>a DEF S!BuffersComeBack
  <2>7. S!ImagesHavePlace'
    BY <1>0, <1>12, Zenon DEF S!ImagesHavePlace, Stages, Opened, StreamFlags, S!ConnectAgain
  <2> QED
    BY <2>1, <2>2, <2>3, <2>4, <2>5, <2>6, <2>7 DEF StreamInv
<1>13. CASE S!NotThere
  BY <1>0, <1>13, Zenon DEF StreamInv, StreamCounts, StreamFlags, Stages, Opened, Empty,
     S!BuffersComeBack, S!ImagesHavePlace, S!NotThere
<1>14. CASE S!Fill
  <2>a. /\ queued > 0 /\ busy = 0 /\ queued' = queued - 1 /\ busy' = 1 /\ lostBuffers' = lostBuffers
        /\ connections' = connections
    BY <1>14, Zenon DEF S!Fill, S!Handler
  <2>b. /\ at' = at /\ streamOpen' = streamOpen /\ m_pStream' = m_pStream /\ crashed = ""
    BY <1>14, Zenon DEF S!Fill, S!Handler
  <2>d. at' = at
    BY <2>b
  <2>c. queued # 0
    BY <2>a
  <2>1. StreamCounts'
    BY <1>0, <2>a DEF StreamCounts
  <2>2. StreamFlags'
    BY <1>0, <1>14, Zenon DEF StreamFlags, S!Fill, S!Handler
  <2>3. Stages'
    BY <1>0, <1>14, <2>1, <2>2, Zenon DEF Stages, StreamFlags, StreamCounts, S!Fill, S!Handler
  <2>4. Opened'
    BY <1>0, <1>14, <2>1, <2>2, Zenon DEF Stages, Opened, StreamFlags, StreamCounts, S!Fill, S!Handler
  <2>5. Empty'
    <3>1. ~(at \in {"search", "device"} /\ ~streamOpen) /\ ~(at = "revoked" /\ m_pStream)
      BY <1>0, <2>b, <2>c DEF Empty
    <3> QED
      BY <2>b, <3>1 DEF Empty
  <2>6. S!BuffersComeBack'
    BY <1>0, <2>a, <2>d DEF S!BuffersComeBack, StreamCounts
  <2>7. S!ImagesHavePlace'
    BY <1>0, <1>14, Zenon DEF S!ImagesHavePlace, Stages, Opened, StreamFlags, S!Fill, S!Handler
  <2> QED
    BY <2>1, <2>2, <2>3, <2>4, <2>5, <2>6, <2>7 DEF StreamInv
<1>15. CASE S!Incomplete
  <2>a. /\ busy > 0 /\ queued' = queued + 1 /\ busy' = 0 /\ lostBuffers' = lostBuffers
        /\ connections' = connections
    BY <1>15, Zenon DEF S!Incomplete, S!QueueBuffer, S!Handler
  <2>b. /\ at' = at /\ streamOpen' = streamOpen /\ m_pStream' = m_pStream /\ crashed = ""
    BY <1>15, Zenon DEF S!Incomplete, S!QueueBuffer, S!Handler
  <2>d. at' = at
    BY <2>b
  <2>c. busy # 0
    BY <2>a
  <2>1. StreamCounts'
    BY <1>0, <2>a DEF StreamCounts
  <2>2. StreamFlags'
    BY <1>0, <1>15, Zenon DEF StreamFlags, S!Incomplete, S!QueueBuffer, S!Handler
  <2>3. Stages'
    BY <1>0, <1>15, <2>1, <2>2, Zenon DEF Stages, StreamFlags, StreamCounts, S!Incomplete, S!QueueBuffer, S!Handler
  <2>4. Opened'
    BY <1>0, <1>15, <2>1, <2>2, Zenon DEF Stages, Opened, StreamFlags, StreamCounts, S!Incomplete, S!QueueBuffer, S!Handler
  <2>5. Empty'
    <3>1. ~(at \in {"search", "device"} /\ ~streamOpen) /\ ~(at = "revoked" /\ m_pStream)
      BY <1>0, <2>b, <2>c DEF Empty
    <3> QED
      BY <2>b, <3>1 DEF Empty
  <2>6. S!BuffersComeBack'
    BY <1>0, <2>a, <2>d DEF S!BuffersComeBack, StreamCounts
  <2>7. S!ImagesHavePlace'
    BY <1>0, <1>15, Zenon DEF S!ImagesHavePlace, Stages, Opened, StreamFlags, S!Incomplete, S!QueueBuffer, S!Handler
  <2> QED
    BY <2>1, <2>2, <2>3, <2>4, <2>5, <2>6, <2>7 DEF StreamInv
<1>16. CASE S!StoreImg
  <2>a. /\ busy > 0 /\ queued' = queued + 1 /\ busy' = 0 /\ lostBuffers' = lostBuffers
        /\ connections' = connections
    BY <1>16, Zenon DEF S!StoreImg, S!QueueBuffer, S!Handler
  <2>b. /\ at' = at /\ streamOpen' = streamOpen /\ m_pStream' = m_pStream /\ crashed = ""
    BY <1>16, Zenon DEF S!StoreImg, S!QueueBuffer, S!Handler
  <2>d. at' = at
    BY <2>b
  <2>c. busy # 0
    BY <2>a
  <2>1. StreamCounts'
    BY <1>0, <2>a DEF StreamCounts
  <2>2. StreamFlags'
    BY <1>0, <1>16, Zenon DEF StreamFlags, S!StoreImg, S!QueueBuffer, S!Handler
  <2>3. Stages'
    BY <1>0, <1>16, <2>1, <2>2, Zenon DEF Stages, StreamFlags, StreamCounts, S!StoreImg, S!QueueBuffer, S!Handler
  <2>4. Opened'
    BY <1>0, <1>16, <2>1, <2>2, Zenon DEF Stages, Opened, StreamFlags, StreamCounts, S!StoreImg, S!QueueBuffer, S!Handler
  <2>5. Empty'
    <3>1. ~(at \in {"search", "device"} /\ ~streamOpen) /\ ~(at = "revoked" /\ m_pStream)
      BY <1>0, <2>b, <2>c DEF Empty
    <3> QED
      BY <2>b, <3>1 DEF Empty
  <2>6. S!BuffersComeBack'
    BY <1>0, <2>a, <2>d DEF S!BuffersComeBack, StreamCounts
  <2>7. S!ImagesHavePlace'
    BY <1>0, <1>16, Zenon DEF S!ImagesHavePlace, Stages, Opened, StreamFlags, S!StoreImg, S!QueueBuffer, S!Handler
  <2> QED
    BY <2>1, <2>2, <2>3, <2>4, <2>5, <2>6, <2>7 DEF StreamInv
<1>17. CASE S!HandlerThrows
  <2>a. /\ busy > 0 /\ queued' = queued /\ busy' = 0 /\ lostBuffers' = lostBuffers + 1
        /\ connections' = connections
    BY <1>17, Zenon DEF S!HandlerThrows, S!Handler
  <2>b. /\ at' = at /\ streamOpen' = streamOpen /\ m_pStream' = m_pStream /\ crashed = ""
    BY <1>17, Zenon DEF S!HandlerThrows, S!Handler
  <2>d. at' = at
    BY <2>b
  <2>c. busy # 0
    BY <2>a
  <2>1. StreamCounts'
    BY <1>0, <2>a DEF StreamCounts
  <2>2. StreamFlags'
    BY <1>0, <1>17, Zenon DEF StreamFlags, S!HandlerThrows, S!Handler
  <2>3. Stages'
    BY <1>0, <1>17, <2>1, <2>2, Zenon DEF Stages, StreamFlags, StreamCounts, S!HandlerThrows, S!Handler
  <2>4. Opened'
    BY <1>0, <1>17, <2>1, <2>2, Zenon DEF Stages, Opened, StreamFlags, StreamCounts, S!HandlerThrows, S!Handler
  <2>5. Empty'
    <3>1. ~(at \in {"search", "device"} /\ ~streamOpen) /\ ~(at = "revoked" /\ m_pStream)
      BY <1>0, <2>b, <2>c DEF Empty
    <3> QED
      BY <2>b, <3>1 DEF Empty
  <2>6. S!BuffersComeBack'
    BY <1>0, <2>a, <2>d DEF S!BuffersComeBack, StreamCounts
  <2>7. S!ImagesHavePlace'
    BY <1>0, <1>17, Zenon DEF S!ImagesHavePlace, Stages, Opened, StreamFlags, S!HandlerThrows, S!Handler
  <2> QED
    BY <2>1, <2>2, <2>3, <2>4, <2>5, <2>6, <2>7 DEF StreamInv
<1>18. CASE S!StopAcquisition
  BY <1>0, <1>18, Zenon DEF StreamInv, StreamCounts, StreamFlags, Stages, Opened, Empty,
     S!BuffersComeBack, S!ImagesHavePlace, S!StopAcquisition, S!Leaves
<1>19. CASE S!RevokeBuffers
  <2>1. StreamCounts'
    BY <1>0, <1>19 DEF StreamCounts, S!RevokeBuffers
  <2>2. StreamFlags'
    BY <1>0, <1>19, Zenon DEF StreamFlags, S!RevokeBuffers
  <2>3. Stages'
    BY <1>0, <1>19, <2>1, <2>2, Zenon DEF Stages, StreamFlags, StreamCounts, S!RevokeBuffers
  <2>4. Opened'
    BY <1>0, <1>19, <2>1, <2>2, Zenon DEF Stages, Opened, StreamFlags, StreamCounts, S!RevokeBuffers
  <2>5. Empty'
    <3>1. CASE m_pStream
      <4>1. queued' = 0 /\ lostBuffers' = 0 /\ busy' = busy /\ at' = "revoked"
        BY <1>19, <3>1, Zenon DEF S!RevokeBuffers
      <4>2. crashed' = "" => ~(busy > 0)
        BY <1>19, <3>1, Zenon DEF S!RevokeBuffers
      <4>3. busy \in {0, 1}
        BY <1>0 DEF StreamCounts
      <4>5. ~(busy > 0) => busy = 0
        BY <4>3
      <4>4. crashed' = "" => busy' = 0
        BY <4>1, <4>2, <4>5, Zenon
      <4> QED
        BY <4>1, <4>4 DEF Empty
    <3>2. CASE ~m_pStream
      BY <1>19, <3>2, Zenon DEF Empty, S!RevokeBuffers
    <3> QED
      BY <3>1, <3>2
  <2>6. S!BuffersComeBack'
    BY <1>0, <1>19, <2>1, Zenon DEF S!BuffersComeBack, StreamCounts, Empty, S!RevokeBuffers
  <2>7. S!ImagesHavePlace'
    <3>1. m_pStream /\ busy # 0 => "stop" \in failed
      BY <1>0, <1>19, Zenon DEF Opened, S!RevokeBuffers
    <3>2. busy > 0 => busy # 0
      OBVIOUS
    <3>3. failed' = failed /\ unheard' = unheard /\ crashed' = IF m_pStream /\ busy > 0 THEN "buffer" ELSE ""
      BY <1>19, Zenon DEF S!RevokeBuffers
    <3>4. ~unheard
      BY <1>0 DEF S!ImagesHavePlace
    <3>5. CASE m_pStream /\ busy > 0
      BY <3>1, <3>2, <3>3, <3>4, <3>5 DEF S!ImagesHavePlace
    <3>6. CASE ~(m_pStream /\ busy > 0)
      BY <3>3, <3>4, <3>6 DEF S!ImagesHavePlace
    <3> QED
      BY <3>5, <3>6
  <2> QED
    BY <2>1, <2>2, <2>3, <2>4, <2>5, <2>6, <2>7 DEF StreamInv
<1>20. CASE S!CloseStream
  BY <1>0, <1>20, Zenon DEF StreamInv, StreamCounts, StreamFlags, Stages, Opened, Empty,
     S!BuffersComeBack, S!ImagesHavePlace, S!CloseStream, S!NoCamera
<1>21. CASE S!CloseThrows
  BY <1>0, <1>21, Zenon DEF StreamInv, StreamCounts, StreamFlags, Stages, Opened, Empty,
     S!BuffersComeBack, S!ImagesHavePlace, S!CloseThrows, S!NoCamera
<1>22. CASE S!NothingToClose
  BY <1>0, <1>22, Zenon DEF StreamInv, StreamCounts, StreamFlags, Stages, Opened, Empty,
     S!BuffersComeBack, S!ImagesHavePlace, S!NothingToClose, S!NoCamera
<1>23. CASE UNCHANGED S!streamVars
  <2>1. StreamCounts'
    BY <1>0, <1>23, Zenon DEF StreamCounts, S!streamVars
  <2>2. StreamFlags'
    BY <1>0, <1>23, Zenon DEF StreamFlags, S!streamVars
  <2>3. Stages'
    BY <1>0, <1>23, <2>1, <2>2, Zenon DEF Stages, StreamFlags, StreamCounts, S!streamVars
  <2>4. Opened'
    BY <1>0, <1>23, <2>1, <2>2, Zenon DEF Stages, Opened, StreamFlags, StreamCounts, S!streamVars
  <2>5. Empty'
    BY <1>0, <1>23, <2>1, <2>2, Zenon DEF Stages, Opened, Empty, StreamFlags, StreamCounts, S!streamVars
  <2>6. S!BuffersComeBack'
    BY <1>0, <1>23, <2>1, Zenon DEF S!BuffersComeBack, StreamCounts, Empty, S!streamVars
  <2>7. S!ImagesHavePlace'
    BY <1>0, <1>23, Zenon DEF S!ImagesHavePlace, Stages, Opened, StreamFlags, S!streamVars
  <2> QED
    BY <2>1, <2>2, <2>3, <2>4, <2>5, <2>6, <2>7 DEF StreamInv
<1> QED
  BY <1>1, <1>2, <1>3, <1>4, <1>5, <1>6, <1>7, <1>8, <1>9, <1>10, <1>11, <1>12, <1>13, <1>14, <1>15, <1>16, <1>17, <1>18, <1>19, <1>20, <1>21, <1>22, <1>23
     DEF S!Next, S!Search, S!Starter, S!Driver, S!Close

LEMMA StreamSound == StreamInv => S!ImagesHavePlace /\ S!BuffersComeBack /\ S!DeviceIsFree
<1>1. ASSUME StreamInv PROVE S!DeviceIsFree
  <2>1. at = "search" /\ deviceOpen => "stream" \in failed \/ "close" \in failed
    BY <1>1 DEF StreamInv, Stages, Opened
  <2> QED
    BY <2>1 DEF S!DeviceIsFree
<1> QED
  BY <1>1 DEF StreamInv

-----------------------------------------------------------------------------
(* The thermal camera.                                                      *)

\* Each value is of the latest measurement or, until it is stored, of the one before;
\* none that was loaded is of a later one.
Measured ==
  /\ measured \in [K!ValueNumbers -> Nat] /\ storing \in K!ValueNumbers \cup {0} /\ storing # 1
  /\ \A v \in K!ValueNumbers :
       measured[v] = IF storing # 0 /\ v >= storing THEN measured[1] - 1 ELSE measured[1]
  /\ buffer \in [K!ValueNumbers -> Nat] /\ loading \in K!ValueNumbers
  /\ \A v \in K!ValueNumbers : buffer[v] <= measured[1]
  /\ capturer = "load" =>
       \A v, w \in K!ValueNumbers : v < w /\ w < loading => buffer[w] >= buffer[v] - 1
  /\ capturer # "load" => loading = 1
  /\ K!ValuesNearlyOfOneTime

\* What is whole while the capturing thread writes, and the oldest picture that
\* anything in the image is of.
Whole == CASE capturer = "numbers" -> {}
           [] capturer = "load"    -> {"numbers"}
           [] capturer = "jpeg"    -> {"numbers", "values"}
           [] capturer = "temps"   -> {"numbers", "values", "jpeg"}
           [] OTHER                -> K!Parts

Oldest == IF capturer \in {"none", "loop", "emit"} THEN captured ELSE captured - 1

\* Which pictures the image is of, where the capturing thread is.
Pictured ==
  /\ captured \in Nat /\ imageConnections \in Nat
  /\ capturer \in {"none", "loop", "load", "emit"} \cup K!CopiedParts
  /\ parts \in [K!Parts -> SUBSET Int]
  /\ \A p \in K!Parts : parts[p] \subseteq (captured - 1)..captured
  /\ \A p \in Whole : parts[p] = {captured}
  /\ posted \in Seq(Nat) /\ \A i \in DOMAIN posted : posted[i] <= Oldest
  /\ seen \in [for : Nat, parts : [K!Parts -> SUBSET Int]]
  /\ main = "read" => seen.for <= Oldest
  /\ K!PictureAsTold

\* Which threads there are, where the service is.
Threaded ==
  /\ main = "connect" => serviceStarted
  /\ main \in {"join", "stopGrab", "joinCapture", "close"} => ~serviceStarted
  /\ main \in {"stopGrab", "joinCapture", "close"} => connector = "none"
  /\ main = "close" => capturer = "none"
  /\ connector # "none" => capturer = "none"
  /\ connector \in {"loop", "login", "config"} => ~cameraOpened
  /\ main \in {"idle", "read"} /\ ~serviceStarted => connector = "none" /\ capturer = "none" /\ ~cameraOpened

\* Who is logged in.
LoggedIn ==
  /\ user \in Nat /\ sdk \in [up : BOOLEAN, users : SUBSET Nat, remote : BOOLEAN]
  /\ connector # "config" /\ sdk.users # {} => refused \/ cameraOpened

ThermalFlags == serviceStarted \in BOOLEAN /\ cameraOpened \in BOOLEAN /\ refused \in BOOLEAN

ThermalInv == Measured /\ Pictured /\ Threaded /\ LoggedIn /\ ThermalFlags

LEMMA ThermalInit == ASSUME K!TemperatureAssumption, K!Init PROVE ThermalInv
<1>1. 1 \in K!ValueNumbers /\ 0 \notin K!ValueNumbers
  BY DEF K!TemperatureAssumption, K!ValueNumbers
<1>2. K!NoMeasure \in [K!ValueNumbers -> Nat] /\ \A v \in K!ValueNumbers : K!NoMeasure[v] = 0
  BY DEF K!NoMeasure
<1>4. Measured
  BY <1>1, <1>2 DEF K!Init, Measured, K!ValuesNearlyOfOneTime
<1>5. Pictured
  <2>1. /\ parts = [p \in K!Parts |-> {0}] /\ captured = 0 /\ imageConnections = 0 /\ posted = <<>>
        /\ capturer = "none" /\ main = "idle" /\ seen = [for |-> 0, parts |-> [p \in K!Parts |-> {0}]]
    BY DEF K!Init
  <2>2. /\ seen \in [for : Nat, parts : [K!Parts -> SUBSET Int]] /\ seen.for = 0
        /\ \A p \in K!Parts : seen.parts[p] = {0}
    BY <2>1
  <2>3. Whole = K!Parts
    BY <2>1 DEF Whole
  <2> QED
    BY <2>1, <2>2, <2>3 DEF Pictured, K!PictureAsTold
<1>6. Threaded
  BY DEF K!Init, Threaded
<1>7. LoggedIn
  <2>1. sdk = [up |-> FALSE, users |-> {}, remote |-> FALSE] /\ user = 0
    BY DEF K!Init
  <2> QED
    BY <2>1 DEF LoggedIn
<1>8. ThermalFlags
  BY DEF K!Init, ThermalFlags
<1> QED
  BY <1>4, <1>5, <1>6, <1>7, <1>8 DEF ThermalInv

\* What the invariants speak of.
valueVars == <<measured, storing, buffer, loading, capturer>>
pictureVars == <<parts, capturer, captured, posted, imageConnections, seen>>
threadsVars == <<main, serviceStarted, connector, capturer, cameraOpened>>
loginVars == <<user, sdk, connector, refused, cameraOpened>>

LEMMA MeasuredSame == Measured /\ UNCHANGED valueVars => Measured'
BY DEF Measured, valueVars, K!ValuesNearlyOfOneTime

LEMMA PicturedSame ==
  ASSUME Pictured, UNCHANGED pictureVars, main' = "read" => main = "read" PROVE Pictured'
<1>1. Whole' = Whole /\ Oldest' = Oldest /\ (K!PictureAsTold' <=> K!PictureAsTold)
  BY DEF Whole, Oldest, pictureVars, K!PictureAsTold
<1> QED
  BY <1>1 DEF Pictured, pictureVars

\* The threads and the logins.
LEMMA ThreadsStep == ThermalInv /\ [K!Next]_(K!temperatureVars) => Threaded' /\ ThermalFlags'
<1> SUFFICES ASSUME Threaded, ThermalFlags, [K!Next]_(K!temperatureVars) PROVE Threaded' /\ ThermalFlags'
  BY DEF ThermalInv
<1> USE DEF Threaded, ThermalFlags, K!threadVars, K!openVars, K!measureVars, K!imageVars, K!signalVars
<1>1. CASE UNCHANGED <<main, serviceStarted, connector, cameraOpened, refused>> /\ (capturer' = capturer \/ capturer # "none")
  BY <1>1, Zenon
<1>2. CASE K!Start
  BY <1>2, Zenon DEF K!Start
<1>3. CASE K!Connect
  BY <1>3, Zenon DEF K!Connect
<1>4. CASE K!Stop
  BY <1>4, Zenon DEF K!Stop
<1>5. CASE K!JoinConnector
  BY <1>5, Zenon DEF K!JoinConnector, K!ConnectorEnded
<1>6. CASE K!JoinCapture
  BY <1>6, Zenon DEF K!JoinCapture
<1>7. CASE K!CloseCamera
  BY <1>7, Zenon DEF K!CloseCamera
<1>8. CASE K!ConnectorEnds
  BY <1>8, Zenon DEF K!ConnectorEnds, K!Connector
<1>9. CASE K!Enter
  BY <1>9, Zenon DEF K!Enter, K!Connector
<1>10. CASE K!Login
  BY <1>10, Zenon DEF K!Login, K!Connector
<1>11. CASE K!LoginFails
  BY <1>11, Zenon DEF K!LoginFails, K!Connector
<1>12. CASE K!GetTemperatureByCallback
  <2>1. /\ connector = "config" /\ UNCHANGED <<main, serviceStarted, capturer>>
        /\ \/ connector' = "grab" /\ cameraOpened' = TRUE /\ refused' = refused
           \/ connector' = "loop" /\ refused' = TRUE /\ cameraOpened' = cameraOpened
    BY <1>12 DEF K!GetTemperatureByCallback, K!Connector
  <2>2. CASE connector' = "grab" /\ cameraOpened' = TRUE /\ refused' = refused
    BY <2>1, <2>2, Zenon
  <2>3. CASE connector' = "loop" /\ refused' = TRUE /\ cameraOpened' = cameraOpened
    BY <2>1, <2>3, Zenon
  <2> QED
    BY <2>1, <2>2, <2>3, Zenon
<1>13. CASE K!NoThermometry
  BY <1>13, Zenon DEF K!NoThermometry, K!Connector
<1>14. CASE K!StartGrab
  BY <1>14, Zenon DEF K!StartGrab, K!Connector
<1>15. CASE K!StopGrab
  BY <1>15, Zenon DEF K!StopGrab
<1>16. CASE K!HandleCallbackData \/ UNCHANGED K!temperatureVars
  <2>1. UNCHANGED K!threadVars /\ UNCHANGED K!openVars /\ UNCHANGED K!imageVars
    BY <1>16 DEF K!HandleCallbackData, K!temperatureVars
  <2> QED
    BY <1>1, <2>1
<1>17. CASE K!Capturing
  <2>1. UNCHANGED K!threadVars /\ UNCHANGED K!openVars /\ capturer # "none"
    BY <1>17 DEF K!Capturing, K!Capturer, K!CapturerEnds, K!Capture, K!Load, K!BeginPart, K!EndPart, K!Emit, K!CopiedParts
  <2> QED
    BY <1>1, <2>1
<1>18. CASE K!Slot
  <2>1. /\ UNCHANGED <<serviceStarted, connector, cameraOpened, refused, capturer>>
        /\ main \in {"idle", "read"} /\ main' \in {"idle", "read"}
    BY <1>18 DEF K!Slot, K!IRImageReady, K!ReadPart, K!SlotEnds
  <2> QED
    BY <2>1
<1> QED
  BY <1>2, <1>3, <1>4, <1>5, <1>6, <1>7, <1>8, <1>9, <1>10, <1>11, <1>12, <1>13, <1>14, <1>15, <1>16, <1>17, <1>18
  DEF K!Next, K!Service, K!Opening

LEMMA LoginStep == ThermalInv /\ [K!Next]_(K!temperatureVars) => LoggedIn'
<1> SUFFICES ASSUME Threaded, LoggedIn, ThermalFlags, [K!Next]_(K!temperatureVars) PROVE LoggedIn'
  BY DEF ThermalInv
<1> USE DEF K!threadVars, K!openVars, K!measureVars, K!imageVars, K!signalVars
<1>1. CASE UNCHANGED loginVars
  BY <1>1, Zenon DEF LoggedIn, loginVars
<1>2. CASE K!Start
  BY <1>2, Zenon DEF LoggedIn, Threaded, K!Start
<1>3. CASE K!CloseCamera
  <2>1. user' = user /\ refused' = refused /\ connector' = connector /\ main = "close"
    BY <1>3, Zenon DEF K!CloseCamera
  <2>2. CASE cameraOpened
    <3>1. sdk' = [up |-> FALSE, users |-> {}, remote |-> FALSE]
      BY <1>3, <2>2, Zenon DEF K!CloseCamera
    <3> QED
      BY <2>1, <3>1 DEF LoggedIn
  <2>3. CASE ~cameraOpened
    <3>1. sdk' = sdk /\ ~cameraOpened' /\ connector = "none"
      BY <1>3, <2>1, <2>3, Zenon DEF K!CloseCamera, Threaded
    <3> QED
      BY <2>1, <2>3, <3>1, Zenon DEF LoggedIn
  <2> QED
    BY <2>2, <2>3
<1>4. CASE K!ConnectorEnds \/ K!LoginFails \/ K!StartGrab
  BY <1>4, Zenon DEF LoggedIn, K!Connector, K!ConnectorEnds, K!LoginFails, K!StartGrab
<1>5. CASE K!Enter
  <2>1. sdk' \in [up : BOOLEAN, users : SUBSET Nat, remote : BOOLEAN] /\ sdk'.users = sdk.users
    <3>1. sdk' = sdk \/ sdk' = [sdk EXCEPT !.up = TRUE]
      BY <1>5, Zenon DEF K!Enter
    <3>2. sdk \in [up : BOOLEAN, users : SUBSET Nat, remote : BOOLEAN]
      BY DEF LoggedIn
    <3> QED
      BY <3>1, <3>2
  <2> QED
    BY <1>5, <2>1, Zenon DEF LoggedIn, K!Connector, K!Enter
<1>6. CASE K!Login
  <2>1. sdk' \in [up : BOOLEAN, users : SUBSET Nat, remote : BOOLEAN] /\ user' \in Nat
    <3>1. user' = user + 1 /\ sdk' = [sdk EXCEPT !.users = @ \cup {user'}]
      BY <1>6, Zenon DEF K!Login
    <3>2. user \in Nat /\ sdk \in [up : BOOLEAN, users : SUBSET Nat, remote : BOOLEAN]
      BY DEF LoggedIn
    <3> QED
      BY <3>1, <3>2
  <2>2. connector' = "config"
    BY <1>6, Zenon DEF K!Login, K!Connector
  <2> QED
    BY <2>1, <2>2 DEF LoggedIn
<1>7. CASE K!GetTemperatureByCallback \/ K!NoThermometry
  <2>1. (refused' \/ cameraOpened') /\ user' = user /\ (sdk' = sdk \/ sdk' = [sdk EXCEPT !.remote = TRUE])
    BY <1>7, Zenon DEF K!GetTemperatureByCallback, K!NoThermometry
  <2>2. sdk' \in [up : BOOLEAN, users : SUBSET Nat, remote : BOOLEAN]
    <3>1. sdk \in [up : BOOLEAN, users : SUBSET Nat, remote : BOOLEAN]
      BY DEF LoggedIn
    <3> QED
      BY <2>1, <3>1
  <2> QED
    BY <2>1, <2>2, Zenon DEF LoggedIn
<1> QED
  BY <1>1, <1>2, <1>3, <1>4, <1>5, <1>6, <1>7, Zenon DEF K!Next, K!Service, K!Opening, K!Capturing, loginVars, K!Connect, K!Stop,
     K!JoinConnector, K!StopGrab, K!JoinCapture, K!HandleCallbackData, K!CapturerEnds, K!Capture, K!Load,
     K!BeginPart, K!EndPart, K!Emit, K!Capturer, K!Slot, K!IRImageReady, K!ReadPart, K!SlotEnds,
     K!temperatureVars

LEMMA NumbersOfValues ==
  ASSUME K!TemperatureAssumption
  PROVE  /\ K!ValueNumbers \subseteq Nat /\ 1 \in K!ValueNumbers /\ 0 \notin K!ValueNumbers
         /\ \A v \in K!ValueNumbers : v >= 1 /\ (v + 1 \notin K!ValueNumbers => \A w \in K!ValueNumbers : w <= v)
BY DEF K!TemperatureAssumption, K!ValueNumbers

LEMMA MeasuredStep ==
  ASSUME K!TemperatureAssumption, ThermalInv, [K!Next]_(K!temperatureVars) PROVE Measured'
<1> USE DEF K!threadVars, K!openVars, K!measureVars, K!imageVars, K!signalVars
<1>a. Measured /\ Pictured /\ Threaded
  BY DEF ThermalInv
<1>b. /\ K!ValueNumbers \subseteq Nat /\ 1 \in K!ValueNumbers /\ 0 \notin K!ValueNumbers
      /\ \A v \in K!ValueNumbers : v >= 1 /\ (v + 1 \notin K!ValueNumbers => \A w \in K!ValueNumbers : w <= v)
  BY NumbersOfValues
<1>c. /\ measured \in [K!ValueNumbers -> Nat] /\ storing \in K!ValueNumbers \cup {0} /\ storing # 1
      /\ \A v \in K!ValueNumbers :
           measured[v] = IF storing # 0 /\ v >= storing THEN measured[1] - 1 ELSE measured[1]
      /\ buffer \in [K!ValueNumbers -> Nat] /\ loading \in K!ValueNumbers
      /\ \A v \in K!ValueNumbers : buffer[v] <= measured[1]
      /\ capturer = "load" =>
           \A v, w \in K!ValueNumbers : v < w /\ w < loading => buffer[w] >= buffer[v] - 1
      /\ capturer # "load" => loading = 1
      /\ K!ValuesNearlyOfOneTime
  BY <1>a DEF Measured
<1>d. \A v \in K!ValueNumbers : buffer[v] \in Nat /\ measured[v] \in Nat /\ v \in Nat
  BY <1>b, <1>c
<1>1. CASE UNCHANGED valueVars
  BY <1>1, <1>a, MeasuredSame
<1>2. CASE K!HandleCallbackData
  <2> DEFINE s == IF storing = 0 THEN 1 ELSE storing
             m == IF s = 1 THEN measured[s] + 1 ELSE measured[1]
  <2>1. /\ measured' = [measured EXCEPT ![s] = m]
        /\ storing' = IF s + 1 \in K!ValueNumbers THEN s + 1 ELSE 0
        /\ UNCHANGED <<buffer, loading, capturer>>
    BY <1>2 DEF K!HandleCallbackData
  <2>2. s \in K!ValueNumbers /\ m \in Nat /\ (s = 1 => storing = 0) /\ (s # 1 => storing = s)
    BY <1>b, <1>c, <1>d
  <2> HIDE DEF s, m
  <2>3. measured' \in [K!ValueNumbers -> Nat] /\ measured'[s] = m /\ \A v \in K!ValueNumbers : v # s => measured'[v] = measured[v]
    BY <1>c, <2>1, <2>2
  <2>4. m = IF s = 1 THEN measured[1] + 1 ELSE measured[1]
    BY DEF m
  <2>5. measured'[1] = m
    BY <1>b, <2>2, <2>3, <2>4
  <2>6. storing' \in K!ValueNumbers \cup {0} /\ storing' # 1
    BY <1>b, <2>1, <2>2
  <2>7. ASSUME NEW v \in K!ValueNumbers
        PROVE  measured'[v] = IF storing' # 0 /\ v >= storing' THEN measured'[1] - 1 ELSE measured'[1]
    <3>1. CASE v = s
      BY <1>b, <1>d, <2>1, <2>2, <2>3, <2>5, <3>1
    <3>2. CASE v # s
      <4>1. measured'[v] = measured[v]
        BY <2>3, <3>2
      <4>2. storing' # 0 /\ v >= storing' <=> v > s
        BY <1>b, <2>1, <2>2, <3>2
      <4>3. measured[v] = IF storing # 0 /\ v >= storing THEN measured[1] - 1 ELSE measured[1]
        BY <1>c
      <4>4. CASE s = 1
        BY <1>b, <1>d, <2>2, <2>4, <2>5, <3>2, <4>1, <4>2, <4>3, <4>4
      <4>5. CASE s # 1
        BY <1>b, <1>d, <2>2, <2>4, <2>5, <3>2, <4>1, <4>2, <4>3, <4>5
      <4> QED
        BY <4>4, <4>5
    <3> QED
      BY <3>1, <3>2
  <2>8. \A v \in K!ValueNumbers : buffer'[v] <= measured'[1]
    BY <1>b, <1>c, <1>d, <2>1, <2>4, <2>5
  <2>9. K!ValuesNearlyOfOneTime'
    BY <1>c, <2>1 DEF K!ValuesNearlyOfOneTime
  <2> QED
    BY <1>c, <2>1, <2>3, <2>6, <2>7, <2>8, <2>9 DEF Measured
<1>3. CASE /\ UNCHANGED <<measured, storing, buffer, loading>> /\ loading = 1
           /\ capturer' \notin {"jpeg", "temps", "emit"}
  BY <1>b, <1>c, <1>d, <1>3 DEF Measured, K!ValuesNearlyOfOneTime
<1>4. CASE K!Load
  <2>1. /\ capturer = "load" /\ UNCHANGED <<measured, storing>>
        /\ buffer' = [buffer EXCEPT ![loading] = measured[loading]]
        /\ IF loading + 1 \in K!ValueNumbers THEN capturer' = "load" /\ loading' = loading + 1
           ELSE capturer' = "jpeg" /\ loading' = 1
    BY <1>4 DEF K!Load, K!Capturer, K!Loaded
  <2>3. /\ buffer' \in [K!ValueNumbers -> Nat] /\ buffer'[loading] = measured[loading]
        /\ \A w \in K!ValueNumbers : w # loading => buffer'[w] = buffer[w]
    BY <1>c, <1>d, <2>1
  <2>4. \A v \in K!ValueNumbers : measured[v] <= measured[1] /\ measured[v] >= measured[1] - 1
    BY <1>b, <1>c, <1>d
  <2>5. \A v \in K!ValueNumbers : buffer'[v] <= measured[1]
    BY <1>c, <2>3, <2>4
  <2>6. \A v, w \in K!ValueNumbers : v < w /\ w <= loading => buffer'[w] >= buffer'[v] - 1
    <3> SUFFICES ASSUME NEW v \in K!ValueNumbers, NEW w \in K!ValueNumbers, v < w, w <= loading
                 PROVE  buffer'[w] >= buffer'[v] - 1
      OBVIOUS
    <3>1. CASE w = loading
      BY <1>b, <1>d, <2>3, <2>4, <2>5, <1>c, <3>1
    <3>2. CASE w # loading
      <4>1. w < loading /\ v # loading
        BY <1>b, <1>c, <3>2
      <4>2. buffer[w] >= buffer[v] - 1
        BY <1>c, <2>1, <4>1
      <4> QED
        BY <2>3, <3>2, <4>1, <4>2
    <3> QED
      BY <3>1, <3>2
  <2>7. CASE loading + 1 \in K!ValueNumbers
    <3>1. capturer' = "load" /\ loading' = loading + 1
      BY <2>1, <2>7
    <3>2. \A v, w \in K!ValueNumbers : v < w /\ w < loading' => buffer'[w] >= buffer'[v] - 1
      BY <1>b, <1>c, <2>6, <3>1
    <3> QED
      BY <1>c, <2>1, <2>3, <2>5, <2>7, <3>1, <3>2 DEF Measured, K!ValuesNearlyOfOneTime
  <2>8. CASE loading + 1 \notin K!ValueNumbers
    <3>1. capturer' = "jpeg" /\ loading' = 1
      BY <2>1, <2>8
    <3>2. \A w \in K!ValueNumbers : w <= loading
      BY <1>b, <1>c, <2>8
    <3>3. K!ValuesNearlyOfOneTime'
      BY <2>6, <3>2 DEF K!ValuesNearlyOfOneTime
    <3> QED
      BY <1>b, <1>c, <2>1, <2>3, <2>5, <3>1, <3>3 DEF Measured
  <2> QED
    BY <2>7, <2>8
<1>5. CASE K!Emit \/ (\E p \in K!CopiedParts : K!BeginPart(p) \/ K!EndPart(p))
  <2>1. UNCHANGED <<measured, storing, buffer, loading>>
    BY <1>5 DEF K!BeginPart, K!EndPart, K!Emit, K!Capturer
  <2>2. /\ capturer \in K!CopiedParts \cup {"emit"}
        /\ capturer' \in {"jpeg", "temps", "emit"} => capturer \in {"jpeg", "temps", "emit"}
        /\ capturer' # "load" \/ capturer = "numbers"
    BY <1>5 DEF K!BeginPart, K!EndPart, K!Emit, K!Capturer, K!CopiedParts, K!After
  <2>3. loading' = 1
    BY <1>c, <2>1, <2>2 DEF K!CopiedParts
  <2>4. \A v, w \in K!ValueNumbers : ~(v < w /\ w < loading')
    BY <1>b, <2>3
  <2>5. K!ValuesNearlyOfOneTime'
    BY <1>c, <2>1, <2>2 DEF K!ValuesNearlyOfOneTime
  <2> QED
    BY <1>c, <2>1, <2>3, <2>4, <2>5 DEF Measured
<1>6. CASE K!StartGrab
  <2>1. UNCHANGED <<measured, storing, buffer, loading>> /\ connector = "grab" /\ capturer' = "loop"
    BY <1>6 DEF K!StartGrab, K!Connector
  <2>2. loading = 1
    BY <1>a, <1>c, <2>1 DEF Threaded
  <2> QED
    BY <1>3, <2>1, <2>2
<1>7. CASE K!CapturerEnds \/ K!Capture
  <2>1. /\ UNCHANGED <<measured, storing, buffer, loading>> /\ capturer = "loop"
        /\ capturer' \in {"none", "numbers"}
    BY <1>7 DEF K!CapturerEnds, K!Capture, K!Capturer
  <2> QED
    BY <1>3, <1>c, <2>1
<1>8. CASE K!Service \/ (K!Opening /\ ~K!StartGrab) \/ K!Slot \/ UNCHANGED K!temperatureVars
  <2>1. UNCHANGED valueVars
    BY <1>8 DEF valueVars, K!Service, K!Start, K!Connect, K!Stop, K!JoinConnector, K!StopGrab, K!JoinCapture,
       K!CloseCamera, K!Opening, K!ConnectorEnds, K!Enter, K!Login, K!LoginFails, K!GetTemperatureByCallback,
       K!NoThermometry, K!Connector, K!Slot, K!IRImageReady, K!ReadPart, K!SlotEnds, K!temperatureVars
  <2> QED
    BY <1>1, <2>1
<1> QED
  BY <1>2, <1>4, <1>5, <1>6, <1>7, <1>8 DEF K!Next, K!Capturing

LEMMA PicturedStep ==
  ASSUME K!TemperatureAssumption, ThermalInv, [K!Next]_(K!temperatureVars) PROVE Pictured'
<1> USE DEF K!threadVars, K!openVars, K!measureVars, K!imageVars, K!signalVars
<1>a. Pictured /\ Threaded
  BY DEF ThermalInv
<1>c. /\ captured \in Nat /\ imageConnections \in Nat
      /\ capturer \in {"none", "loop", "load", "emit"} \cup K!CopiedParts
      /\ parts \in [K!Parts -> SUBSET Int]
      /\ \A p \in K!Parts : parts[p] \subseteq (captured - 1)..captured
      /\ \A p \in Whole : parts[p] = {captured}
      /\ posted \in Seq(Nat) /\ \A i \in DOMAIN posted : posted[i] <= Oldest
      /\ seen \in [for : Nat, parts : [K!Parts -> SUBSET Int]]
      /\ main = "read" => seen.for <= Oldest
      /\ \A p \in K!Parts : seen.parts[p] \subseteq seen.for..captured
  BY <1>a DEF Pictured, K!PictureAsTold
<1>d. Oldest \in Int /\ captured \in Int /\ seen.for \in Nat /\ \A i \in DOMAIN posted : posted[i] \in Nat
  BY <1>c DEF Oldest
<1>1. CASE UNCHANGED pictureVars /\ (main' = "read" => main = "read")
  BY <1>1, <1>a, PicturedSame
<1>2. CASE K!Connect
  <2>1. /\ imageConnections' = imageConnections + 1 /\ UNCHANGED <<parts, capturer, captured, posted, seen>>
        /\ main' = "idle"
    BY <1>2 DEF K!Connect
  <2>2. Whole' = Whole /\ Oldest' = Oldest
    BY <2>1 DEF Whole, Oldest
  <2> QED
    BY <1>c, <2>1, <2>2 DEF Pictured, K!PictureAsTold
<1>3. CASE K!StartGrab \/ K!CapturerEnds
  <2>1. /\ UNCHANGED <<parts, captured, posted, seen, imageConnections, main>>
        /\ capturer \in {"none", "loop"} /\ capturer' \in {"none", "loop"}
    BY <1>3, <1>a DEF K!StartGrab, K!CapturerEnds, K!Capturer, K!Connector, Threaded
  <2>2. Whole' = Whole /\ Oldest' = Oldest
    BY <2>1 DEF Whole, Oldest
  <2> QED
    BY <1>c, <2>1, <2>2 DEF Pictured, K!PictureAsTold
<1>4. CASE K!Capture
  <2>1. /\ UNCHANGED <<parts, posted, seen, imageConnections, main>>
        /\ capturer = "loop" /\ capturer' = "numbers" /\ captured' = captured + 1
    BY <1>4 DEF K!Capture, K!Capturer
  <2>2. Whole' = {} /\ Oldest' = Oldest /\ Whole = K!Parts
    BY <1>c, <2>1 DEF Whole, Oldest
  <2>3. \A p \in K!Parts : parts'[p] \subseteq (captured' - 1)..captured'
    BY <1>c, <2>1, <2>2
  <2>4. \A p \in K!Parts : seen'.parts[p] \subseteq seen'.for..captured'
    BY <1>c, <1>d, <2>1
  <2> QED
    BY <1>c, <2>1, <2>2, <2>3, <2>4 DEF Pictured, K!PictureAsTold, K!CopiedParts
<1>5. CASE K!Load
  <2>1. /\ UNCHANGED <<captured, posted, seen, imageConnections, main>> /\ capturer = "load"
        /\ \/ capturer' = "load" /\ parts' = [parts EXCEPT !["values"] = @ \cup {captured}]
           \/ capturer' = "jpeg" /\ parts' = [parts EXCEPT !["values"] = {captured}]
    BY <1>5 DEF K!Load, K!Capturer
  <2>2. /\ Oldest' = Oldest /\ Whole = {"numbers"} /\ Whole \subseteq K!Parts /\ "values" \in K!Parts
        /\ Whole' = IF capturer' = "jpeg" THEN {"numbers", "values"} ELSE {"numbers"}
    BY <2>1 DEF Whole, Oldest, K!Parts, K!CopiedParts
  <2>3. /\ parts' \in [K!Parts -> SUBSET Int]
        /\ \A p \in K!Parts : parts'[p] \subseteq (captured - 1)..captured
    BY <1>c, <1>d, <2>1, <2>2
  <2>4. \A p \in Whole' : parts'[p] = {captured}
    BY <1>c, <2>1, <2>2
  <2> QED
    BY <1>c, <2>1, <2>2, <2>3, <2>4 DEF Pictured, K!PictureAsTold, K!CopiedParts
<1>6. ASSUME NEW p \in K!CopiedParts, K!BeginPart(p) PROVE Pictured'
  <2>1. /\ UNCHANGED <<captured, posted, seen, imageConnections, main, capturer>>
        /\ capturer = p /\ parts' = [parts EXCEPT ![p] = @ \cup {captured}]
    BY <1>6 DEF K!BeginPart, K!Capturer
  <2>2. Oldest' = Oldest /\ Whole' = Whole /\ p \in K!Parts /\ p \notin Whole /\ Whole \subseteq K!Parts
    BY <2>1 DEF Whole, Oldest, K!Parts, K!CopiedParts
  <2>3. /\ parts' \in [K!Parts -> SUBSET Int]
        /\ \A q \in K!Parts : parts'[q] \subseteq (captured - 1)..captured
    BY <1>c, <1>d, <2>1, <2>2
  <2>4. \A q \in Whole' : parts'[q] = {captured}
    BY <1>c, <2>1, <2>2
  <2> QED
    BY <1>c, <2>1, <2>2, <2>3, <2>4 DEF Pictured, K!PictureAsTold
<1>7. ASSUME NEW p \in K!CopiedParts, K!EndPart(p) PROVE Pictured'
  <2>1. /\ UNCHANGED <<captured, posted, seen, imageConnections, main>>
        /\ capturer = p /\ capturer' = K!After[p] /\ parts' = [parts EXCEPT ![p] = {captured}]
    BY <1>7 DEF K!EndPart, K!Capturer
  <2>2. /\ Oldest' >= Oldest /\ Oldest' \in Int /\ p \in K!Parts /\ Whole' \subseteq Whole \cup {p}
        /\ Whole \subseteq K!Parts /\ capturer' \in {"load", "temps", "emit"}
    BY <1>d, <2>1 DEF Whole, Oldest, K!Parts, K!CopiedParts, K!After
  <2>3. /\ parts' \in [K!Parts -> SUBSET Int]
        /\ \A q \in K!Parts : parts'[q] \subseteq (captured - 1)..captured
    BY <1>c, <1>d, <2>1, <2>2
  <2>4. \A q \in Whole' : parts'[q] = {captured}
    BY <1>c, <2>1, <2>2
  <2>5. /\ \A i \in DOMAIN posted' : posted'[i] <= Oldest'
        /\ main' = "read" => seen'.for <= Oldest'
    BY <1>c, <1>d, <2>1, <2>2
  <2> QED
    BY <1>c, <2>1, <2>2, <2>3, <2>4, <2>5 DEF Pictured, K!PictureAsTold, K!CopiedParts
<1>8. CASE K!Emit
  <2>1. /\ UNCHANGED <<parts, captured, seen, imageConnections, main>> /\ capturer = "emit" /\ capturer' = "loop"
        /\ posted' = posted \o [c \in 1..imageConnections |-> captured]
    BY <1>8 DEF K!Emit, K!Capturer
  <2>2. Whole' = Whole /\ Oldest' = Oldest /\ Oldest = captured
    BY <2>1 DEF Whole, Oldest
  <2>3. [c \in 1..imageConnections |-> captured] \in Seq(Nat)
    BY <1>c
  <2>4. posted' \in Seq(Nat) /\ \A i \in DOMAIN posted' : posted'[i] <= Oldest
    BY <1>c, <1>d, <2>1, <2>2, <2>3
  <2> QED
    BY <1>c, <2>1, <2>2, <2>4 DEF Pictured, K!PictureAsTold
<1>9. CASE K!IRImageReady
  <2>1. /\ posted # <<>> /\ posted' = Tail(posted)
        /\ seen' = [for |-> Head(posted), parts |-> [p \in K!Parts |-> {}]]
        /\ UNCHANGED <<parts, capturer, captured, imageConnections>>
    BY <1>9 DEF K!IRImageReady
  <2>2. /\ Head(posted) = posted[1] /\ 1 \in DOMAIN posted /\ Tail(posted) \in Seq(Nat)
        /\ \A i \in DOMAIN Tail(posted) : i + 1 \in DOMAIN posted /\ Tail(posted)[i] = posted[i + 1]
    BY <1>c, <2>1
  <2>3. Whole' = Whole /\ Oldest' = Oldest
    BY <2>1 DEF Whole, Oldest
  <2>4. /\ posted' \in Seq(Nat) /\ \A i \in DOMAIN posted' : posted'[i] <= Oldest
        /\ Head(posted) \in Nat /\ Head(posted) <= Oldest
    BY <1>c, <1>d, <2>1, <2>2
  <2>5. /\ seen' \in [for : Nat, parts : [K!Parts -> SUBSET Int]] /\ seen'.for = Head(posted)
        /\ \A p \in K!Parts : seen'.parts[p] = {}
    BY <2>1, <2>4
  <2> QED
    BY <1>c, <2>1, <2>3, <2>4, <2>5 DEF Pictured, K!PictureAsTold
<1>10. ASSUME NEW p \in K!Parts, K!ReadPart(p) PROVE Pictured'
  <2>1. /\ main = "read" /\ seen' = [seen EXCEPT !.parts[p] = @ \cup parts[p]]
        /\ UNCHANGED <<parts, capturer, captured, posted, imageConnections, main>>
    BY <1>10 DEF K!ReadPart
  <2>2. Whole' = Whole /\ Oldest' = Oldest
    BY <2>1 DEF Whole, Oldest
  <2>3. parts[p] \subseteq Oldest..captured
    <3>1. CASE capturer \in {"none", "loop", "emit"}
      <4>1. Whole = K!Parts /\ Oldest = captured
        BY <3>1 DEF Whole, Oldest
      <4> QED
        BY <1>c, <1>d, <4>1
    <3>2. CASE capturer \notin {"none", "loop", "emit"}
      BY <1>c, <3>2 DEF Oldest
    <3> QED
      BY <3>1, <3>2
  <2>4. parts[p] \subseteq seen.for..captured /\ parts[p] \subseteq Int
    BY <1>c, <1>d, <2>1, <2>3
  <2>5. /\ seen' \in [for : Nat, parts : [K!Parts -> SUBSET Int]] /\ seen'.for = seen.for
        /\ \A q \in K!Parts : seen'.parts[q] = IF q = p THEN seen.parts[p] \cup parts[p] ELSE seen.parts[q]
    <3>1. seen.parts \in [K!Parts -> SUBSET Int] /\ seen.for \in Nat
      BY <1>c
    <3>2. seen' = [for |-> seen.for, parts |-> [seen.parts EXCEPT ![p] = seen.parts[p] \cup parts[p]]]
      BY <1>c, <2>1
    <3> QED
      BY <2>4, <3>1, <3>2
  <2>6. \A q \in K!Parts : seen'.parts[q] \subseteq seen'.for..captured'
    BY <1>c, <2>1, <2>4, <2>5
  <2> QED
    BY <1>c, <2>1, <2>2, <2>5, <2>6 DEF Pictured, K!PictureAsTold
<1>11. CASE \/ (K!Service /\ ~K!Connect) \/ (K!Opening /\ ~K!StartGrab) \/ K!HandleCallbackData
           \/ K!SlotEnds \/ UNCHANGED K!temperatureVars
  <2>1. UNCHANGED pictureVars /\ (main' = "read" => main = "read")
    BY <1>11 DEF pictureVars, K!Service, K!Start, K!Stop, K!JoinConnector, K!StopGrab, K!JoinCapture,
       K!CloseCamera, K!Opening, K!ConnectorEnds, K!Enter, K!Login, K!LoginFails, K!GetTemperatureByCallback,
       K!NoThermometry, K!Connector, K!HandleCallbackData, K!SlotEnds, K!temperatureVars
  <2> QED
    BY <1>1, <2>1
<1> QED
  BY <1>2, <1>3, <1>4, <1>5, <1>6, <1>7, <1>8, <1>9, <1>10, <1>11 DEF K!Next, K!Capturing, K!Slot

LEMMA ThermalStep ==
  ASSUME K!TemperatureAssumption, ThermalInv, [K!Next]_(K!temperatureVars) PROVE ThermalInv'
BY ThreadsStep, LoginStep, MeasuredStep, PicturedStep DEF ThermalInv

LEMMA ThermalSound == ThermalInv => K!ValuesNearlyOfOneTime /\ K!PictureAsTold /\ K!StopClosesAll
BY DEF ThermalInv, Measured, Pictured, Threaded, LoggedIn, K!StopClosesAll

-----------------------------------------------------------------------------
(* The cameras of Hikvision.                                                *)

Opens  == {"Login", "GetPort", "RealPlay"}
Closes == {"StopRealPlay", "FreePort", "Logout", "CloseStream"}
Lives  == {"new", "opening", "live", "failed", "closed", "gone"}

\* What the main thread is to do: to open a camera, where RealPlay is the last, or to
\* close one.
Working ==
  /\ kind \in {"CameraHik", "HikCamera"} /\ life \in [Players -> Lives]
  /\ inWork \in Players \cup {NoPlayer} /\ calls \in Seq(Opens \cup Closes)
  /\ \/ calls = <<>>
     \/ /\ inWork \in Players /\ life[inWork] = "opening" /\ calls \in Seq(Opens)
        /\ \A i \in 1..Len(calls) : calls[i] = "RealPlay" => i = Len(calls)
     \/ inWork \in Players /\ life[inWork] = "closed" /\ calls \in Seq(Closes)

\* Data come, and streams open, once a camera has started.
Started ==
  /\ playing \in [Ids -> Players \cup {NoPlayer}] /\ opened \in [Players -> Ports \cup {-1}]
  /\ \A c \in Players : life[c] \in {"new", "opening"} => ~Plays(c) /\ opened[c] = -1

\* Who has a number has had it.
Numbered ==
  /\ m_lPort \in [Players -> Int] /\ had \in [Ports -> SUBSET Players]
  /\ \A c \in Players : m_lPort[c] \in Ports => c \in had[m_lPort[c]]
  /\ g_mapPortUser \in [Ports -> Players \cup {NoPlayer}]
  /\ \A p \in Ports : g_mapPortUser[p] # NoPlayer => g_mapPortUser[p] \in had[p]

\* What waits in a decoder, and where it goes.
Fed ==
  /\ fed \in [Ports -> [shown : Players \cup {NoPlayer}, others : BOOLEAN]]
  /\ kind = "CameraHik" => \A p \in Ports :
       fed[p] = NoData \/ fed[p].shown = g_pUser \/ fed[p].others

ImageTold ==
  \/ image.told = image.shown
  \/ kind = "CameraHik" /\ image.others
  \/ kind = "HikCamera" /\ image.port \in Ports /\ image.told \in had[image.port]

StreamsStay ==
  \A c \in Players : ~ending /\ life[c] = "live" /\ opened[c] # -1 =>
     opened[c] \in decoders \/ \E d \in had[opened[c]] : d # c

PlayerInv == Working /\ Started /\ Numbered /\ Fed /\ ImageTold /\ StreamsStay

\* An action of the main thread, which works for a camera.
LEMMA MainActions ==
  ASSUME MainCall
  PROVE  /\ inWork # NoPlayer
         /\ \/ AlreadyConnected \/ LoginFails \/ RealPlayFails \/ NoRecorder
            \/ Login \/ GetPort \/ GetPortFails \/ RealPlay
            \/ StopRealPlay \/ NotPlaying \/ StopRealPlayFails \/ FreePort
            \/ CloseStream \/ Logout \/ LogoutFails \/ Done
BY DEF MainCall

LEMMA ClosingCalls == ASSUME NEW c PROVE CloseCamera(c) \in Seq(Closes) /\ StopGrab \o CloseCamera(c) \in Seq(Closes)
<1>1. StopGrab \in Seq(Closes) /\ <<"Logout">> \in Seq(Closes) /\ <<"CloseStream", "FreePort">> \in Seq(Closes)
      /\ <<>> \in Seq(Closes)
  BY DEF StopGrab, Closes
<1>2. StopGrab \o <<"Logout">> \in Seq(Closes)
  BY <1>1
<1>3. CloseCamera(c) \in Seq(Closes)
  BY <1>1, <1>2 DEF CloseCamera
<1> QED
  BY <1>1, <1>3

\* A call that is made leaves later ones.
LEMMA LaterCalls ==
  ASSUME NEW U, NEW s \in Seq(U), NEW n \in 1..3
  PROVE  LET t == SubSeq(s, n + 1, Len(s))
         IN /\ t \in Seq(U)
            /\ Len(s) <= n => t = <<>>
            /\ Len(t) = IF n < Len(s) THEN Len(s) - n ELSE 0
            /\ \A i \in 1..Len(t) : t[i] = s[i + n] /\ i + n \in 1..Len(s)
<1> DEFINE t == SubSeq(s, n + 1, Len(s))
<1>1. Len(s) \in Nat
  OBVIOUS
<1>2. t \in Seq(U) /\ Len(t) = IF n < Len(s) THEN Len(s) - n ELSE 0
  <2>1. CASE n < Len(s)
    BY <1>1, <2>1, SubSeqProperties
  <2>2. CASE ~(n < Len(s))
    BY <1>1, <2>2, SubSeqProperties
  <2> QED
    BY <2>1, <2>2
<1>3. \A i \in 1..Len(t) : t[i] = s[i + n] /\ i + n \in 1..Len(s)
  <2> SUFFICES ASSUME NEW i \in 1..Len(t) PROVE t[i] = s[i + n] /\ i + n \in 1..Len(s)
    OBVIOUS
  <2>1. n < Len(s) /\ i \in 1..(Len(s) - n)
    BY <1>1, <1>2
  <2> QED
    BY <1>1, <2>1, SubSeqProperties
<1>4. Len(s) <= n => t = <<>>
  BY <1>1, <1>2, EmptySeq
<1> QED
  BY <1>2, <1>3, <1>4

\* For which camera the call is that comes next.
LEMMA NextCall ==
  ASSUME Working, calls # <<>>
  PROVE  /\ inWork \in Players /\ Len(calls) \in Nat \ {0} /\ Head(calls) = calls[1]
         /\ Head(calls) \in Opens => life[inWork] = "opening"
         /\ Head(calls) \in Closes => life[inWork] = "closed"
         /\ Head(calls) = "RealPlay" => Len(calls) = 1
<1>1. Len(calls) \in Nat \ {0} /\ Head(calls) = calls[1] /\ 1 \in 1..Len(calls)
  BY DEF Working
<1>2. Opens \cap Closes = {} /\ "RealPlay" \in Opens
  BY DEF Opens, Closes
<1>3. CASE /\ inWork \in Players /\ life[inWork] = "opening" /\ calls \in Seq(Opens)
           /\ \A i \in 1..Len(calls) : calls[i] = "RealPlay" => i = Len(calls)
  <2>1. Head(calls) \in Opens
    BY <1>1, <1>3
  <2>2. Head(calls) = "RealPlay" => Len(calls) = 1
    BY <1>1, <1>3
  <2> QED
    BY <1>1, <1>2, <1>3, <2>1, <2>2
<1>4. CASE inWork \in Players /\ life[inWork] = "closed" /\ calls \in Seq(Closes)
  <2>1. Head(calls) \in Closes
    BY <1>1, <1>4
  <2> QED
    BY <1>1, <1>2, <1>4, <2>1
<1> QED
  BY <1>3, <1>4 DEF Working

LEMMA PlayerInit == PlayerAssumption /\ Init => PlayerInv
<1> SUFFICES ASSUME PlayerAssumption, Init PROVE PlayerInv
  OBVIOUS
<1>1. Working
  BY DEF Init, Working, Lives
<1>2. Started
  BY DEF Init, Started, Plays, PlayerAssumption
<1>3. m_lPort \in [Players -> Int]
  <2>1. CASE kind = "HikCamera"
    <3>1. m_lPort \in [Players -> {-1, 0}]
      BY <2>1 DEF Init
    <3> QED
      BY <3>1
  <2>2. CASE kind # "HikCamera"
    <3>1. m_lPort \in [Players -> {-1}]
      BY <2>2 DEF Init
    <3> QED
      BY <3>1
  <2> QED
    BY <2>1, <2>2
<1>4. Numbered
  BY <1>3 DEF Init, Numbered
<1>5. Fed
  BY DEF Init, Fed, NoData
<1>6. ImageTold
  BY DEF Init, ImageTold, NoImage
<1>7. StreamsStay
  BY DEF Init, StreamsStay
<1> QED
  BY <1>1, <1>2, <1>4, <1>5, <1>6, <1>7 DEF PlayerInv

\* The calls go on for the camera in work.
LEMMA CallsGoOn ==
  ASSUME Working, calls # <<>>, NEW n \in 1..3, calls' = SubSeq(calls, n + 1, Len(calls)),
         UNCHANGED <<kind, inWork>>, life' = life \/ Len(calls) <= n, life' \in [Players -> Lives]
  PROVE  Working'
<1> DEFINE t == SubSeq(calls, n + 1, Len(calls))
<1>1. /\ kind \in {"CameraHik", "HikCamera"} /\ inWork \in Players \cup {NoPlayer}
      /\ calls \in Seq(Opens \cup Closes)
  BY DEF Working
<1>2. t \in Seq(Opens \cup Closes) /\ (Len(calls) <= n => t = <<>>)
  BY <1>1, LaterCalls
<1>3. CASE Len(calls) <= n
  BY <1>1, <1>2, <1>3 DEF Working
<1>4. CASE /\ life' = life /\ inWork \in Players /\ life[inWork] = "opening" /\ calls \in Seq(Opens)
           /\ \A i \in 1..Len(calls) : calls[i] = "RealPlay" => i = Len(calls)
  <2>1. t \in Seq(Opens) /\ (Len(t) = IF n < Len(calls) THEN Len(calls) - n ELSE 0)
    BY <1>4, LaterCalls
  <2>2. ASSUME NEW i \in 1..Len(t), t[i] = "RealPlay" PROVE i = Len(t)
    <3>1. t[i] = calls[i + n] /\ i + n \in 1..Len(calls)
      BY <1>4, LaterCalls
    <3> QED
      BY <1>4, <2>1, <2>2, <3>1
  <2> QED
    BY <1>1, <1>2, <1>4, <2>1, <2>2 DEF Working
<1>5. CASE life' = life /\ inWork \in Players /\ life[inWork] = "closed" /\ calls \in Seq(Closes)
  <2>1. t \in Seq(Closes)
    BY <1>5, LaterCalls
  <2> QED
    BY <1>1, <1>2, <1>5, <2>1 DEF Working
<1> QED
  BY <1>3, <1>4, <1>5 DEF Working

\* The actions other than those of the main thread that make a call.
Calling == /\ inWork # NoPlayer
           /\ \/ Login \/ GetPort \/ GetPortFails \/ RealPlay
              \/ StopRealPlay \/ NotPlaying \/ StopRealPlayFails \/ FreePort
              \/ CloseStream \/ Logout \/ LogoutFails
Failing == inWork # NoPlayer /\ (AlreadyConnected \/ LoginFails \/ RealPlayFails \/ NoRecorder)
Data    == \/ \E c \in Players : Head1(c) \/ Head2(c) \/ DataLost(c) \/ InputData(c)
           \/ \E p \in Ports : Decode(p)
Turning == \/ Stop \/ (inWork # NoPlayer /\ Done)
           \/ \E c \in Players : Open(c) \/ Destroy(c) \/ Close(c)

LEMMA PlayerActions == Next => Calling \/ Failing \/ Data \/ Turning
BY Zenon DEF Next, MainCall, Calling, Failing, Data, Turning

LEMMA FailingActions ==
  ASSUME Failing, Working
  PROVE  /\ inWork \in Players /\ life' = [life EXCEPT ![inWork] = "failed"] /\ calls' = <<>>
         /\ UNCHANGED <<kind, inWork, ending, playing, opened, m_lPort, had, g_mapPortUser,
                        fed, g_pUser, image, decoders>>
         /\ life[inWork] # "closed"
<1>1. inWork \in Players
  BY DEF Failing, Working
<1>2. CASE NoRecorder
  BY <1>1, <1>2 DEF NoRecorder, Fails, memberVars, sdkVars, playVars, staticVars
<1>3. CASE AlreadyConnected \/ LoginFails \/ RealPlayFails
  <2>1. calls # <<>> /\ Head(calls) \in {"Login", "RealPlay"}
    BY <1>3 DEF AlreadyConnected, LoginFails, RealPlayFails
  <2>2. life[inWork] = "opening"
    BY <2>1, NextCall DEF Opens
  <2> QED
    BY <1>1, <1>3, <2>2 DEF AlreadyConnected, LoginFails, RealPlayFails, Fails, memberVars, sdkVars,
       playVars, staticVars
<1> QED
  BY <1>2, <1>3 DEF Failing

LEMMA DataActions ==
  ASSUME Data PROVE UNCHANGED <<kind, life, calls, inWork, ending, playing>>
<1>1. ASSUME NEW c \in Players, Head1(c) \/ Head2(c) \/ DataLost(c) \/ InputData(c)
      PROVE  UNCHANGED <<kind, life, calls, inWork, ending, playing>>
  BY <1>1 DEF Head1, Head2, DataLost, InputData, Called, mainVars, sdkVars
<1>2. ASSUME NEW p \in Ports, Decode(p) PROVE UNCHANGED <<kind, life, calls, inWork, ending, playing>>
  BY <1>2 DEF Decode, mainVars, sdkVars
<1> QED
  BY <1>1, <1>2 DEF Data

LEMMA CallingActions ==
  ASSUME Calling, Working
  PROVE  /\ calls # <<>> /\ \E n \in 1..3 : calls' = SubSeq(calls, n + 1, Len(calls))
         /\ UNCHANGED <<kind, inWork, ending, image, opened>>
         /\ \/ life' = life
            \/ /\ Len(calls) = 1 /\ life[inWork] = "opening"
               /\ life' = [life EXCEPT ![inWork] = "live"]
<1>1. CASE RealPlay
  BY <1>1, NextCall DEF RealPlay, Call, Opens
<1>2. CASE \/ Login \/ GetPort \/ GetPortFails \/ StopRealPlay \/ NotPlaying \/ FreePort \/ CloseStream
           \/ Logout
  BY <1>2 DEF Login, GetPort, GetPortFails, StopRealPlay, NotPlaying, FreePort, CloseStream, Logout, Call
<1>3. CASE StopRealPlayFails \/ LogoutFails
  BY <1>3 DEF StopRealPlayFails, LogoutFails, Call
<1> QED
  BY <1>1, <1>2, <1>3 DEF Calling

LEMMA WorkingStep ==
  ASSUME PlayerAssumption, Working, [Next]_playerVars PROVE Working'
<1>1. CASE UNCHANGED <<kind, life, calls, inWork>>
  BY <1>1 DEF Working
<1>2. CASE Calling
  <2>1. PICK n \in 1..3 : calls' = SubSeq(calls, n + 1, Len(calls))
    BY <1>2, CallingActions
  <2>2. /\ calls # <<>> /\ UNCHANGED <<kind, inWork>>
        /\ life' = life \/ (Len(calls) = 1 /\ life' = [life EXCEPT ![inWork] = "live"])
    BY <1>2, CallingActions
  <2>3. life \in [Players -> Lives] /\ "live" \in Lives
    BY DEF Working, Lives
  <2>4. life' \in [Players -> Lives]
    BY <2>2, <2>3
  <2>5. Len(calls) = 1 => Len(calls) <= n
    OBVIOUS
  <2> QED
    BY <2>1, <2>2, <2>4, <2>5, CallsGoOn, Zenon
<1>3. CASE Failing
  <2>1. calls' = <<>> /\ UNCHANGED <<kind, inWork>> /\ life' = [life EXCEPT ![inWork] = "failed"]
    BY <1>3, FailingActions
  <2>2. life \in [Players -> Lives] /\ "failed" \in Lives
    BY DEF Working, Lives
  <2>3. life' \in [Players -> Lives]
    BY <2>1, <2>2
  <2> QED
    BY <2>1, <2>3 DEF Working
<1>4. CASE Data
  BY <1>1, <1>4, DataActions
<1>5. CASE Stop
  BY <1>1, <1>5 DEF Stop
<1>6. CASE Done
  BY <1>6 DEF Done, Working
<1>7. ASSUME NEW c \in Players, Open(c) PROVE Working'
  <2> DEFINE todo == <<"Login", "GetPort", "RealPlay">>
  <2>1. /\ UNCHANGED kind /\ inWork' = c /\ calls' = todo /\ life' = [life EXCEPT ![c] = "opening"]
    BY <1>7 DEF Open, Begin
  <2>2. todo \in Seq(Opens) /\ todo \in Seq(Opens \cup Closes) /\ \A i \in 1..Len(todo) : todo[i] = "RealPlay" => i = Len(todo)
    BY DEF Opens
  <2> HIDE DEF todo
  <2>3. life \in [Players -> Lives] /\ "opening" \in Lives
    BY DEF Working, Lives
  <2>4. life' \in [Players -> Lives] /\ life'[c] = "opening"
    BY <2>1, <2>3
  <2>5. kind' \in {"CameraHik", "HikCamera"} /\ inWork' \in Players /\ calls' \in Seq(Opens \cup Closes)
    BY <2>1, <2>2 DEF Working
  <2>6. /\ life'[inWork'] = "opening" /\ calls' \in Seq(Opens)
        /\ \A i \in 1..Len(calls') : calls'[i] = "RealPlay" => i = Len(calls')
    BY <2>1, <2>2, <2>4
  <2> QED
    BY <2>4, <2>5, <2>6 DEF Working
<1>8. ASSUME NEW c \in Players, Destroy(c) \/ Close(c) PROVE Working'
  <2>1. /\ UNCHANGED kind /\ inWork' = c /\ life' = [life EXCEPT ![c] = "closed"]
        /\ calls' = CloseCamera(c) \/ calls' = StopGrab \o CloseCamera(c)
    BY <1>8 DEF Destroy, Close, Begin
  <2>2. calls' \in Seq(Closes)
    BY <2>1, ClosingCalls
  <2>3. calls' \in Seq(Opens \cup Closes)
    BY <2>2, SeqMonotonic
  <2>4. life' \in [Players -> Lives] /\ life'[c] = "closed"
    BY <2>1 DEF Working, Lives
  <2> QED
    BY <2>1, <2>2, <2>3, <2>4 DEF Working
<1> QED
  BY <1>1, <1>2, <1>3, <1>4, <1>5, <1>6, <1>7, <1>8, PlayerActions DEF Turning, playerVars, mainVars

LEMMA StartedStep ==
  ASSUME PlayerAssumption, Working, Started, Numbered, [Next]_playerVars PROVE Started'
<1>a. /\ playing \in [Ids -> Players \cup {NoPlayer}] /\ opened \in [Players -> Ports \cup {-1}]
      /\ \A c \in Players : life[c] \in {"new", "opening"} => ~Plays(c) /\ opened[c] = -1
      /\ life \in [Players -> Lives]
  BY DEF Working, Started
<1>1. CASE UNCHANGED <<life, playing, opened>>
  BY <1>1 DEF Started, Plays
<1>2. CASE Calling
  <2>1. CASE RealPlay
    <3>1. PICK h : playing' = [playing EXCEPT ![h] = inWork]
      BY <2>1 DEF RealPlay
    <3>2. /\ life' = [life EXCEPT ![inWork] = "live"] /\ opened' = opened /\ inWork \in Players
      BY <2>1, NextCall DEF RealPlay, Call
    <3>3. playing' \in [Ids -> Players \cup {NoPlayer}]
      BY <1>a, <3>1, <3>2
    <3>4. ASSUME NEW c \in Players, life'[c] \in {"new", "opening"} PROVE ~Plays(c)' /\ opened'[c] = -1
      <4>1. c # inWork /\ life[c] \in {"new", "opening"}
        BY <1>a, <3>2, <3>4
      <4> QED
        BY <1>a, <3>1, <3>2, <4>1 DEF Plays
    <3> QED
      BY <1>a, <3>2, <3>3, <3>4 DEF Started
  <2>2. CASE StopRealPlay
    <3>1. PICK h : playing' = [playing EXCEPT ![h] = NoPlayer]
      BY <2>2 DEF StopRealPlay
    <3>2. life' = life /\ opened' = opened
      BY <2>2 DEF StopRealPlay, Call
    <3>3. playing' \in [Ids -> Players \cup {NoPlayer}]
      BY <1>a, <3>1
    <3>4. \A c \in Players : Plays(c)' => Plays(c)
      BY <1>a, <3>1 DEF Plays, PlayerAssumption
    <3> QED
      BY <1>a, <3>2, <3>3, <3>4 DEF Started
  <2>3. CASE ~RealPlay /\ ~StopRealPlay
    <3>1. UNCHANGED <<life, playing, opened>>
      BY <1>2, <2>3 DEF Calling, Login, GetPort, GetPortFails, NotPlaying, StopRealPlayFails, FreePort,
         CloseStream, Logout, LogoutFails, Call, sdkVars
    <3> QED
      BY <1>1, <3>1
  <2> QED
    BY <2>1, <2>2, <2>3
<1>3. ASSUME NEW c \in Players, NEW l \in Lives, life' = [life EXCEPT ![c] = l],
             UNCHANGED <<playing, opened>>,
             l \in {"new", "opening"} => life[c] \in {"new", "opening"}
      PROVE  Started'
  <2>1. \A d \in Players : life'[d] \in {"new", "opening"} => life[d] \in {"new", "opening"}
    BY <1>a, <1>3
  <2> QED
    BY <1>a, <1>3, <2>1 DEF Started, Plays
<1>4. CASE Failing
  <2>1. inWork \in Players /\ life' = [life EXCEPT ![inWork] = "failed"] /\ UNCHANGED <<playing, opened>>
    BY <1>4, FailingActions
  <2> QED
    BY <1>3, <2>1 DEF Lives
<1>5. CASE Data
  <2>0. UNCHANGED <<life, playing>>
    BY <1>5, DataActions
  <2>1. ASSUME NEW c \in Players, Head1(c) PROVE Started'
    <3>1. Plays(c) /\ \E p \in Ports : TakePort(c, p)
      BY <2>1 DEF Head1, Called
    <3>2. PICK p \in Ports : m_lPort' = [m_lPort EXCEPT ![c] = p]
      BY <3>1 DEF TakePort
    <3>3. opened' = opened \/ opened' = [opened EXCEPT ![c] = m_lPort'[c]]
      BY <2>1 DEF Head1
    <3>4. m_lPort'[c] = p
      BY <3>2 DEF Numbered
    <3>5. life[c] \notin {"new", "opening"} /\ opened' \in [Players -> Ports \cup {-1}]
      BY <1>a, <3>1, <3>3, <3>4
    <3>6. \A d \in Players : d # c => opened'[d] = opened[d]
      BY <1>a, <3>3
    <3> QED
      BY <1>a, <2>0, <3>5, <3>6 DEF Started, Plays
  <2>2. CASE UNCHANGED opened
    BY <1>1, <2>0, <2>2
  <2>3. ASSUME NEW c \in Players, Head2(c) \/ DataLost(c) \/ InputData(c) PROVE UNCHANGED opened
    BY <2>3 DEF Head2, DataLost, InputData
  <2>4. ASSUME NEW p \in Ports, Decode(p) PROVE UNCHANGED opened
    BY <2>4 DEF Decode
  <2> QED
    BY <1>5, <2>1, <2>2, <2>3, <2>4 DEF Data
<1>6. CASE Stop \/ Done
  BY <1>1, <1>6 DEF Stop, Done, sdkVars
<1>7. ASSUME NEW c \in Players, Open(c) \/ Destroy(c) \/ Close(c) PROVE Started'
  <2>1. CASE Open(c)
    <3>1. life' = [life EXCEPT ![c] = "opening"] /\ life[c] = "new" /\ UNCHANGED <<playing, opened>>
      BY <2>1 DEF Open, Begin, sdkVars
    <3> QED
      BY <1>3, <3>1 DEF Lives
  <2>2. CASE Destroy(c) \/ Close(c)
    <3>1. life' = [life EXCEPT ![c] = "closed"] /\ UNCHANGED <<playing, opened>>
      BY <2>2 DEF Destroy, Close, Begin, sdkVars
    <3> QED
      BY <1>3, <3>1 DEF Lives
  <2> QED
    BY <1>7, <2>1, <2>2
<1> QED
  BY <1>1, <1>2, <1>4, <1>5, <1>6, <1>7, PlayerActions DEF Turning, playerVars, mainVars, sdkVars

\* The numbers of ports: who takes one is marked, nobody is forgotten.
NumbersGrow == had' \in [Ports -> SUBSET Players] /\ \A p \in Ports : had[p] \subseteq had'[p]

LEMMA NumberTaken ==
  ASSUME PlayerAssumption, Numbered, NEW c \in Players, NEW p \in Ports, TakePort(c, p)
  PROVE  /\ NumbersGrow /\ m_lPort' \in [Players -> Int]
         /\ \A d \in Players : m_lPort'[d] \in Ports => d \in had'[m_lPort'[d]]
         /\ m_lPort'[c] = p /\ c \in had'[p]
<1>1. /\ m_lPort' = [m_lPort EXCEPT ![c] = p] /\ had' = [had EXCEPT ![p] = had[p] \cup {c}]
      /\ m_lPort \in [Players -> Int] /\ had \in [Ports -> SUBSET Players]
      /\ \A d \in Players : m_lPort[d] \in Ports => d \in had[m_lPort[d]]
  BY DEF TakePort, Numbered
<1>2. /\ had' \in [Ports -> SUBSET Players] /\ had'[p] = had[p] \cup {c}
      /\ \A q \in Ports : q # p => had'[q] = had[q]
  BY <1>1
<1>3. m_lPort'[c] = p /\ \A d \in Players : d # c => m_lPort'[d] = m_lPort[d]
  BY <1>1
<1>4. NumbersGrow
  BY <1>2 DEF NumbersGrow
<1>5. \A d \in Players : m_lPort'[d] \in Ports => d \in had'[m_lPort'[d]]
  BY <1>1, <1>2, <1>3
<1>6. m_lPort' \in [Players -> Int]
  BY <1>1 DEF PlayerAssumption
<1> QED
  BY <1>2, <1>3, <1>4, <1>5, <1>6

LEMMA NumberedStep ==
  ASSUME PlayerAssumption, Working, Numbered, [Next]_playerVars PROVE Numbered' /\ NumbersGrow
<1>a. /\ m_lPort \in [Players -> Int] /\ had \in [Ports -> SUBSET Players]
      /\ \A c \in Players : m_lPort[c] \in Ports => c \in had[m_lPort[c]]
      /\ g_mapPortUser \in [Ports -> Players \cup {NoPlayer}]
      /\ \A p \in Ports : g_mapPortUser[p] # NoPlayer => g_mapPortUser[p] \in had[p]
  BY DEF Numbered
<1>1. CASE UNCHANGED <<m_lPort, had, g_mapPortUser>>
  BY <1>1, <1>a DEF Numbered, NumbersGrow
<1>2. ASSUME NumbersGrow, UNCHANGED g_mapPortUser
      PROVE  /\ g_mapPortUser' \in [Ports -> Players \cup {NoPlayer}]
             /\ \A p \in Ports : g_mapPortUser'[p] # NoPlayer => g_mapPortUser'[p] \in had'[p]
  BY <1>a, <1>2 DEF NumbersGrow
<1>3. CASE Calling
  <2>1. CASE GetPort
    <3>1. inWork \in Players /\ UNCHANGED g_mapPortUser
      BY <2>1, NextCall DEF GetPort, Call, staticVars
    <3>2. PICK p \in Ports : TakePort(inWork, p)
      BY <2>1 DEF GetPort
    <3>3. /\ NumbersGrow /\ m_lPort' \in [Players -> Int]
          /\ \A d \in Players : m_lPort'[d] \in Ports => d \in had'[m_lPort'[d]]
      BY <3>1, <3>2, NumberTaken
    <3> QED
      BY <1>2, <3>1, <3>3 DEF Numbered, NumbersGrow
  <2>2. CASE ~GetPort
    <3>1. UNCHANGED <<m_lPort, had, g_mapPortUser>>
      BY <1>3, <2>2 DEF Calling, Login, GetPortFails, RealPlay, StopRealPlay, NotPlaying, StopRealPlayFails,
         FreePort, CloseStream, Logout, LogoutFails, memberVars, staticVars
    <3> QED
      BY <1>1, <3>1
  <2> QED
    BY <2>1, <2>2
<1>4. CASE Failing
  BY <1>1, <1>4, FailingActions
<1>5. ASSUME NEW c \in Players, Called(c), \/ UNCHANGED <<m_lPort, had>> \/ \E p \in Ports : TakePort(c, p)
      PROVE  Numbered' /\ NumbersGrow
  <2>1. \/ g_mapPortUser' = g_mapPortUser
        \/ m_lPort[c] \in Ports /\ g_mapPortUser' = [g_mapPortUser EXCEPT ![m_lPort[c]] = c]
    BY <1>5 DEF Called
  <2>2. NumbersGrow /\ m_lPort' \in [Players -> Int] /\ \A d \in Players : m_lPort'[d] \in Ports => d \in had'[m_lPort'[d]]
    <3>1. CASE UNCHANGED <<m_lPort, had>>
      BY <1>a, <3>1 DEF NumbersGrow
    <3>2. ASSUME NEW p \in Ports, TakePort(c, p)
          PROVE  NumbersGrow /\ m_lPort' \in [Players -> Int] /\ \A d \in Players : m_lPort'[d] \in Ports => d \in had'[m_lPort'[d]]
      BY <3>2, NumberTaken
    <3> QED
      BY <1>5, <3>1, <3>2
  <2>3. CASE g_mapPortUser' = g_mapPortUser
    BY <1>2, <2>2, <2>3 DEF Numbered, NumbersGrow
  <2>4. CASE m_lPort[c] \in Ports /\ g_mapPortUser' = [g_mapPortUser EXCEPT ![m_lPort[c]] = c]
    <3>1. c \in had'[m_lPort[c]]
      BY <1>a, <2>2, <2>4 DEF NumbersGrow
    <3>2. g_mapPortUser' \in [Ports -> Players \cup {NoPlayer}]
      BY <1>a, <2>4
    <3>3. \A p \in Ports : g_mapPortUser'[p] # NoPlayer => g_mapPortUser'[p] \in had'[p]
      BY <1>a, <2>2, <2>4, <3>1 DEF NumbersGrow
    <3> QED
      BY <2>2, <3>2, <3>3 DEF Numbered, NumbersGrow
  <2> QED
    BY <2>1, <2>3, <2>4
<1>6. ASSUME NEW c \in Players, Head1(c) \/ DataLost(c) \/ InputData(c) PROVE Numbered' /\ NumbersGrow
  <2>1. Called(c) /\ (UNCHANGED <<m_lPort, had>> \/ \E p \in Ports : TakePort(c, p))
    BY <1>6 DEF Head1, DataLost, InputData
  <2> QED
    BY <1>5, <2>1
<1>7. ASSUME NEW c \in Players, Head2(c) PROVE Numbered' /\ NumbersGrow
  BY <1>1, <1>7 DEF Head2, memberVars
<1>8. ASSUME NEW p \in Ports, Decode(p) PROVE Numbered' /\ NumbersGrow
  BY <1>1, <1>8 DEF Decode, memberVars, staticVars
<1>9. CASE Turning
  <2>1. UNCHANGED <<m_lPort, had, g_mapPortUser>>
    BY <1>9 DEF Turning, Stop, Done, Open, Destroy, Close, Begin, memberVars, staticVars
  <2> QED
    BY <1>1, <2>1
<1> QED
  BY <1>1, <1>3, <1>4, <1>6, <1>7, <1>8, <1>9, PlayerActions DEF Data, playerVars, memberVars, staticVars

\* What waits in the decoders, when data of c come.
LEMMA OvertakenData ==
  ASSUME Fed, NEW c \in Players
  PROVE  /\ Overtaken(c) \in [Ports -> [shown : Players \cup {NoPlayer}, others : BOOLEAN]]
         /\ \A p \in Ports : \/ Overtaken(c)[p] = NoData \/ Overtaken(c)[p].shown = c
                             \/ Overtaken(c)[p].others
<1> SUFFICES ASSUME NEW p \in Ports
             PROVE  LET d == Overtaken(c)[p]
                    IN /\ d \in [shown : Players \cup {NoPlayer}, others : BOOLEAN]
                       /\ d = NoData \/ d.shown = c \/ d.others
  BY Zenon DEF Overtaken
<1>1. fed[p] \in [shown : Players \cup {NoPlayer}, others : BOOLEAN]
  BY DEF Fed
<1>2. Overtaken(c)[p] = IF fed[p] = NoData THEN NoData
                        ELSE [fed[p] EXCEPT !.others = fed[p].others \/ fed[p].shown # c]
  BY DEF Overtaken
<1>3. NoData \in [shown : Players \cup {NoPlayer}, others : BOOLEAN]
  BY DEF NoData
<1>4. CASE fed[p] = NoData
  BY <1>2, <1>3, <1>4
<1>5. CASE fed[p] # NoData
  <2> DEFINE d == [fed[p] EXCEPT !.others = fed[p].others \/ fed[p].shown # c]
  <2>1. d.shown = fed[p].shown /\ d.others = (fed[p].others \/ fed[p].shown # c)
        /\ d \in [shown : Players \cup {NoPlayer}, others : BOOLEAN]
    BY <1>1
  <2> QED
    BY <1>2, <1>5, <2>1
<1> QED
  BY <1>4, <1>5

LEMMA FedStep ==
  ASSUME PlayerAssumption, Working, Fed, [Next]_playerVars PROVE Fed'
<1> DEFINE Frames == [shown : Players \cup {NoPlayer}, others : BOOLEAN]
<1>a. /\ fed \in [Ports -> Frames] /\ NoData \in Frames
      /\ kind = "CameraHik" => \A p \in Ports : fed[p] = NoData \/ fed[p].shown = g_pUser \/ fed[p].others
  BY DEF Fed, NoData
<1>1. CASE UNCHANGED <<kind, fed, g_pUser>>
  BY <1>1 DEF Fed
<1>2. ASSUME NEW x, fed' = [q \in Ports |-> IF q = x THEN NoData ELSE fed[q]], UNCHANGED <<kind, g_pUser>>
      PROVE  Fed'
  <2>1. fed' \in [Ports -> Frames] /\ \A q \in Ports : fed'[q] = NoData \/ fed'[q] = fed[q]
    BY <1>a, <1>2
  <2> QED
    BY <1>a, <1>2, <2>1 DEF Fed
<1>3. CASE Calling
  <2>1. UNCHANGED <<kind, g_pUser>>
    BY <1>3 DEF Calling, Login, GetPort, GetPortFails, RealPlay, StopRealPlay, NotPlaying, StopRealPlayFails,
       FreePort, CloseStream, Logout, LogoutFails, Call, staticVars
  <2>2. CASE FreePort \/ CloseStream
    <3>1. fed' = fed \/ \E x : fed' = [q \in Ports |-> IF q = x THEN NoData ELSE fed[q]]
      BY <2>2 DEF FreePort, CloseStream, playVars
    <3> QED
      BY <1>1, <1>2, <2>1, <3>1
  <2>3. CASE ~(FreePort \/ CloseStream)
    <3>1. UNCHANGED fed
      BY <1>3, <2>3 DEF Calling, Login, GetPort, GetPortFails, RealPlay, StopRealPlay, NotPlaying,
         StopRealPlayFails, Logout, LogoutFails, playVars
    <3> QED
      BY <1>1, <2>1, <3>1
  <2> QED
    BY <2>2, <2>3
<1>4. CASE Failing
  BY <1>1, <1>4, FailingActions
<1>5. ASSUME NEW c \in Players, Head1(c) \/ DataLost(c) PROVE Fed'
  <2>1. g_pUser' = c /\ fed' = Overtaken(c) /\ kind' = kind
    BY <1>5 DEF Head1, DataLost, Called
  <2> QED
    BY <2>1, OvertakenData DEF Fed
<1>6. ASSUME NEW c \in Players, InputData(c) PROVE Fed'
  <2> DEFINE d == [shown |-> c, others |-> FALSE]
  <2>1. /\ g_pUser' = c /\ kind' = kind
        /\ fed' = [Overtaken(c) EXCEPT ![m_lPort[c]] = d]
    BY <1>6 DEF InputData, Called
  <2>2. d \in Frames /\ d.shown = c
    OBVIOUS
  <2> HIDE DEF d
  <2>3. fed' \in [Ports -> Frames] /\ \A p \in Ports : fed'[p] = Overtaken(c)[p] \/ fed'[p] = d
    BY <2>1, <2>2, OvertakenData
  <2> QED
    BY <2>1, <2>2, <2>3, OvertakenData DEF Fed
<1>7. ASSUME NEW c \in Players, Head2(c) PROVE Fed'
  BY <1>1, <1>7 DEF Head2, playVars
<1>8. ASSUME NEW p \in Ports, Decode(p) PROVE Fed'
  <2>1. fed' = [fed EXCEPT ![p] = NoData] /\ UNCHANGED <<kind, g_pUser>>
    BY <1>8 DEF Decode, staticVars
  <2>2. fed' \in [Ports -> Frames] /\ \A q \in Ports : fed'[q] = NoData \/ fed'[q] = fed[q]
    BY <1>a, <2>1
  <2> QED
    BY <1>a, <2>1, <2>2 DEF Fed
<1>9. CASE Turning
  <2>1. UNCHANGED <<kind, fed, g_pUser>>
    BY <1>9 DEF Turning, Stop, Done, Open, Destroy, Close, Begin, playVars, staticVars
  <2> QED
    BY <1>1, <2>1
<1> QED
  BY <1>1, <1>3, <1>4, <1>5, <1>6, <1>7, <1>8, <1>9, PlayerActions DEF Data, playerVars, playVars, staticVars

LEMMA ImageToldStep ==
  ASSUME PlayerAssumption, Working, Numbered, Fed, ImageTold, NumbersGrow, [Next]_playerVars PROVE ImageTold'
<1>1. CASE UNCHANGED <<kind, image>>
  BY <1>1 DEF ImageTold, NumbersGrow
<1>2. CASE Calling
  BY <1>1, <1>2, CallingActions
<1>3. CASE Failing
  BY <1>1, <1>3, FailingActions
<1>4. ASSUME NEW c \in Players, Head1(c) \/ Head2(c) \/ DataLost(c) \/ InputData(c) PROVE ImageTold'
  BY <1>1, <1>4 DEF Head1, Head2, DataLost, InputData, Called
<1>5. ASSUME NEW p \in Ports, Decode(p) PROVE ImageTold'
  <2> DEFINE to == IF kind = "CameraHik" THEN g_pUser ELSE g_mapPortUser[p]
  <2>1. /\ fed[p] # NoData /\ UNCHANGED <<kind, had>>
        /\ image' = IF to = NoPlayer THEN image
                    ELSE [shown |-> fed[p].shown, told |-> to, others |-> fed[p].others, port |-> p]
    BY <1>5 DEF Decode
  <2>2. CASE to = NoPlayer
    BY <1>1, <2>1, <2>2
  <2>3. CASE to # NoPlayer
    <3>1. /\ image'.shown = fed[p].shown /\ image'.told = to /\ image'.others = fed[p].others
          /\ image'.port = p
      BY <2>1, <2>3
    <3>2. CASE kind = "CameraHik"
      BY <2>1, <3>1, <3>2 DEF Fed, ImageTold
    <3>3. CASE kind # "CameraHik"
      <4>1. kind = "HikCamera" /\ to = g_mapPortUser[p] /\ to \in had[p]
        BY <2>3, <3>3 DEF Working, Numbered
      <4> QED
        BY <2>1, <3>1, <4>1 DEF ImageTold
    <3> QED
      BY <3>2, <3>3
  <2> QED
    BY <2>2, <2>3
<1>6. CASE Turning
  BY <1>1, <1>6 DEF Turning, Stop, Done, Open, Destroy, Close, Begin
<1> QED
  BY <1>1, <1>2, <1>3, <1>4, <1>5, <1>6, PlayerActions DEF Data, playerVars

LEMMA StreamsStayStep ==
  ASSUME PlayerAssumption, Working, Started, Numbered, StreamsStay, NumbersGrow, [Next]_playerVars
  PROVE  StreamsStay'
<1>a. /\ opened \in [Players -> Ports \cup {-1}] /\ life \in [Players -> Lives] /\ -1 \notin Ports
      /\ \A c \in Players : life[c] \in {"new", "opening"} => opened[c] = -1
  BY DEF Started, Working, PlayerAssumption
<1>1. ASSUME \A c \in Players : /\ ~ending' /\ life'[c] = "live" /\ opened'[c] # -1
                                => /\ ~ending /\ life[c] = "live" /\ opened'[c] = opened[c]
                                   /\ opened[c] \in decoders => \/ opened[c] \in decoders'
                                                                \/ \E d \in had'[opened[c]] : d # c
      PROVE  StreamsStay'
  <2> SUFFICES ASSUME NEW c \in Players, ~ending', life'[c] = "live", opened'[c] # -1
               PROVE  opened'[c] \in decoders' \/ \E d \in had'[opened'[c]] : d # c
    BY DEF StreamsStay
  <2>1. /\ ~ending /\ life[c] = "live" /\ opened'[c] = opened[c] /\ opened[c] \in Ports
        /\ opened[c] \in decoders => opened[c] \in decoders' \/ \E d \in had'[opened[c]] : d # c
    BY <1>a, <1>1
  <2>2. opened[c] \in decoders \/ \E d \in had[opened[c]] : d # c
    BY <2>1, <1>a DEF StreamsStay
  <2> QED
    BY <2>1, <2>2 DEF NumbersGrow
<1>2. CASE UNCHANGED <<ending, life, opened, decoders>>
  BY <1>1, <1>2
<1>3. CASE Calling
  <2>1. CASE FreePort \/ CloseStream
    <3>1. /\ UNCHANGED <<ending, opened, life, m_lPort>> /\ inWork \in Players /\ life[inWork] = "closed"
      BY <2>1, NextCall DEF FreePort, CloseStream, Call, memberVars, Closes
    <3>2. \A p : p \in decoders => p \in decoders' \/ p = m_lPort[inWork]
      BY <2>1 DEF FreePort, CloseStream, playVars
    <3>3. ASSUME NEW c \in Players, life[c] = "live", opened[c] # -1, opened[c] = m_lPort[inWork]
          PROVE  \E d \in had'[opened[c]] : d # c
      <4>1. inWork # c /\ opened[c] \in Ports
        BY <1>a, <3>1, <3>3
      <4>2. inWork \in had[m_lPort[inWork]]
        BY <3>1, <3>3, <4>1 DEF Numbered
      <4> QED
        BY <3>3, <4>1, <4>2 DEF NumbersGrow
    <3> QED
      BY <1>1, <3>1, <3>2, <3>3
  <2>2. CASE RealPlay
    <3>1. /\ UNCHANGED <<ending, opened, decoders>> /\ inWork \in Players /\ life[inWork] = "opening"
          /\ life' = [life EXCEPT ![inWork] = "live"]
      BY <2>2, NextCall DEF RealPlay, Call, playVars, Opens
    <3> QED
      BY <1>1, <1>a, <3>1
  <2>3. CASE ~(FreePort \/ CloseStream) /\ ~RealPlay
    <3>1. UNCHANGED <<ending, life, opened, decoders>>
      BY <1>3, <2>3 DEF Calling, Login, GetPort, GetPortFails, StopRealPlay, NotPlaying,
         StopRealPlayFails, Logout, LogoutFails, Call, playVars
    <3> QED
      BY <1>2, <3>1
  <2> QED
    BY <2>1, <2>2, <2>3
<1>4. ASSUME NEW c \in Players, NEW l \in Lives, l # "live", life' = [life EXCEPT ![c] = l],
             UNCHANGED <<ending, opened, decoders>>
      PROVE  StreamsStay'
  BY <1>1, <1>4, <1>a
<1>5. CASE Failing
  <2>1. /\ inWork \in Players /\ life' = [life EXCEPT ![inWork] = "failed"]
        /\ UNCHANGED <<ending, opened, decoders>>
    BY <1>5, FailingActions
  <2> QED
    BY <1>4, <2>1 DEF Lives
<1>6. CASE Data
  <2>0. UNCHANGED <<ending, life>>
    BY <1>6, DataActions
  <2>1. ASSUME NEW c \in Players, Head1(c) PROVE StreamsStay'
    <3>1. \/ UNCHANGED <<decoders, opened>>
          \/ decoders' = decoders \cup {m_lPort'[c]} /\ opened' = [opened EXCEPT ![c] = m_lPort'[c]]
      BY <2>1 DEF Head1
    <3>2. CASE UNCHANGED <<decoders, opened>>
      BY <1>2, <2>0, <3>2
    <3>3. CASE decoders' = decoders \cup {m_lPort'[c]} /\ opened' = [opened EXCEPT ![c] = m_lPort'[c]]
      <4> SUFFICES ASSUME NEW d \in Players, ~ending', life'[d] = "live", opened'[d] # -1
                   PROVE  opened'[d] \in decoders' \/ \E e \in had'[opened'[d]] : e # d
        BY DEF StreamsStay
      <4>1. CASE d = c
        BY <1>a, <3>3, <4>1
      <4>2. CASE d # c
        <5>1. opened'[d] = opened[d] /\ opened[d] \in Ports
          BY <1>a, <3>3, <4>2
        <5>2. opened[d] \in decoders \/ \E e \in had[opened[d]] : e # d
          BY <2>0, <5>1 DEF StreamsStay
        <5> QED
          BY <3>3, <5>1, <5>2 DEF NumbersGrow
      <4> QED
        BY <4>1, <4>2
    <3> QED
      BY <3>1, <3>2, <3>3
  <2>2. ASSUME NEW c \in Players, Head2(c) \/ DataLost(c) \/ InputData(c) PROVE StreamsStay'
    <3>1. UNCHANGED <<opened, decoders>>
      BY <2>2 DEF Head2, DataLost, InputData, playVars
    <3> QED
      BY <1>2, <2>0, <3>1
  <2>3. ASSUME NEW p \in Ports, Decode(p) PROVE StreamsStay'
    <3>1. UNCHANGED <<opened, decoders>>
      BY <2>3 DEF Decode
    <3> QED
      BY <1>2, <2>0, <3>1
  <2> QED
    BY <1>6, <2>1, <2>2, <2>3 DEF Data
<1>7. CASE Stop \/ Done
  <2>1. /\ UNCHANGED <<life, opened, decoders>> /\ (ending' \/ ending' = ending)
    BY <1>7 DEF Stop, Done, playVars
  <2> QED
    BY <1>1, <2>1
<1>8. ASSUME NEW c \in Players, Open(c) \/ Destroy(c) \/ Close(c) PROVE StreamsStay'
  <2>1. /\ UNCHANGED <<ending, opened, decoders>>
        /\ life' = [life EXCEPT ![c] = "opening"] \/ life' = [life EXCEPT ![c] = "closed"]
    BY <1>8 DEF Open, Destroy, Close, Begin, playVars
  <2> QED
    BY <1>4, <2>1 DEF Lives
<1> QED
  BY <1>2, <1>3, <1>5, <1>6, <1>7, <1>8, PlayerActions DEF Turning, playerVars, mainVars, playVars

LEMMA PlayerStep == PlayerAssumption /\ PlayerInv /\ [Next]_playerVars => PlayerInv'
BY WorkingStep, StartedStep, NumberedStep, FedStep, ImageToldStep, StreamsStayStep DEF PlayerInv

LEMMA PlayerSound == PlayerAssumption /\ PlayerInv => ImageOfItsCamera /\ DecodersStay
BY DEF PlayerInv, ImageTold, ImageOfItsCamera, StreamsStay, DecodersStay

-----------------------------------------------------------------------------
(* The machines of ImagesOfCameras side by side.                            *)

CameraInv == PlayerInv /\ TitlesInv /\ StreamInv /\ ThermalInv

\* What each machine has is in its own variables.
LEMMA CameraVars ==
  /\ UNCHANGED titleVars   => UNCHANGED T!subtitleVars
  /\ UNCHANGED baumerVars  => UNCHANGED S!streamVars
  /\ UNCHANGED thermalVars => UNCHANGED K!temperatureVars
<1>1. UNCHANGED titleVars => UNCHANGED T!subtitleVars
  BY DEF titleVars, T!subtitleVars
<1>2. UNCHANGED baumerVars => UNCHANGED S!streamVars
  BY DEF baumerVars, S!streamVars
<1>3. UNCHANGED thermalVars => UNCHANGED K!temperatureVars
  BY DEF thermalVars, K!temperatureVars, K!threadVars, K!openVars, K!measureVars, K!imageVars, K!signalVars
<1> QED
  BY <1>1, <1>2, <1>3

LEMMA CameraStep == ASSUME CameraInv, [MCNext]_vars PROVE CameraInv'
<1>1. [Next]_playerVars
  BY DEF MCNext, vars, NotDatabase, NotTitles, NotPacket, NotDetector, NotStream, NotThermal,
     NotPositions, NotProgram
<1>2. [T!Next]_(T!subtitleVars)
  BY CameraVars DEF MCNext, vars, NotPlayer, NotDatabase, NotPacket, NotDetector, NotStream, NotThermal,
     NotPositions, NotProgram
<1>3. [S!Next]_(S!streamVars)
  BY CameraVars DEF MCNext, vars, NotPlayer, NotDatabase, NotTitles, NotPacket, NotDetector, NotThermal,
     NotPositions, NotProgram
<1>4. [K!Next]_(K!temperatureVars)
  BY CameraVars DEF MCNext, vars, NotPlayer, NotDatabase, NotTitles, NotPacket, NotDetector, NotStream,
     NotPositions, NotProgram
<1> QED
  BY <1>1, <1>2, <1>3, <1>4, MCAssumption, PlayerStep, TitlesStep, StreamStep, ThermalStep DEF CameraInv

\* An image goes to its camera unless data of another came or it had its port, and
\* has the lines that were told; streams and buffers are there while they are used;
\* of the thermal camera, values are of about one time, and nothing that a slot reads
\* is older than its picture (CameraHik.cpp:251, HikCamera.cpp:183,
\* HikCamera.cpp:461-687, BaumerCamera.cpp:33-224, HikTemperatureCamera.cpp:156-430).
THEOREM CamerasShowTheirImages == MCSpec => []ImagesOfCameras
<1>1. MCInit => CameraInv
  BY MCAssumption, PlayerInit, TitlesInit, StreamInit, ThermalInit DEF MCInit, CameraInv
<1>2. CameraInv /\ [MCNext]_vars => CameraInv'
  BY CameraStep
<1>3. CameraInv => ImagesOfCameras
  BY MCAssumption, PlayerSound, TitlesSound, StreamSound, ThermalSound DEF CameraInv, ImagesOfCameras
<1> QED
  BY <1>1, <1>2, <1>3, PTL DEF MCSpec
=============================================================================
