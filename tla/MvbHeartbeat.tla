--------------------------- MODULE MvbHeartbeat ---------------------------
(***************************************************************************)
(* modules/mvb_service in its build for ningbo8: what other modules tell of *)
(* alarms and of their state is kept as bits of one packet, which a timer   *)
(* for each port sends to the train.  A module that has not told of itself  *)
(* for some heartbeats is entered as faulty.                                *)
(*                                                                          *)
(* The three functions that fill the tables are public and called by nobody *)
(* in the repository; until they are, the packet has no bits.  Slots and    *)
(* timers run on the module's thread.  The bus (MvbBase) is external.       *)
(*                                                                          *)
(* The documents do not speak of this code: of numbers and levels of alarms *)
(* (MVBCommonData.h:39, MVBPmsDataGenerator.h:66) and of the state of a     *)
(* module (:72) it takes some for others, as told below.                    *)
(***************************************************************************)
EXTENDS Integers

CONSTANTS Ports,        \* those with a heartbeat, each with a timer
          ArmNos, ModulNos,     \* the numbers that are told
          ComId,        \* the configured one; the packet starts with 0
          AliveTime,    \* C_MODULE_ALIVE_TIME
          AliveLimit    \* m_AliveNum has 16 bits

MvbAssumption == /\ AliveTime \in Nat /\ AliveLimit \in Nat \ {0} /\ ComId # 0
                 /\ ArmNos \subseteq 0..14 /\ ModulNos \subseteq 0..16 /\ 0 \in ModulNos

VARIABLES m_startFlag, terminated,
          m_armInfosetlist, m_modulStatussetlist,  \* filled or empty
          m_modulStatus,    \* heartbeats left to each module that told of itself
          m_AliveNum,
          raised,           \* the bits of m_data that are set, as <<byte, bit>>
          comId,            \* and its bytes 8 to 11
          sent,             \* the last packet, and what its check sum was made of
          level,            \* the last level told of each number of AsDocumented
          levels,           \* and those ever told, as <<number, level>>
          faulty,           \* modules of which 1 was told, or silent for too long
          silent            \* heartbeats since a module told of itself

mvbVars == <<m_startFlag, terminated, m_armInfosetlist, m_modulStatussetlist, m_modulStatus,
             m_AliveNum, raised, comId, sent, level, levels, faulty, silent>>

NotSent == [alive |-> 0, comId |-> 0, checked |-> <<0, 0>>]

\* The documented types of alarms, by their numbers from 1 to 14.
AlarmTypes == <<"Temp", "CatOff", "CatHei", "Arc", "Str", "Acc", "YangJiao", "TanHuaBan", "GongTou",
                "ContactForc", "RetRailHspace", "RetRailVspace", "RetRailHardPot", "DiversionWire">>

\* Mutant of Registered: all are counted from zero.
RegisteredFromZero == [a \in 0..13 |-> AlarmTypes[a + 1]]

\* The types that the numbers are registered for: the first four are counted from
\* zero, and 4 is the type of 2 once more.
Registered == [a \in 0..14 |-> IF a < 4 THEN AlarmTypes[a + 1]
                               ELSE IF a = 4 THEN "CatHei" ELSE AlarmTypes[a]]

\* Where the bits of a type begin; "GongTou" and "DiversionWire" have none.
FirstBit == [Temp       |-> <<44, 0>>, CatOff          |-> <<46, 0>>, CatHei        |-> <<47, 0>>,
             Arc        |-> <<43, 0>>, Str             |-> <<42, 0>>, Acc           |-> <<45, 0>>,
             YangJiao   |-> <<42, 4>>, TanHuaBan       |-> <<43, 4>>, ContactForc   |-> <<45, 4>>,
             RetRailHspace |-> <<46, 4>>, RetRailVspace |-> <<47, 4>>, RetRailHardPot |-> <<48, 0>>]

\* The numbers that are registered for the type they are documented as, and shown.
AsDocumented == (5..8) \cup (10..13)

\* The bit of each module's fault; some share one.
FaultBit == [n \in (0..16) \ {4, 7, 8, 9} |->
  CASE n \in {0, 13}  -> <<50, 1>> [] n \in {1, 12} -> <<50, 5>> [] n \in {2, 14} -> <<50, 2>>
    [] n = 3          -> <<50, 0>> [] n = 5         -> <<50, 6>> [] n = 6         -> <<50, 7>>
    [] n \in {10, 16} -> <<51, 4>> [] n = 11        -> <<50, 4>> [] n = 15        -> <<51, 3>>]

Entered(f, x, y) == [z \in DOMAIN f \cup {x} |-> IF z = x THEN y ELSE f[z]]

Init == /\ m_startFlag = FALSE /\ terminated = FALSE
        /\ m_armInfosetlist = FALSE /\ m_modulStatussetlist = FALSE /\ m_modulStatus = [n \in {} |-> 0]
        /\ m_AliveNum = 1 % AliveLimit /\ raised = {} /\ comId = 0 /\ sent = NotSent
        /\ level = [a \in {} |-> 0] /\ levels = {} /\ faulty = {} /\ silent = [n \in ModulNos |-> 0]

packetVars == <<m_AliveNum, raised, comId, sent, level, levels, faulty, silent>>

\* The configuration, with the number of the port, is read before the timers start.
Start == /\ ~m_startFlag /\ m_startFlag' = TRUE
         /\ UNCHANGED <<terminated, m_armInfosetlist, m_modulStatussetlist, m_modulStatus, packetVars>>

InitSetAlarmFunc == /\ m_armInfosetlist' = TRUE
                    /\ UNCHANGED <<m_startFlag, terminated, m_modulStatussetlist, m_modulStatus, packetVars>>

InitSetModulStatusFunc == /\ m_modulStatussetlist' = TRUE
                          /\ UNCHANGED <<m_startFlag, terminated, m_armInfosetlist, m_modulStatus, packetVars>>

\* insert() leaves a number that is there.
InitModuleStatus == /\ 0 \notin DOMAIN m_modulStatus
                    /\ m_modulStatus' = Entered(m_modulStatus, 0, AliveTime)
                    /\ silent' = [silent EXCEPT ![0] = 0]
                    /\ UNCHANGED <<m_startFlag, terminated, m_armInfosetlist, m_modulStatussetlist,
                                   m_AliveNum, raised, comId, sent, level, levels, faulty>>

UpdateModulesStaus(n) == /\ m_modulStatus' = Entered(m_modulStatus, n, AliveTime)
                         /\ silent' = [silent EXCEPT ![n] = 0]
                         /\ UNCHANGED <<m_startFlag, terminated, m_armInfosetlist, m_modulStatussetlist,
                                        m_AliveNum, raised, comId, sent, level, levels, faulty>>

-----------------------------------------------------------------------------
(* What modules tell.                                                       *)

Bit(first, l) == <<first[1], first[2] + l - 1>>

\* A level raises its bit and lowers none; any other number lowers the first.
SetBits(first, l) == IF l \in 1..3 THEN raised \cup {Bit(first, l)}
                     ELSE raised \ {Bit(first, 1)}

\* The lowest level of "CatHei" is entered as bit 9, which a set of 8 does not have.
OutOfRange(first, l) == first = <<47, 0>> /\ l = 1

UpdateAlarmInfo(armno, l) ==
  /\ m_armInfosetlist /\ armno \in DOMAIN Registered /\ Registered[armno] \in DOMAIN FirstBit
  /\ LET first == FirstBit[Registered[armno]]
     IN IF OutOfRange(first, l)
        THEN terminated' = TRUE /\ UNCHANGED <<raised, level, levels>>
        ELSE /\ raised' = SetBits(first, l)
             /\ level' = IF armno \in AsDocumented THEN Entered(level, armno, l) ELSE level
             /\ levels' = IF armno \in AsDocumented THEN levels \cup {<<armno, l>>} ELSE levels
             /\ UNCHANGED terminated
  /\ UNCHANGED <<m_startFlag, m_armInfosetlist, m_modulStatussetlist, m_modulStatus, m_AliveNum,
                 comId, sent, faulty, silent>>

Known(S) == IF m_modulStatussetlist THEN S \cap DOMAIN FaultBit ELSE {}

UpdateModulStatus(modulno, value) ==
  /\ modulno \in Known(ModulNos)
  /\ LET bit == {FaultBit[modulno]}
     IN raised' = IF value THEN raised \cup bit ELSE raised \ bit
  /\ faulty' = IF value THEN faulty \cup {modulno} ELSE faulty \ {modulno}
  /\ UNCHANGED <<m_startFlag, terminated, m_armInfosetlist, m_modulStatussetlist, m_modulStatus,
                 m_AliveNum, comId, sent, level, levels, silent>>

-----------------------------------------------------------------------------
(* The heartbeat.                                                           *)

\* Mutant of CheckedContent: the sum is made before the number is entered.
CheckedBefore == <<m_AliveNum - 1, comId>>

\* The sum is made of the new number and of what bytes 8 to 11 held.
CheckedContent == <<m_AliveNum, comId>>

\* Mutant of Expired: a heartbeat less is waited for.
ExpiredEarly == {n \in DOMAIN m_modulStatus : m_modulStatus[n] <= 0}

\* The counter is tested and then decremented; below zero it stays below.
Expired == {n \in DOMAIN m_modulStatus : m_modulStatus[n] < 0}

Decreased(k) == IF k < 0 THEN k ELSE k - 1

Timeout(port) ==
  /\ m_startFlag
  /\ sent' = [alive |-> m_AliveNum, comId |-> ComId, checked |-> CheckedContent]
  /\ comId' = ComId
  /\ m_AliveNum' = (m_AliveNum + 1) % AliveLimit
  /\ m_modulStatus' = [n \in DOMAIN m_modulStatus |-> Decreased(m_modulStatus[n])]
  /\ raised' = raised \cup {FaultBit[n] : n \in Known(Expired)}
  /\ silent' = [n \in ModulNos |-> IF silent[n] < AliveTime + 2 THEN silent[n] + 1 ELSE silent[n]]
  /\ faulty' = faulty \cup {n \in DOMAIN m_modulStatus : silent'[n] = AliveTime + 2}
  /\ UNCHANGED <<m_startFlag, terminated, m_armInfosetlist, m_modulStatussetlist, level, levels>>

Alarms == ~terminated /\ \/ InitSetAlarmFunc
                         \/ \E a \in ArmNos, l \in 0..3 : UpdateAlarmInfo(a, l)

Modules == ~terminated /\ \/ InitSetModulStatusFunc \/ InitModuleStatus
                          \/ \E n \in ModulNos : \/ UpdateModulesStaus(n)
                                                \/ \E value \in BOOLEAN : UpdateModulStatus(n, value)

Heartbeats == ~terminated /\ (Start \/ \E p \in Ports : Timeout(p))

Next == Alarms \/ Modules \/ Heartbeats

Spec == Init /\ [][Next]_mvbVars

-----------------------------------------------------------------------------
\* The check sum of a packet is that of its content, except that of the first one,
\* which is wrong: its number of the port is entered behind the sum
\* (MVBNBDataGenerator.cpp:424-432).
CheckedAsSent == sent.checked # <<sent.alive, sent.comId>> => sent.checked[2] = 0 /\ sent.alive = 1 % AliveLimit

\* An alarm whose number has its documented type is shown at the place of its type
\* when 1 or 2 was the last level told of it; and what is shown there was once told
\* of it, by whatever number others were told (MVBNBDataGenerator.cpp:93-315,
\* MVBPmsDataGenerator.cpp:17-34).  Not so, against MVBPmsDataGenerator.h:66 and
\* MVBCommonData.h:39: the level 0, which is taken for no alarm and lowers the
\* level 1; the level 3, which has a bit; the numbers 1 to 4, which are shown as
\* "CatOff", "CatHei", "Arc" and "CatHei"; and a level that is over, which stays shown.
AlarmsOfTheirType ==
  \A a \in AsDocumented :
     /\ a \in DOMAIN level /\ level[a] \in 1..2 => Bit(FirstBit[AlarmTypes[a]], level[a]) \in raised
     /\ \A l \in 1..3 : Bit(FirstBit[AlarmTypes[a]], l) \in raised => <<a, l>> \in levels

\* Of who is shown as faulty 1 was told, which MVBPmsDataGenerator.h:72 calls online,
\* or nothing for AliveTime heartbeats and two, or it shares the bit with one of
\* these (MVBPmsDataGenerator.cpp:143-153).
FaultsHaveCause == \A n \in DOMAIN FaultBit :
                     FaultBit[n] \in raised => \E m \in faulty \cap DOMAIN FaultBit : FaultBit[m] = FaultBit[n]

\* The three together: what a packet shows was told (MVBNBDataGenerator.cpp:20-448,
\* MVBPmsDataGenerator.cpp:120-153).
PacketsSound == CheckedAsSent /\ AlarmsOfTheirType /\ FaultsHaveCause
=============================================================================
