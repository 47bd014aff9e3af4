-------------------------- MODULE LocationService --------------------------
(***************************************************************************)
(* modules/location_service: the position of the train is the start of the  *)
(* task plus the distance since, which a thread advances by the speed and   *)
(* tags, the operator, stations, anchors and images correct.  Positions are *)
(* integers along the line; dir is m_lineLir.  The rows that report a       *)
(* position are those of PositionRecords; its messages are left out.        *)
(***************************************************************************)
EXTENDS Integers, FiniteSets

CONSTANTS Poles,      \* kilo_meter of the poles of the line
          Anchors,    \* those that are "锚段关节"
          Starts,     \* dKilometer of the tasks
          MaxDis,     \* bound: distance travelled
          Offset,     \* the 0.001 that selectLineData adds
          Near, Far,  \* an image correction lasts more than Near and less than Far
          SpanPart,   \* 0.3 of the span: distance to the pole it may correct to
          None

LocationAssumption == /\ {Offset, Near, Far, SpanPart, MaxDis} \subseteq Nat
                      /\ Poles \subseteq Int /\ Poles # {} /\ IsFiniteSet(Poles)
                      /\ Anchors \subseteq Poles /\ Starts \subseteq Int
                      /\ Near < Far   \* 0.0001 and 0.0005
                      /\ None \notin Int

VARIABLES task,       \* m_currentTask: whether it runs, and its start; m_lineLir
          distance,   \* m_locationBaseInfo.m_distance
          speed,
          update,     \* the distance that UpdateOnce has read, plus its step
          isAdjust,   \* statics of recvImageData
          pre         \* preKilometor, 0 while isAdjust is not set

locationVars == <<task, distance, speed, update, isAdjust, pre>>

Init == /\ task = [run |-> FALSE, start |-> 0, dir |-> 1]
        /\ distance = 0 /\ speed = 0 /\ update = None
        /\ isAdjust = FALSE /\ pre = 0

Abs(x) == IF x < 0 THEN -x ELSE x
Highest(S) == {p \in S : \A q \in S : q <= p}

\* Mutant of SelectLineData: the position itself is looked up.
SelectLineDataExact(at) ==
  LET less == Highest({p \in Poles : p < at})
      great == Highest({p \in Poles : p > at})
  IN IF great = {} THEN {}
     ELSE IF less = {} THEN great
     ELSE {p \in less : \A g \in great : Abs(at - p) < Abs(g - at)}
          \cup {g \in great : \A p \in less : Abs(at - p) >= Abs(g - at)}

\* selectLineData: the nearer of the pole behind and the last pole ahead, since
\* both queries are in descending order; none when no pole is ahead.
SelectLineData(at) ==
  LET dis == at + Offset
      less == Highest({p \in Poles : p < dis})
      great == Highest({p \in Poles : p > dis})
  IN IF great = {} THEN {}
     ELSE IF less = {} THEN great
     ELSE {p \in less : \A g \in great : Abs(dis - p) < Abs(g - dis)}
          \cup {g \in great : \A p \in less : Abs(dis - p) >= Abs(g - dis)}

Position(t, d) == t.start + t.dir * d

\* adjustData: a distance before the start is ignored.
AdjustData(dis) == distance' = IF dis >= 0 THEN dis ELSE distance

\* The distance of a place of the line.
Travelled(at) == task.dir * (at - task.start)

\* A task is taken over with its line and resets distance and speed.
NotifyTask == /\ \E run \in BOOLEAN, start \in Starts, dir \in {1, -1} :
                   task' = [run |-> run, start |-> start, dir |-> dir]
              /\ distance' = 0 /\ speed' = 0
              /\ UNCHANGED <<update, isAdjust, pre>>

RecvSpeedDisData(v) == /\ task.run /\ speed' = v
                       /\ UNCHANGED <<task, distance, update, isAdjust, pre>>

\* UpdateOnce reads and writes the distance without a lock: a correction in
\* between is undone.
UpdateRead == /\ update = None /\ distance < MaxDis
              /\ update' = distance + speed
              /\ UNCHANGED <<task, distance, speed, isAdjust, pre>>

UpdateWrite == /\ update # None
               /\ distance' = update /\ update' = None
               /\ UNCHANGED <<task, speed, isAdjust, pre>>

\* A tag of the line is read; an unknown one changes nothing.
RecvRfidData(at) == /\ task.run
                    /\ AdjustData(Travelled(at))
                    /\ UNCHANGED <<task, speed, update, isAdjust, pre>>

\* The operator names a pole.
RecvHandData(at) == /\ task.run
                    /\ AdjustData(Travelled(at))
                    /\ UNCHANGED <<task, speed, update, isAdjust, pre>>

\* A station sets the distance to its place on the line, not to the way to it.
RecvMvbData(at) == /\ task.run
                   /\ AdjustData(at)
                   /\ UNCHANGED <<task, speed, update, isAdjust, pre>>

\* The anchor next to the position.
RecvMaoDuanData ==
  /\ task.run
  /\ LET at == IF SelectLineData(Position(task, distance)) = {} THEN -1
               ELSE Position(task, distance) + Offset
     IN \/ \E a \in Anchors : /\ \A b \in Anchors : Abs(a - at) <= Abs(b - at)
                              /\ AdjustData(Travelled(a))
        \/ Anchors = {} /\ distance' = distance
  /\ UNCHANGED <<task, speed, update, isAdjust, pre>>

\* Mutant of EndOfImage: how far the pole is does not matter.
EndOfImageAnywhere ==
  IF Abs(distance - pre) \in (Near + 1)..(Far - 1) /\ SelectLineData(Position(task, distance)) # {}
  THEN \E p \in SelectLineData(Position(task, distance)) :
         AdjustData(task.dir * (p - task.start + distance - pre))
  ELSE distance' = distance

\* A pole was in the image for a plausible distance: the position becomes that
\* of the pole plus this distance, if the pole is near.
EndOfImage ==
  LET near == {p \in SelectLineData(Position(task, distance)) :
                 Abs(Position(task, distance) + Offset - p) < SpanPart}
  IN IF Abs(distance - pre) \in (Near + 1)..(Far - 1) /\ near # {}
     THEN \E p \in near : AdjustData(task.dir * (p - task.start + distance - pre))
     ELSE distance' = distance

\* recvImageData: a reading that does not fit the state, or comes without a
\* task, changes nothing; the statics outlive the task.
RecvImageData(img) ==
  /\ IF task.run /\ img # isAdjust
     THEN /\ isAdjust' = img
          /\ IF img THEN pre' = distance /\ distance' = distance
             ELSE EndOfImage /\ pre' = 0
     ELSE UNCHANGED <<distance, isAdjust, pre>>
  /\ UNCHANGED <<task, speed, update>>

Next == \/ NotifyTask \/ (\E v \in {0, 1} : RecvSpeedDisData(v))
        \/ UpdateRead \/ UpdateWrite
        \/ RecvMaoDuanData
        \/ \E at \in Poles : RecvRfidData(at) \/ RecvHandData(at) \/ RecvMvbData(at)

-----------------------------------------------------------------------------
\* Where the line has a pole ahead, the pole of a position is the one behind it
\* or, when that is nearer, the last one of the line; at a pole it is that pole
\* or the last one (RoughPositionBase.cpp:83-132: "数据库会查到前一个杆").
PoleBehindOrLast ==
  task.run =>
    LET at == Position(task, distance)
        found == SelectLineData(at)
        last == Highest(Poles)
    IN /\ \A p, q \in found : p = q
       /\ at \in Poles /\ found # {} => found = {at} \/ found = last
       /\ \A p \in found \ last : p <= at + Offset /\ \A q \in Poles : q <= p \/ q >= at + Offset
=============================================================================
