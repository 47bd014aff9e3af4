---------------------------- MODULE ArcDetector ----------------------------
(***************************************************************************)
(* modules/arc_service and kits/thrid_devices/arc_kits/dwcarcuv: voltages   *)
(* above a threshold are an arc, counted until one below it comes more than *)
(* 100 ms after the first; the arc then is a row, which a task of the pool  *)
(* inserts with all others that wait.  The service has one detector and     *)
(* connects it once for each device of its configuration, so that each      *)
(* voltage is handled as often.                                             *)
(*                                                                          *)
(* The voltages are handled on one thread, whose context is a thread_local. *)
(* The mutex makes the append of a row and the work of a task one step each.*)
(* Pulses, names and times of a row are left out.                           *)
(***************************************************************************)
EXTENDS Integers, Sequences

CONSTANTS Voltages, Threshold,
          Devices,       \* in the configuration, that is connections
          TimeoutTicks,  \* kArcTimeoutMs
          MaxVoltages    \* bound

ArcAssumption == /\ Voltages \subseteq Int /\ Threshold \in Int
                 /\ {Devices, TimeoutTicks, MaxVoltages} \subseteq Nat

VARIABLES due,           \* voltages to be handled, in order
          ctx,           \* [known, inProgress, arcCount] of ArcEventContext
          age,           \* since its startTime, up to one more than the timeout
          submit,        \* between the append of a row and runTask
          m_arc_Vector,  \* rows [number, arccount]
          tasks,         \* in the pool
          stored, lost,  \* rows inserted, and cleared although not inserted
          kept,          \* an exception left the rows where they are
          told           \* [all, arcs]: voltages received, and those above the threshold

arcVars == <<due, ctx, age, submit, m_arc_Vector, tasks, stored, lost, kept, told>>

NoEvent == [known |-> TRUE, inProgress |-> FALSE, arcCount |-> 0]

Init == /\ due = <<>> /\ ctx = [NoEvent EXCEPT !.known = FALSE] /\ age = 0 /\ submit = FALSE
        /\ m_arc_Vector = <<>> /\ tasks = 0 /\ stored = <<>> /\ lost = <<>> /\ kept = FALSE
        /\ told = [all |-> 0, arcs |-> <<>>]

CheckArcOccurrence(v) == v > Threshold

\* sendDWCVoltage reaches the detector by each of the connections.
OnVoltageReceived(v) ==
  /\ told.all < MaxVoltages
  /\ due' = due \o [k \in 1..Devices |-> v]
  /\ told' = [all |-> told.all + 1,
              arcs |-> IF CheckArcOccurrence(v) THEN Append(told.arcs, told.all + 1) ELSE told.arcs]
  /\ UNCHANGED <<ctx, age, submit, m_arc_Vector, tasks, stored, lost, kept>>

Tick == /\ age <= TimeoutTicks /\ ctx.inProgress /\ age' = age + 1
        /\ UNCHANGED <<due, ctx, submit, m_arc_Vector, tasks, stored, lost, kept, told>>

-----------------------------------------------------------------------------
(* updateArcStatistics of the next voltage.                                 *)

Handle == /\ ~submit /\ due # <<>> /\ due' = Tail(due)
          /\ UNCHANGED <<tasks, stored, lost, kept, told>>

NoRow == UNCHANGED <<submit, m_arc_Vector>>

\* The first call only sets the voltage to compare with.
FirstVoltage == /\ Handle /\ ~ctx.known /\ ctx' = NoEvent /\ UNCHANGED age /\ NoRow

BeginArc == /\ Handle /\ ctx.known /\ CheckArcOccurrence(Head(due)) /\ ~ctx.inProgress
            /\ ctx' = [ctx EXCEPT !.inProgress = TRUE, !.arcCount = 1]
            /\ age' = 0 /\ NoRow

ContinueArc == /\ Handle /\ CheckArcOccurrence(Head(due)) /\ ctx.inProgress
               /\ ctx' = [ctx EXCEPT !.arcCount = @ + 1]
               /\ UNCHANGED age /\ NoRow

\* An arc that is shorter than the timeout is not ended: what follows adds to it.
NotEnded == /\ Handle /\ ctx.known /\ ~CheckArcOccurrence(Head(due))
            /\ ctx.inProgress => age <= TimeoutTicks
            /\ UNCHANGED <<ctx, age>> /\ NoRow

\* Mutant of AfterEvent: the next event goes on with the count of this one.
AfterEventCounted == [ctx EXCEPT !.inProgress = FALSE]

AfterEvent == NoEvent

EndArc == /\ Handle /\ ~CheckArcOccurrence(Head(due)) /\ ctx.inProgress /\ age > TimeoutTicks
          /\ m_arc_Vector' = Append(m_arc_Vector,
                [number |-> Len(stored) + Len(lost) + Len(m_arc_Vector) + 1, arccount |-> ctx.arcCount])
          /\ submit' = TRUE /\ ctx' = AfterEvent /\ age' = 0

\* WriteDataToDatabase.
RunTask == /\ submit /\ submit' = FALSE /\ tasks' = tasks + 1
           /\ UNCHANGED <<due, ctx, age, m_arc_Vector, stored, lost, kept, told>>

-----------------------------------------------------------------------------
(* A task inserts all rows; it clears them too when the insert says no.     *)

Task == /\ tasks > 0 /\ tasks' = tasks - 1
        /\ UNCHANGED <<due, ctx, age, submit, told>>

NoRows == Task /\ m_arc_Vector = <<>> /\ UNCHANGED <<m_arc_Vector, stored, lost, kept>>

\* Mutant of Cleared: the rows stay when they were inserted.
ClearedNot == m_arc_Vector' = m_arc_Vector /\ kept' = kept

Cleared == m_arc_Vector' = <<>> /\ kept' = FALSE

Insert == Task /\ m_arc_Vector # <<>> /\ stored' = stored \o m_arc_Vector /\ Cleared /\ UNCHANGED lost

InsertRefused == Task /\ m_arc_Vector # <<>> /\ lost' = lost \o m_arc_Vector /\ Cleared /\ UNCHANGED stored

InsertThrows == Task /\ m_arc_Vector # <<>> /\ kept' = TRUE /\ UNCHANGED <<m_arc_Vector, stored, lost>>

Next == \/ \E v \in Voltages : OnVoltageReceived(v)
        \/ Tick \/ FirstVoltage \/ BeginArc \/ ContinueArc \/ NotEnded \/ EndArc
        \/ RunTask \/ NoRows \/ Insert \/ InsertRefused \/ InsertThrows

Spec == Init /\ [][Next]_arcVars

-----------------------------------------------------------------------------
Rows == stored \o lost \o m_arc_Vector

\* The first voltage is lost when it is an arc: its first handling begins none.
Dropped == IF told.arcs # <<>> /\ told.arcs[1] = 1 THEN 1 ELSE 0

\* Every voltage above the threshold is counted in one arc, as often as there are
\* devices, except that the first is handled once for nothing
\* (arcuv_service.cpp:39-73, dwcarcuv.cpp:60-117).
ArcsCounted ==
  due = <<>> /\ told.all > 0 /\ Devices > 0 =>
    LET counted[n \in 0..Len(Rows)] == IF n = 0 THEN ctx.arcCount
                                       ELSE counted[n - 1] + Rows[n].arccount
    IN counted[Len(Rows)] = Devices * Len(told.arcs) - Dropped

\* A row is stored or lost once, and what waits has a task that takes it, unless
\* the insert before threw (dwcarcuv.cpp:119-168).
RowsTakenOnce ==
  /\ \A i, j \in DOMAIN Rows : Rows[i].number = Rows[j].number => i = j
  /\ m_arc_Vector # <<>> => tasks > 0 \/ submit \/ kept
=============================================================================
