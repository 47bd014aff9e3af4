---------------------------- MODULE RadarService ----------------------------
(***************************************************************************)
(* modules/radar_online: three threads that test the current task, a        *)
(* ThreadPool that drops old work, and RadarRecord, whose rows wait in two  *)
(* queues until there are Batch of them, are swapped into a ready buffer    *)
(* and are written by a task of the ConcurrentPool.                         *)
(*                                                                          *)
(* A scan is the number under which it was queued; an overrun that ended is *)
(* named by the scan that showed its end.  A task is the number of its      *)
(* notification, 0 is the -1 of the code.  A row is a record of its kind,   *)
(* its scan and the task that is written with it.                           *)
(***************************************************************************)
EXTENDS Integers, SequencesExt

CONSTANTS Workers,    \* threads of m_threadPool
          Cap,        \* tasks that stay queued when a worker takes one
          Batch,      \* m_maxMemorySize
          MaxScans,   \* bound: scans recorded
          MaxTasks    \* bound: tasks told

RadarAssumption == /\ {Cap, MaxScans, MaxTasks} \subseteq Nat
                   /\ Batch \in Nat \ {0}

VARIABLES told,      \* tasks told so far
          task,      \* m_task_info.nTaskID
          mb_stop,   \* the three threads leave their loops
          taken,     \* the task that was the latest when each scan was queued
          queues,    \* m_queue_device_data_normal and _overrun
          tasks,     \* the queue of m_threadPool
          pc, row,   \* of each worker: what it does next, the row in its hands
          active,    \* m_buffer.normal_active and over_active
          count,     \* m_currentMemorySize
          batch,     \* of each worker: normalBatch and overBatch
          ready,     \* m_buffer.normal_ready and over_ready
          posted,    \* tasks of ConcurrentPool that write a kind of rows
          stored     \* rows in the database

service == <<told, task, mb_stop, taken, queues>>
buffers == <<active, count, batch, ready, posted, stored>>
radarVars == <<service, tasks, pc, row, buffers>>

Kinds   == {"normal", "over"}
NoRows  == [k \in Kinds |-> <<>>]
NoRow   == [kind |-> "reload", scan |-> 0, task |-> 0]

Init == /\ told = 0 /\ task = 0 /\ mb_stop = FALSE
        /\ taken = <<>> /\ queues = NoRows /\ tasks = <<>>
        /\ pc = [w \in Workers |-> "idle"] /\ row = [w \in Workers |-> NoRow]
        /\ active = NoRows /\ count = 0
        /\ batch = [w \in Workers |-> NoRows]
        /\ ready = NoRows /\ posted = [k \in Kinds |-> 0]
        /\ stored = {}

\* Mutant of NotifyTask: a task that runs is not replaced.
NotifyTaskKept == /\ \/ told < MaxTasks /\ told' = told + 1 /\ task' = IF task = 0 THEN told + 1 ELSE task
                     \/ task # 0 /\ task' = 0 /\ told' = told
                  /\ UNCHANGED <<mb_stop, taken, queues, tasks, pc, row, buffers>>

\* A running task is copied, one that stopped clears the record.
NotifyTask == /\ \/ told < MaxTasks /\ told' = told + 1 /\ task' = told + 1
                 \/ task # 0 /\ task' = 0 /\ told' = told
              /\ UNCHANGED <<mb_stop, taken, queues, tasks, pc, row, buffers>>

\* Each of the three threads skips its turn while there is no task.
Turn == ~mb_stop /\ task # 0

\* _sqlRecord: with a position and enough points the scan goes to both queues.
SqlRecord ==
  /\ Turn /\ Len(taken) < MaxScans
  /\ taken' = Append(taken, told)
  /\ queues' = [k \in Kinds |-> Append(queues[k], Len(taken) + 1)]
  /\ UNCHANGED <<told, task, mb_stop, tasks, pc, row, buffers>>

Pop(k) == /\ Turn /\ queues[k] # <<>>
          /\ queues' = [queues EXCEPT ![k] = Tail(@)]
          /\ UNCHANGED <<told, task, mb_stop, taken, pc, row, buffers>>

Enqueue(kind, scan) == tasks' = Append(tasks, [kind |-> kind, scan |-> scan])

\* _deviceDataNormal: each scan is recorded by the pool; the task goes along
\* as a reference.
DeviceDataNormal == Pop("normal") /\ Enqueue("normal", Head(queues["normal"]))

\* _deviceDataOverrun: a scan that is not the first may show the end of an
\* overrun, which is recorded by the pool (RadarOverrun models isOverrun).
DeviceDataOverrun ==
  /\ Pop("over")
  /\ \/ tasks' = tasks
     \/ Head(queues["over"]) > 1 /\ Enqueue("over", Head(queues["over"]))

\* A device that is offline is reloaded by the pool.  ReloadDevice is empty: all
\* it can do is to displace what is queued (bound: only when it does).
OnTimerRestart == /\ Len(tasks) = Cap + 1
                  /\ Enqueue("reload", 0)
                  /\ UNCHANGED <<service, pc, row, buffers>>

\* stop() joins the threads; the pool goes on with what is queued.
Stop == /\ ~mb_stop /\ mb_stop' = TRUE
        /\ UNCHANGED <<told, task, taken, queues, tasks, pc, row, buffers>>

-----------------------------------------------------------------------------
Go(w, from, to) == pc[w] = from /\ pc' = [pc EXCEPT ![w] = to]

\* A worker takes a task and drops the oldest beyond Cap.
TakeTask(w) ==
  /\ tasks # <<>>
  /\ LET rest == Tail(tasks)
     IN tasks' = IF Len(rest) > Cap THEN SubSeq(rest, Len(rest) - Cap + 1, Len(rest)) ELSE rest
  /\ Go(w, "idle", IF Head(tasks).kind = "reload" THEN "idle" ELSE "call")
  /\ row' = [row EXCEPT ![w] = [kind |-> Head(tasks).kind, scan |-> Head(tasks).scan, task |-> 0]]
  /\ UNCHANGED <<service, buffers>>

\* The call of OnRecordRadar or OnRecordOverrun reads the id.
Call(w) == /\ Go(w, "call", "push")
           /\ row' = [row EXCEPT ![w].task = task]
           /\ UNCHANGED <<service, tasks, buffers>>

WriteBatchToVector(w) ==
  /\ Go(w, "push", "test")
  /\ row' = [row EXCEPT ![w] = NoRow]
  /\ active' = [active EXCEPT ![row[w].kind] = Append(@, row[w])]
  /\ count' = count + 1
  /\ UNCHANGED <<service, tasks, batch, ready, posted, stored>>

\* CheckMemorySizeAndWriteToDatabase: the count, which another worker may test
\* before it is reset; the rows, one by one; the swap; the look at the buffers.
TestCount(w) == /\ Go(w, "test", IF count < Batch THEN "idle" ELSE "reset")
                /\ UNCHANGED <<service, tasks, row, buffers>>

ResetCount(w) == /\ Go(w, "reset", "drain")
                 /\ count' = 0
                 /\ UNCHANGED <<service, tasks, row, active, batch, ready, posted, stored>>

Drain(w) ==
  /\ pc[w] = "drain"
  /\ \E k \in Kinds :
       /\ active[k] # <<>>
       /\ k = "over" => active["normal"] = <<>>
       /\ active' = [active EXCEPT ![k] = Tail(@)]
       /\ batch' = [batch EXCEPT ![w][k] = Append(@, Head(active[k]))]
  /\ UNCHANGED <<service, tasks, pc, row, count, ready, posted, stored>>

\* What was in the ready buffers comes back and is destroyed with the locals.
Swap(w) == /\ active = NoRows
           /\ Go(w, "drain", "look")
           /\ ready' = batch[w]
           /\ batch' = [batch EXCEPT ![w] = NoRows]
           /\ UNCHANGED <<service, tasks, row, active, count, posted, stored>>

\* Mutant of WriteDataToDatabase: rows of both kinds are waited for.
WriteBothOrNone(w) ==
  /\ Go(w, "look", "idle")
  /\ posted' = [k \in Kinds |-> posted[k] + IF ready["normal"] # <<>> /\ ready["over"] # <<>> THEN 1 ELSE 0]
  /\ UNCHANGED <<service, tasks, row, active, count, batch, ready, stored>>

\* One task is posted for each kind that has rows, as another worker may just
\* have left them: the buffers are tested without the lock.
WriteDataToDatabase(w) ==
  /\ Go(w, "look", "idle")
  /\ posted' = [k \in Kinds |-> posted[k] + IF ready[k] = <<>> THEN 0 ELSE 1]
  /\ UNCHANGED <<service, tasks, row, active, count, batch, ready, stored>>

\* Mutant of WriteBatch: the rows are copied out of the buffer.
WriteBatchCopied(k) ==
  /\ posted[k] > 0
  /\ posted' = [posted EXCEPT ![k] = @ - 1]
  /\ stored' \in {stored, stored \cup ToSet(ready[k])}
  /\ UNCHANGED <<service, tasks, pc, row, active, count, batch, ready>>

\* The posted task moves the rows out and inserts them, or fails.
WriteBatch(k) ==
  /\ posted[k] > 0
  /\ posted' = [posted EXCEPT ![k] = @ - 1]
  /\ ready' = [ready EXCEPT ![k] = <<>>]
  /\ stored' \in {stored, stored \cup ToSet(ready[k])}
  /\ UNCHANGED <<service, tasks, pc, row, active, count, batch>>

Next == \/ NotifyTask \/ SqlRecord \/ DeviceDataNormal \/ DeviceDataOverrun
        \/ OnTimerRestart \/ Stop
        \/ \E w \in Workers : \/ TakeTask(w) \/ Call(w) \/ WriteBatchToVector(w)
                              \/ TestCount(w) \/ ResetCount(w) \/ Drain(w) \/ Swap(w)
                              \/ WriteDataToDatabase(w)
        \/ \E k \in Kinds : WriteBatch(k)

Spec == Init /\ [][Next]_radarVars

-----------------------------------------------------------------------------
Buffers == {active, ready} \cup {batch[w] : w \in Workers}
Known   == stored \cup UNION {ToSet(q[k]) : q \in Buffers, k \in Kinds}

\* Where a row is: in a queue, a local batch, a ready buffer, the database.
InQueue(q, r) == {i \in DOMAIN q[r.kind] : q[r.kind][i] = r}
Places(r) == ({"active"} \X InQueue(active, r)) \cup ({"ready"} \X InQueue(ready, r))
             \cup (UNION {{w} \X InQueue(batch[w], r) : w \in Workers})
             \cup ({"stored"} \X (stored \cap {r}))

\* Whatever the workers and the writers interleave (RadarRecord.cpp:81-163), a
\* scan and an overrun is recorded at most once, and no row is in two places.
RecordedOnce ==
  \A r \in Known : /\ \A p, q \in Places(r) : p = q
                   /\ \A s \in Known : r.kind = s.kind /\ r.scan = s.scan => r = s

\* Rows in a ready buffer are never forgotten there (:124-163): a task that
\* writes them is posted, or a worker is about to look at the buffers.
ReadyHasWriter ==
  \A k \in Kinds : ready[k] # <<>> => posted[k] > 0 \/ \E w \in Workers : pc[w] = "look"

\* A row names no task of before its scan (RadarService.cpp:416-425): the id is
\* read when the pool gets to the scan, so it is that of the scan's task, of a
\* later one, or none.
NoEarlierTask == \A r \in Known : r.task = 0 \/ r.task >= taken[r.scan]
=============================================================================
