-------------------------- MODULE TaskServiceProofs --------------------------
(***************************************************************************)
(* For any trains and any number of tasks, seconds and notifications: the   *)
(* modules save into the folder of the task they believe in, an online task *)
(* never replaces a running one, and a stop ends the row of the task that   *)
(* was announced and no other.                                              *)
(*                                                                          *)
(* For any number of workers, devices, frames and scans: no row of a scan   *)
(* is lost after it was taken for writing or written twice, and none has    *)
(* the name of an earlier task; a scan is of one frame of each device, and  *)
(* all of it, unless a frame was replaced while it was put together.        *)
(***************************************************************************)
EXTENDS MCTaskService, TLAPS

-----------------------------------------------------------------------------
(* The service of the tasks and a module that it notifies.                  *)

\* A task that a module may be told of: when it runs, its folder exists.
HasFolder(x) == x.state = "running" => x.path \in folders /\ x.path = x.name

\* What was told and what the service knows differ only after a failed start,
\* which leaves the id of the task before it and the flag set.
ToldCurrent ==
  /\ ~started => told.task.state = "stopped"
  /\ current.id # 0 => told.task.state = "running" /\ told.task.id = current.id

\* A row of task_data.
Row == [name : Names, end : (0..MaxClock) \cup {None}]

TaskInv == /\ TypeOK
           /\ rows \in Seq(Row)
           /\ Len(rows) <= MaxRows
           /\ queue \in Seq(TaskSet)
           /\ ToldCurrent
           /\ RunningTaskHasFolder
           /\ \A i \in DOMAIN queue : HasFolder(queue[i])

\* A row of the table has the fields of the table.
LEMMA RowFields ==
  ASSUME NEW table \in Seq(Row), NEW i \in DOMAIN table
  PROVE  table[i].name \in Names /\ table[i].end \in (0..MaxClock) \cup {None}
<1>1. table[i] \in Row
  OBVIOUS
<1> QED
  BY <1>1 DEF Row

\* The service starts with no task, no row and no notification.
LEMMA TaskInit == Init => TaskInv
<1> SUFFICES ASSUME Init PROVE TaskInv
  OBVIOUS
<1>1. NoTask \in TaskSet /\ NoTask.state = "stopped" /\ NoTask.id = 0
  BY TaskAssumption DEF NoTask, TaskSet
<1>2. TypeOK
  <2>1. Len(rows) = 0 /\ DOMAIN rows = {} /\ DOMAIN queue = {}
    BY DEF Init
  <2>2. 0 \in 0..MaxClock /\ 0 <= Len(rows)
    BY <2>1, TaskAssumption
  <2>3. current = NoTask /\ module = NoTask /\ told = [kind |-> "stop", task |-> NoTask]
        /\ clock = 0 /\ started = FALSE /\ folders = {}
    BY DEF Init
  <2>4. /\ clock \in 0..MaxClock /\ started \in BOOLEAN /\ current \in TaskSet /\ current.id <= Len(rows)
    BY <1>1, <2>2, <2>3
  <2>5. folders \subseteq Names /\ told.kind = "stop" /\ told.task \in TaskSet /\ module \in TaskSet
    BY <1>1, <2>3
  <2> QED
    BY <2>1, <2>4, <2>5 DEF TypeOK
<1>3. ToldCurrent /\ RunningTaskHasFolder
  BY <1>1 DEF Init, ToldCurrent, RunningTaskHasFolder
<1>4. /\ rows \in Seq(Row) /\ Len(rows) <= MaxRows
      /\ queue \in Seq(TaskSet) /\ \A i \in DOMAIN queue : HasFolder(queue[i])
  BY TaskAssumption DEF Init
<1> QED
  BY <1>2, <1>3, <1>4 DEF TaskInv

\* The rows after an insert: those before it, and perhaps one more.
LEMMA InsertRows ==
  ASSUME TaskInv, NEW name \in Names, Insert(name)
  PROVE  /\ rows' \in Seq(Row)
         /\ Len(rows) <= Len(rows') /\ Len(rows') <= MaxRows
         /\ \A i \in DOMAIN rows : rows'[i] = rows[i]
<1>1. CASE rows' = rows
  BY <1>1, TaskAssumption DEF TaskInv
<1>2. CASE Len(rows) < MaxRows /\ rows' = Append(rows, [name |-> name, end |-> None])
  <2>1. [name |-> name, end |-> None] \in Row
    BY DEF Row
  <2> QED
    BY <1>2, <2>1, TaskAssumption DEF TaskInv
<1> QED
  BY <1>1, <1>2 DEF Insert

\* A start, of whichever kind: it fails before or after the folder is made.
LEMMA StartStep ==
  ASSUME TaskInv, NEW kind \in {"online", "test"}, NEW name \in Names,
         StartTask(kind, name), started' = TRUE, UNCHANGED <<clock, module>>
  PROVE  TaskInv'
<1>1. TypeOK /\ ToldCurrent /\ RunningTaskHasFolder
  BY DEF TaskInv
<1>2. Insert(name)
  BY DEF StartTask
<1>3. /\ rows' \in Seq(Row)
      /\ Len(rows) <= Len(rows') /\ Len(rows') <= MaxRows
  BY <1>2, InsertRows
<1>4. Len(rows) \in Nat /\ Len(rows') \in Nat /\ DOMAIN rows' = 1..Len(rows')
  BY <1>3 DEF TaskInv
<1>5. \A i \in DOMAIN rows' : rows'[i].name \in Names /\ rows'[i].end \in (0..MaxClock) \cup {None}
  BY <1>3, RowFields
<1>6. CASE /\ current' = [current EXCEPT !.state = "running", !.name = name]
           /\ UNCHANGED <<folders, told, queue>>
  <2>1. current' \in TaskSet /\ current'.id = current.id
    BY <1>1, <1>6 DEF TypeOK, TaskSet
  <2>2. TypeOK'
    BY <1>1, <1>3, <1>4, <1>5, <1>6, <2>1, TaskAssumption DEF TypeOK, TaskSet
  <2>3. ToldCurrent'
    BY <1>1, <1>6, <2>1 DEF ToldCurrent
  <2>4. RunningTaskHasFolder'
    BY <1>1, <1>6 DEF RunningTaskHasFolder
  <2>5. queue' \in Seq(TaskSet) /\ \A i \in DOMAIN queue' : HasFolder(queue[i])'
    BY <1>6 DEF TaskInv, HasFolder
  <2> QED
    BY <1>3, <2>2, <2>3, <2>4, <2>5 DEF TaskInv
<1>7. CASE /\ folders' = folders \cup {name}
           /\ \E id \in {0} \cup FirstRow(rows', name) :
                 current' = [state |-> "running", name |-> name, path |-> name, id |-> id]
           /\ Notify(kind, current')
  <2>1. PICK id \in {0} \cup FirstRow(rows', name) :
             current' = [state |-> "running", name |-> name, path |-> name, id |-> id]
    BY <1>7
  <2>2. id \in 0..MaxRows /\ id <= Len(rows')
    BY <1>3, <1>4, <2>1, TaskAssumption DEF FirstRow, Named
  <2>3. current' \in TaskSet /\ current'.id <= Len(rows')
    BY <2>1, <2>2 DEF TaskSet
  <2>4. told' = [kind |-> kind, task |-> current']
    BY <1>7 DEF Notify
  <2>5. queue' \in Seq(TaskSet) /\ \A i \in DOMAIN queue' : HasFolder(queue[i])'
    <3>1. queue' = Append(queue, current')
      BY <1>7 DEF Notify
    <3>2. ASSUME NEW i \in DOMAIN queue' PROVE HasFolder(queue[i])'
      <4>1. CASE i = Len(queue) + 1
        BY <1>7, <2>1, <3>1, <4>1 DEF HasFolder, TaskInv
      <4>2. CASE i # Len(queue) + 1
        BY <1>7, <3>1, <4>2 DEF HasFolder, TaskInv
      <4> QED
        BY <4>1, <4>2
    <3> QED
      BY <2>3, <3>1, <3>2 DEF TaskInv
  <2>6. \A i \in DOMAIN queue' : queue'[i] \in TaskSet
    BY <2>5
  <2>7. TypeOK'
    BY <1>1, <1>5, <1>7, <2>3, <2>4, <2>6 DEF TypeOK
  <2>8. ToldCurrent' /\ RunningTaskHasFolder'
    BY <1>1, <1>7, <2>1, <2>4 DEF ToldCurrent, RunningTaskHasFolder
  <2> QED
    BY <1>3, <2>5, <2>7, <2>8 DEF TaskInv
<1> QED
  BY <1>6, <1>7 DEF StartTask

\* A stop: the end is written or not, and the record is cleared but for its path.
LEMMA StopStep ==
  ASSUME TaskInv, StopTask
  PROVE  TaskInv'
<1>1. TypeOK /\ ToldCurrent /\ RunningTaskHasFolder
  BY DEF TaskInv
<1>2. /\ rows' \in Seq(Row)
      /\ Len(rows') = Len(rows)
  <2>1. CASE rows' = rows
    BY <2>1 DEF TaskInv
  <2>2. CASE current.id # 0 /\ rows' = [rows EXCEPT ![current.id].end = clock]
    <3>1. current.id \in 1..Len(rows) /\ rows \in Seq(Row) /\ clock \in 0..MaxClock
      BY <1>1, <2>2 DEF TaskInv, TypeOK, TaskSet
    <3>2. [rows[current.id] EXCEPT !.end = clock] \in Row
      <4>1. rows[current.id] \in Row
        BY <3>1
      <4> QED
        BY <3>1, <4>1 DEF Row
    <3>3. rows' = [rows EXCEPT ![current.id] = [rows[current.id] EXCEPT !.end = clock]]
      BY <2>2
    <3> QED
      BY <3>1, <3>2, <3>3
  <2> QED
    BY <2>1, <2>2 DEF StopTask
<1>3. \A i \in DOMAIN rows' : rows'[i].name \in Names /\ rows'[i].end \in (0..MaxClock) \cup {None}
  BY <1>2, RowFields
<1>4. current' \in TaskSet /\ current'.state = "stopped" /\ current'.id = 0
  BY <1>1, TaskAssumption DEF StopTask, NoTask, TypeOK, TaskSet
<1>5. /\ told' = [kind |-> "stop", task |-> current'] /\ queue' = Append(queue, current')
      /\ UNCHANGED <<clock, folders, module>> /\ started' = FALSE
  BY DEF StopTask, Notify
<1>6. queue' \in Seq(TaskSet)
  BY <1>4, <1>5 DEF TaskInv
<1>7. ASSUME NEW i \in DOMAIN queue' PROVE HasFolder(queue[i])'
  <2>1. CASE i = Len(queue) + 1
    BY <1>4, <1>5, <2>1 DEF HasFolder, TaskInv
  <2>2. CASE i # Len(queue) + 1
    BY <1>5, <2>2 DEF HasFolder, TaskInv
  <2> QED
    BY <2>1, <2>2
<1>8. current'.id <= Len(rows')
  BY <1>2, <1>4 DEF TaskInv
<1>9. \A i \in DOMAIN queue' : queue'[i] \in TaskSet
  BY <1>6
<1>10. TypeOK'
  BY <1>1, <1>3, <1>4, <1>5, <1>8, <1>9 DEF TypeOK
<1>11. ToldCurrent' /\ RunningTaskHasFolder'
  BY <1>1, <1>4, <1>5 DEF ToldCurrent, RunningTaskHasFolder
<1>12. Len(rows') <= MaxRows
  BY <1>2 DEF TaskInv
<1> QED
  BY <1>2, <1>6, <1>7, <1>10, <1>11, <1>12 DEF TaskInv

\* A notification is handled: the module learns of a task whose folder exists.
LEMMA NotifyTaskStep ==
  ASSUME TaskInv, NotifyTask
  PROVE  TaskInv'
<1>1. TypeOK /\ ToldCurrent /\ RunningTaskHasFolder /\ queue \in Seq(TaskSet)
  BY DEF TaskInv
<1>2. /\ Head(queue) \in TaskSet /\ HasFolder(Head(queue))
      /\ queue' = Tail(queue) /\ queue' \in Seq(TaskSet)
  BY <1>1 DEF NotifyTask, TaskInv
<1>3. ASSUME NEW i \in DOMAIN queue' PROVE HasFolder(queue[i])'
  <2>1. i + 1 \in DOMAIN queue /\ queue'[i] = queue[i + 1]
    BY <1>1, <1>2 DEF NotifyTask
  <2> QED
    BY <2>1 DEF TaskInv, HasFolder, NotifyTask
<1>4. /\ module' = IF Head(queue).state = "running" THEN Head(queue)
                   ELSE [module EXCEPT !.state = "stopped"]
      /\ UNCHANGED <<clock, started, current, rows, folders, told>>
  BY DEF NotifyTask
<1>5. module' \in TaskSet
  BY <1>1, <1>2, <1>4 DEF TypeOK, TaskSet
<1>6. RunningTaskHasFolder'
  BY <1>1, <1>2, <1>4 DEF RunningTaskHasFolder, HasFolder, TypeOK, TaskSet
<1>7. \A i \in DOMAIN queue' : queue'[i] \in TaskSet
  BY <1>2
<1>8. TypeOK' /\ ToldCurrent'
  BY <1>1, <1>4, <1>5, <1>7 DEF TypeOK, ToldCurrent
<1> QED
  BY <1>2, <1>3, <1>4, <1>6, <1>8 DEF TaskInv

\* One step per request, and that of the module that is notified.
LEMMA TaskStep == TaskInv /\ [Next]_vars => TaskInv'
<1> SUFFICES ASSUME TaskInv, [Next]_vars PROVE TaskInv'
  OBVIOUS
<1>1. CASE Tick
  <2>1. TypeOK'
    BY <1>1, TaskAssumption DEF Tick, TaskInv, TypeOK
  <2> QED
    BY <1>1, <2>1 DEF Tick, TaskInv, ToldCurrent, RunningTaskHasFolder, HasFolder
<1>2. ASSUME NEW train \in Trains, CreateOnlineTask(train) PROVE TaskInv'
  <2>1. <<train, clock>> \in Names
    BY DEF TaskInv, TypeOK, Names
  <2> QED
    BY <1>2, <2>1, StartStep DEF CreateOnlineTask
<1>3. ASSUME NEW train \in Trains, CreateTestTaskData(train) PROVE TaskInv'
  <2>1. <<train, clock>> \in Names
    BY DEF TaskInv, TypeOK, Names
  <2> QED
    BY <1>3, <2>1, StartStep DEF CreateTestTaskData
<1>4. CASE StopTask
  BY <1>4, StopStep
<1>5. CASE NotifyTask
  BY <1>5, NotifyTaskStep
<1>6. CASE UNCHANGED vars
  BY <1>6 DEF vars, TaskInv, TypeOK, ToldCurrent, RunningTaskHasFolder, HasFolder
<1> QED
  BY <1>1, <1>2, <1>3, <1>4, <1>5, <1>6 DEF Next

\* What the four theorems below follow from.
LEMMA TaskInvariant == Spec => []TaskInv
<1> QED
  BY TaskInit, TaskStep, PTL DEF Spec

\* The record of the task, the rows, the folders and the notifications keep
\* their types, and every id is the position of a row.
THEOREM TaskTypeCorrect == Spec => []TypeOK
<1>1. TaskInv => TypeOK
  BY DEF TaskInv
<1> QED
  BY <1>1, TaskInvariant, PTL

\* A module that believes in a running task saves into its folder, and the
\* folder exists.
THEOREM TaskRunningHasFolder == Spec => []RunningTaskHasFolder
<1>1. TaskInv => RunningTaskHasFolder
  BY DEF TaskInv
<1> QED
  BY <1>1, TaskInvariant, PTL

\* An online task is announced only after a stop was.
THEOREM TaskOnlineAfterStop == Spec => OnlineAfterStop
<1>1. TaskInv /\ [Next]_vars
      => [told' # told /\ told'.kind = "online" => told.task.state = "stopped"]_vars
  <2> SUFFICES ASSUME TaskInv, [Next]_vars, told' # told, told'.kind = "online"
               PROVE  told.task.state = "stopped"
    OBVIOUS
  <2>1. CASE \E train \in Trains : CreateOnlineTask(train)
    BY <2>1 DEF CreateOnlineTask, TaskInv, ToldCurrent
  <2>2. CASE \E train \in Trains : CreateTestTaskData(train)
    BY <2>2 DEF CreateTestTaskData, StartTask, Notify
  <2>3. CASE StopTask
    BY <2>3 DEF StopTask, Notify
  <2>4. CASE Tick \/ NotifyTask \/ UNCHANGED vars
    BY <2>4 DEF Tick, NotifyTask, vars
  <2> QED
    BY <2>1, <2>2, <2>3, <2>4 DEF Next
<1> QED
  BY <1>1, TaskInvariant, PTL DEF Spec, OnlineAfterStop

\* A stop writes the end of the row of the task that was announced, and no
\* step writes any other end.
THEOREM TaskStopEndsTold == Spec => StopEndsToldTask
<1>1. TaskInv /\ [Next]_vars
      => [\A i \in DOMAIN rows : rows'[i].end # rows[i].end
                                  => told.task.state = "running" /\ told.task.id = i]_vars
  <2> SUFFICES ASSUME TaskInv, [Next]_vars, NEW i \in DOMAIN rows, rows'[i].end # rows[i].end
               PROVE  told.task.state = "running" /\ told.task.id = i
    OBVIOUS
  <2>1. ASSUME NEW train \in Trains, CreateOnlineTask(train) \/ CreateTestTaskData(train)
        PROVE  FALSE
    <3>1. <<train, clock>> \in Names /\ Insert(<<train, clock>>)
      BY <2>1 DEF TaskInv, TypeOK, Names, CreateOnlineTask, CreateTestTaskData, StartTask
    <3> QED
      BY <3>1, InsertRows
  <2>2. CASE StopTask
    BY <2>2 DEF StopTask, TaskInv, ToldCurrent
  <2>3. CASE Tick \/ NotifyTask \/ UNCHANGED vars
    BY <2>3 DEF Tick, NotifyTask, vars
  <2> QED
    BY <2>1, <2>2, <2>3 DEF Next
<1> QED
  BY <1>1, TaskInvariant, PTL DEF Spec, StopEndsToldTask

-----------------------------------------------------------------------------
(* The rows of scans, from the queues to the database.                     *)

\* Rows of a kind that name no task of before their scan.
RowsOf(k, scans) == {r \in [kind : {k}, scan : 1..Len(scans), task : Nat] :
                       r.task = 0 \/ r.task >= scans[r.scan]}

PoolTask == [kind : R!Kinds \cup {"reload"}, scan : Nat]
WorkerSteps == {"idle", "call", "push", "test", "reset", "drain", "look"}

RadarType ==
  /\ toldScans \in Nat /\ task \in {0, toldScans}
  /\ taken \in Seq(Nat) /\ \A i \in DOMAIN taken : taken[i] <= toldScans
  /\ queues \in [R!Kinds -> Seq(1..Len(taken))]
  /\ tasks \in Seq(PoolTask)
  /\ \A i \in DOMAIN tasks : tasks[i].kind # "reload" => tasks[i].scan \in 1..Len(taken)
  /\ pc \in [Workers -> WorkerSteps]
  /\ row \in [Workers -> [kind : R!Kinds \cup {"reload"}, scan : Nat, task : Nat]]
  /\ \A w \in Workers : pc[w] = "call" => row[w].kind \in R!Kinds /\ row[w].scan \in 1..Len(taken)
  /\ \A w \in Workers : pc[w] = "push" => \E k \in R!Kinds : row[w] \in RowsOf(k, taken)
  /\ posted \in [R!Kinds -> Nat]

\* The rows that are in the buffers and in the database.
BufferType ==
  /\ active \in [R!Kinds -> Seq(UNION {RowsOf(k, taken) : k \in R!Kinds})]
  /\ ready \in [R!Kinds -> Seq(UNION {RowsOf(k, taken) : k \in R!Kinds})]
  /\ batch \in [Workers -> [R!Kinds -> Seq(UNION {RowsOf(k, taken) : k \in R!Kinds})]]
  /\ \A k \in R!Kinds :
       /\ active[k] \in Seq(RowsOf(k, taken)) /\ ready[k] \in Seq(RowsOf(k, taken))
       /\ \A w \in Workers : batch[w][k] \in Seq(RowsOf(k, taken))
  /\ stored \subseteq UNION {RowsOf(k, taken) : k \in R!Kinds}

\* The scans of a kind that are in a queue, and that each of them is there once.
ScansOf(s, k) == {s[i].scan : i \in {j \in DOMAIN s : s[j].kind = k}}
Single(s) == \A i, j \in DOMAIN s :
               s[i].kind = s[j].kind /\ s[i].kind # "reload" /\ s[i].scan = s[j].scan => i = j

\* Where a scan can be on its way.
Spots == ({"queue", "pool", "active", "ready", "stored"} \X {0}) \cup ({"hand", "batch"} \X Workers)

Waiting(k)   == {queues[k][i] : i \in DOMAIN queues[k]}
InHand(k, w) == IF pc[w] \in {"call", "push"} /\ row[w].kind = k THEN {row[w].scan} ELSE {}
InStore(k)   == {r.scan : r \in {s \in stored : s.kind = k}}

At(k, p) == CASE p[1] = "queue"  -> Waiting(k)
              [] p[1] = "pool"   -> ScansOf(tasks, k)
              [] p[1] = "hand"   -> InHand(k, p[2])
              [] p[1] = "active" -> ScansOf(active[k], k)
              [] p[1] = "batch"  -> ScansOf(batch[p[2]][k], k)
              [] p[1] = "ready"  -> ScansOf(ready[k], k)
              [] p[1] = "stored" -> InStore(k)

\* No scan of a kind is in two of them.
Apart(k) == \A p, q \in Spots : p # q => At(k, p) \cap At(k, q) = {}

ScansOnce ==
  /\ Single(tasks)
  /\ \A k \in R!Kinds :
       /\ \A i, j \in DOMAIN queues[k] : queues[k][i] = queues[k][j] => i = j
       /\ Single(active[k]) /\ Single(ready[k]) /\ \A w \in Workers : Single(batch[w][k])
       /\ Apart(k)
  /\ \A r, s \in stored : r.kind = s.kind /\ r.scan = s.scan => r = s

RadarInv == RadarType /\ BufferType /\ ScansOnce /\ R!ReadyHasWriter

LEMMA KindsAre == R!Kinds = {"normal", "over"} /\ "reload" \notin R!Kinds
BY DEF R!Kinds

\* The head of a queue is not in its tail.
LEMMA TailOnce ==
  ASSUME NEW T, NEW s \in Seq(T), s # <<>>, Single(s)
  PROVE  /\ Tail(s) \in Seq(T) /\ Single(Tail(s)) /\ Head(s) \in T
         /\ \A k : ScansOf(Tail(s), k) \subseteq ScansOf(s, k)
         /\ Head(s).scan \in ScansOf(s, Head(s).kind)
         /\ Head(s).kind # "reload" => Head(s).scan \notin ScansOf(Tail(s), Head(s).kind)
<1>1. /\ Tail(s) \in Seq(T) /\ Len(s) \in Nat /\ Len(s) > 0 /\ DOMAIN s = 1..Len(s)
      /\ DOMAIN Tail(s) = 1..(Len(s) - 1)
      /\ \A i \in 1..(Len(s) - 1) : Tail(s)[i] = s[i + 1] /\ i + 1 \in 1..Len(s)
      /\ Head(s) = s[1] /\ Head(s) \in T
  OBVIOUS
<1>2. Single(Tail(s))
  BY <1>1 DEF Single
<1>3. \A k : ScansOf(Tail(s), k) \subseteq ScansOf(s, k)
  BY <1>1 DEF ScansOf
<1>4. 1 \in DOMAIN s
  BY <1>1
<1>5. Head(s).scan \in ScansOf(s, Head(s).kind)
  BY <1>1, <1>4 DEF ScansOf
<1>6. ASSUME Head(s).kind # "reload", Head(s).scan \in ScansOf(Tail(s), Head(s).kind) PROVE FALSE
  <2>1. PICK i \in DOMAIN Tail(s) : Tail(s)[i].kind = Head(s).kind /\ Tail(s)[i].scan = Head(s).scan
    BY <1>6 DEF ScansOf
  <2>2. s[i + 1].kind = s[1].kind /\ s[i + 1].scan = s[1].scan /\ i + 1 \in DOMAIN s /\ i + 1 # 1
    BY <2>1, <1>1
  <2> QED
    BY <2>2, <1>1, <1>4, <1>6 DEF Single
<1> QED
  BY <1>1, <1>2, <1>3, <1>5, <1>6

\* What is appended is new.
LEMMA AppendOnce ==
  ASSUME NEW T, NEW s \in Seq(T), NEW r \in T, Single(s),
         r.kind = "reload" \/ r.scan \notin ScansOf(s, r.kind)
  PROVE  /\ Append(s, r) \in Seq(T) /\ Single(Append(s, r))
         /\ \A k : ScansOf(Append(s, r), k) = IF r.kind = k THEN ScansOf(s, k) \cup {r.scan}
                                              ELSE ScansOf(s, k)
<1>1. /\ Append(s, r) \in Seq(T) /\ Len(s) \in Nat /\ DOMAIN s = 1..Len(s)
      /\ DOMAIN Append(s, r) = 1..(Len(s) + 1)
      /\ \A i \in 1..Len(s) : Append(s, r)[i] = s[i]
      /\ Append(s, r)[Len(s) + 1] = r
  OBVIOUS
<1>2. \A i \in DOMAIN s : s[i].kind = r.kind /\ r.kind # "reload" => s[i].scan # r.scan
  BY DEF ScansOf
<1>3. Single(Append(s, r))
  BY <1>1, <1>2 DEF Single
<1>4. \A k : ScansOf(Append(s, r), k) = IF r.kind = k THEN ScansOf(s, k) \cup {r.scan}
                                        ELSE ScansOf(s, k)
  <2> TAKE k
  <2>1. ScansOf(s, k) \subseteq ScansOf(Append(s, r), k)
    BY <1>1 DEF ScansOf
  <2>2. r.kind = k => r.scan \in ScansOf(Append(s, r), k)
    <3>1. Len(s) + 1 \in DOMAIN Append(s, r)
      BY <1>1
    <3> QED
      BY <3>1, <1>1 DEF ScansOf
  <2>3. \A x \in ScansOf(Append(s, r), k) : x \in ScansOf(s, k) \/ (r.kind = k /\ x = r.scan)
    <3> SUFFICES ASSUME NEW i \in DOMAIN Append(s, r), Append(s, r)[i].kind = k
                 PROVE  Append(s, r)[i].scan \in ScansOf(s, k)
                          \/ (r.kind = k /\ Append(s, r)[i].scan = r.scan)
      BY DEF ScansOf
    <3>1. CASE i \in 1..Len(s)
      BY <3>1, <1>1 DEF ScansOf
    <3>2. CASE i = Len(s) + 1
      BY <3>2, <1>1
    <3> QED
      BY <3>1, <3>2, <1>1
  <2> QED
    BY <2>1, <2>2, <2>3
<1> QED
  BY <1>1, <1>3, <1>4

\* The end of a queue has no more than the queue.
LEMMA EndOnce ==
  ASSUME NEW T, NEW s \in Seq(T), Single(s), NEW n \in 0..Len(s)
  PROVE  LET t == SubSeq(s, n + 1, Len(s))
         IN t \in Seq(T) /\ Single(t) /\ \A k : ScansOf(t, k) \subseteq ScansOf(s, k)
<1> DEFINE t == SubSeq(s, n + 1, Len(s))
<1>1. /\ t \in Seq(T) /\ Len(s) \in Nat /\ DOMAIN s = 1..Len(s) /\ DOMAIN t = 1..(Len(s) - n)
      /\ \A i \in 1..(Len(s) - n) : t[i] = s[i + n] /\ i + n \in 1..Len(s)
  OBVIOUS
<1> HIDE DEF t
<1>2. Single(t)
  <2> SUFFICES ASSUME NEW i \in DOMAIN t, NEW j \in DOMAIN t, t[i].kind = t[j].kind,
                      t[i].kind # "reload", t[i].scan = t[j].scan
               PROVE  i = j
    BY DEF Single
  <2>1. /\ i + n \in DOMAIN s /\ j + n \in DOMAIN s /\ i \in Int /\ j \in Int /\ n \in Int
        /\ s[i + n].kind = s[j + n].kind /\ s[i + n].kind # "reload" /\ s[i + n].scan = s[j + n].scan
    BY <1>1
  <2>2. i + n = j + n
    BY <2>1 DEF Single
  <2> QED
    BY <2>1, <2>2
<1>3. \A k : ScansOf(t, k) \subseteq ScansOf(s, k)
  BY <1>1 DEF ScansOf
<1> QED
  BY <1>1, <1>2, <1>3 DEF t

\* Scans that move from one place to another are still in one place.
LEMMA MoveScans ==
  ASSUME NEW k \in R!Kinds, Apart(k), NEW src \in Spots, NEW dst \in Spots, src # dst, NEW X,
         X \subseteq At(k, src), X \cap At(k, src)' = {},
         \A p \in Spots \ {dst} : At(k, p)' \subseteq At(k, p),
         At(k, dst)' \subseteq At(k, dst) \cup X
  PROVE  Apart(k)'
BY DEF Apart

LEMMA LoseScans ==
  ASSUME NEW k \in R!Kinds, Apart(k), \A p \in Spots : At(k, p)' \subseteq At(k, p)
  PROVE  Apart(k)'
BY DEF Apart

LEMMA SpotCases ==
  ASSUME NEW p \in Spots
  PROVE  \/ p \in {<<"queue", 0>>, <<"pool", 0>>, <<"active", 0>>, <<"ready", 0>>, <<"stored", 0>>}
         \/ \E w \in Workers : p = <<"hand", w>> \/ p = <<"batch", w>>
BY DEF Spots

\* What each place holds, before a step and after it.
LEMMA SpotHolds ==
  ASSUME NEW k \in R!Kinds
  PROVE  /\ At(k, <<"queue", 0>>) = Waiting(k) /\ At(k, <<"queue", 0>>)' = Waiting(k)'
         /\ At(k, <<"pool", 0>>) = ScansOf(tasks, k) /\ At(k, <<"pool", 0>>)' = ScansOf(tasks', k)
         /\ At(k, <<"active", 0>>) = ScansOf(active[k], k)
         /\ At(k, <<"active", 0>>)' = ScansOf(active'[k], k)
         /\ At(k, <<"ready", 0>>) = ScansOf(ready[k], k)
         /\ At(k, <<"ready", 0>>)' = ScansOf(ready'[k], k)
         /\ At(k, <<"stored", 0>>) = InStore(k) /\ At(k, <<"stored", 0>>)' = InStore(k)'
         /\ \A w \in Workers :
              /\ At(k, <<"hand", w>>) = InHand(k, w) /\ At(k, <<"hand", w>>)' = InHand(k, w)'
              /\ At(k, <<"batch", w>>) = ScansOf(batch[w][k], k)
              /\ At(k, <<"batch", w>>)' = ScansOf(batch'[w][k], k)
<1>1. /\ At(k, <<"queue", 0>>) = Waiting(k) /\ At(k, <<"queue", 0>>)' = Waiting(k)'
      /\ At(k, <<"pool", 0>>) = ScansOf(tasks, k) /\ At(k, <<"pool", 0>>)' = ScansOf(tasks', k)
  BY DEF At
<1>2. /\ At(k, <<"active", 0>>) = ScansOf(active[k], k)
      /\ At(k, <<"active", 0>>)' = ScansOf(active'[k], k)
      /\ At(k, <<"ready", 0>>) = ScansOf(ready[k], k)
      /\ At(k, <<"ready", 0>>)' = ScansOf(ready'[k], k)
  BY DEF At
<1>3. At(k, <<"stored", 0>>) = InStore(k) /\ At(k, <<"stored", 0>>)' = InStore(k)'
  BY DEF At
<1>4. ASSUME NEW w \in Workers
      PROVE  /\ At(k, <<"hand", w>>) = InHand(k, w) /\ At(k, <<"hand", w>>)' = InHand(k, w)'
             /\ At(k, <<"batch", w>>) = ScansOf(batch[w][k], k)
             /\ At(k, <<"batch", w>>)' = ScansOf(batch'[w][k], k)
  BY DEF At
<1> QED
  BY <1>1, <1>2, <1>3, <1>4

\* A place whose variables a step leaves alone holds the same scans.
LEMMA SpotsKept ==
  ASSUME NEW k \in R!Kinds
  PROVE  /\ UNCHANGED queues => Waiting(k)' = Waiting(k)
         /\ UNCHANGED stored => InStore(k)' = InStore(k)
         /\ \A w \in Workers : pc'[w] = pc[w] /\ row'[w] = row[w] => InHand(k, w)' = InHand(k, w)
BY DEF Waiting, InStore, InHand

\* What no place but one gains, no other place of the list gains.
LEMMA OthersLose ==
  ASSUME NEW k \in R!Kinds, NEW dst,
         dst = <<"queue", 0>> \/ Waiting(k)' \subseteq Waiting(k),
         dst = <<"pool", 0>> \/ ScansOf(tasks', k) \subseteq ScansOf(tasks, k),
         dst = <<"active", 0>> \/ ScansOf(active'[k], k) \subseteq ScansOf(active[k], k),
         dst = <<"ready", 0>> \/ ScansOf(ready'[k], k) \subseteq ScansOf(ready[k], k),
         dst = <<"stored", 0>> \/ InStore(k)' \subseteq InStore(k),
         \A w \in Workers : dst = <<"hand", w>> \/ InHand(k, w)' \subseteq InHand(k, w),
         \A w \in Workers :
            dst = <<"batch", w>> \/ ScansOf(batch'[w][k], k) \subseteq ScansOf(batch[w][k], k)
  PROVE  \A p \in Spots \ {dst} : At(k, p)' \subseteq At(k, p)
<1> SUFFICES ASSUME NEW p \in Spots \ {dst} PROVE At(k, p)' \subseteq At(k, p)
  OBVIOUS
<1>1. CASE p = <<"queue", 0>>
  BY <1>1, SpotHolds
<1>2. CASE p = <<"pool", 0>>
  BY <1>2, SpotHolds
<1>3. CASE p = <<"active", 0>>
  BY <1>3, SpotHolds
<1>4. CASE p = <<"ready", 0>>
  BY <1>4, SpotHolds
<1>5. CASE p = <<"stored", 0>>
  BY <1>5, SpotHolds
<1>6. ASSUME NEW w \in Workers, p = <<"hand", w>> PROVE At(k, p)' \subseteq At(k, p)
  BY <1>6, SpotHolds
<1>7. ASSUME NEW w \in Workers, p = <<"batch", w>> PROVE At(k, p)' \subseteq At(k, p)
  BY <1>7, SpotHolds
<1> QED
  BY <1>1, <1>2, <1>3, <1>4, <1>5, <1>6, <1>7, SpotCases

\* When no place gains a scan, none comes to be in two.
LEMMA AllLose ==
  ASSUME NEW k \in R!Kinds, Apart(k), Waiting(k)' \subseteq Waiting(k),
         ScansOf(tasks', k) \subseteq ScansOf(tasks, k),
         ScansOf(active'[k], k) \subseteq ScansOf(active[k], k),
         ScansOf(ready'[k], k) \subseteq ScansOf(ready[k], k),
         InStore(k)' \subseteq InStore(k),
         \A w \in Workers : InHand(k, w)' \subseteq InHand(k, w),
         \A w \in Workers : ScansOf(batch'[w][k], k) \subseteq ScansOf(batch[w][k], k)
  PROVE  Apart(k)'
<1>1. <<"none", 0>> \notin Spots
  BY DEF Spots
<1>2. \A p \in Spots \ {<<"none", 0>>} : At(k, p)' \subseteq At(k, p)
  BY OthersLose
<1> QED
  BY <1>1, <1>2, LoseScans

-----------------------------------------------------------------------------
\* Steps that move no scan.
LEMMA OnceKept ==
  ASSUME ScansOnce, UNCHANGED <<queues, tasks, active, ready, stored, batch>>,
         \A k \in R!Kinds, w \in Workers : InHand(k, w)' \subseteq InHand(k, w)
  PROVE  ScansOnce'
<1>1. ASSUME NEW k \in R!Kinds PROVE Apart(k)'
  BY AllLose, SpotsKept DEF ScansOnce
<1> QED
  BY <1>1 DEF ScansOnce

LEMMA RadarTypeKept ==
  ASSUME RadarType, UNCHANGED <<taken, queues, tasks, posted, toldScans, task>>,
         pc' \in [Workers -> WorkerSteps],
         \/ row' = row
         \/ row' \in [Workers -> [kind : R!Kinds \cup {"reload"}, scan : Nat, task : Nat]],
         \A w \in Workers : pc'[w] = "call" => pc[w] = "call" /\ row'[w] = row[w],
         \A w \in Workers : pc'[w] = "push" => pc[w] = "push" /\ row'[w] = row[w]
  PROVE  RadarType'
BY DEF RadarType

LEMMA BufferTypeKept ==
  ASSUME BufferType, UNCHANGED <<taken, active, ready, batch, stored>>
  PROVE  BufferType'
BY DEF BufferType

\* More scans name no rows that were right before.
LEMMA RowsGrow ==
  ASSUME NEW scans \in Seq(Nat), NEW t \in Nat, NEW k
  PROVE  RowsOf(k, scans) \subseteq RowsOf(k, Append(scans, t))
<1>1. Len(Append(scans, t)) = Len(scans) + 1 /\ Len(scans) \in Nat
      /\ \A i \in 1..Len(scans) : Append(scans, t)[i] = scans[i]
  OBVIOUS
<1> QED
  BY <1>1 DEF RowsOf

LEMMA RowFieldsOf ==
  ASSUME NEW k \in R!Kinds, NEW scans \in Seq(Nat), NEW r \in RowsOf(k, scans)
  PROVE  /\ r \in [kind : R!Kinds \cup {"reload"}, scan : Nat, task : Nat]
         /\ r.kind = k /\ r.scan \in 1..Len(scans) /\ r.task \in Nat
         /\ r.task = 0 \/ r.task >= scans[r.scan]
BY DEF RowsOf

LEMMA RadarInit == R!Init => RadarInv
<1> SUFFICES ASSUME R!Init PROVE RadarInv
  OBVIOUS
<1>1. /\ toldScans = 0 /\ task = 0 /\ taken = <<>> /\ tasks = <<>> /\ stored = {}
      /\ queues = [k \in R!Kinds |-> <<>>] /\ active = queues /\ ready = queues
      /\ pc = [w \in Workers |-> "idle"]
      /\ row = [w \in Workers |-> [kind |-> "reload", scan |-> 0, task |-> 0]]
      /\ batch = [w \in Workers |-> queues] /\ posted = [k \in R!Kinds |-> 0]
  BY DEF R!Init, R!NoRows, R!NoRow
<1>2. RadarType
  <2>1. taken \in Seq(Nat) /\ Len(taken) = 0 /\ DOMAIN taken = {} /\ DOMAIN tasks = {}
        /\ tasks \in Seq(PoolTask)
    BY <1>1
  <2>2. queues \in [R!Kinds -> Seq(1..Len(taken))] /\ posted \in [R!Kinds -> Nat]
    BY <1>1
  <2>3. pc \in [Workers -> WorkerSteps] /\ \A w \in Workers : pc[w] = "idle"
    BY <1>1 DEF WorkerSteps
  <2>4. row \in [Workers -> [kind : R!Kinds \cup {"reload"}, scan : Nat, task : Nat]]
    BY <1>1
  <2> QED
    BY <1>1, <2>1, <2>2, <2>3, <2>4 DEF RadarType
<1>3. BufferType
  BY <1>1 DEF BufferType
<1>4. ScansOnce
  <2>1. \A k \in R!Kinds : /\ Waiting(k) = {} /\ ScansOf(tasks, k) = {} /\ InStore(k) = {}
                          /\ ScansOf(active[k], k) = {} /\ ScansOf(ready[k], k) = {}
                          /\ \A w \in Workers : InHand(k, w) = {} /\ ScansOf(batch[w][k], k) = {}
    BY <1>1 DEF Waiting, ScansOf, InStore, InHand
  <2>2. ASSUME NEW k \in R!Kinds PROVE Apart(k)
    <3>1. ASSUME NEW p \in Spots PROVE At(k, p) = {}
      <4>1. CASE p \in {<<"queue", 0>>, <<"pool", 0>>, <<"active", 0>>, <<"ready", 0>>, <<"stored", 0>>}
        <5>1. /\ At(k, <<"queue", 0>>) = {} /\ At(k, <<"pool", 0>>) = {}
              /\ At(k, <<"active", 0>>) = {} /\ At(k, <<"ready", 0>>) = {}
              /\ At(k, <<"stored", 0>>) = {}
          BY <2>1, SpotHolds
        <5> QED
          BY <4>1, <5>1
      <4>2. ASSUME NEW w \in Workers, p = <<"hand", w>> PROVE At(k, p) = {}
        BY <2>1, <4>2, SpotHolds
      <4>3. ASSUME NEW w \in Workers, p = <<"batch", w>> PROVE At(k, p) = {}
        BY <2>1, <4>3, SpotHolds
      <4> QED
        BY <4>1, <4>2, <4>3, SpotCases
    <3> QED
      BY <3>1 DEF Apart
  <2>3. Single(<<>>)
    BY DEF Single
  <2> QED
    BY <1>1, <2>2, <2>3 DEF ScansOnce
<1>5. R!ReadyHasWriter
  BY <1>1 DEF R!ReadyHasWriter
<1> QED
  BY <1>2, <1>3, <1>4, <1>5 DEF RadarInv

\* Another task, or none.
LEMMA RadarNotifyTask == ASSUME RadarInv, R!NotifyTask PROVE RadarType' /\ BufferType' /\ ScansOnce'
<1>1. /\ UNCHANGED <<taken, queues, tasks, pc, row, active, batch, ready, posted, stored>>
      /\ \/ toldScans' = toldScans + 1 /\ task' = toldScans + 1
         \/ task' = 0 /\ toldScans' = toldScans
  BY DEF R!NotifyTask, R!buffers
<1>2. RadarType'
  <2>1. toldScans \in Nat /\ toldScans' \in Nat /\ task' \in {0, toldScans'} /\ toldScans <= toldScans'
    BY <1>1 DEF RadarInv, RadarType
  <2>2. \A i \in DOMAIN taken' : taken'[i] <= toldScans'
    BY <1>1, <2>1 DEF RadarInv, RadarType
  <2> QED
    BY <1>1, <2>1, <2>2 DEF RadarInv, RadarType
<1>3. ScansOnce'
  BY <1>1, OnceKept, SpotsKept DEF RadarInv
<1> QED
  BY <1>1, <1>2, <1>3, BufferTypeKept DEF RadarInv

\* A scan that goes to both queues has a new number.
LEMMA RadarSqlRecord == ASSUME RadarInv, R!SqlRecord PROVE RadarType' /\ BufferType' /\ ScansOnce'
<1> DEFINE n == Len(taken) + 1
<1>1. /\ UNCHANGED <<toldScans, task, tasks, pc, row, active, batch, ready, posted, stored>>
      /\ taken' = Append(taken, toldScans)
      /\ queues' = [k \in R!Kinds |-> Append(queues[k], n)]
  BY DEF R!SqlRecord, R!buffers
<1>2. /\ taken \in Seq(Nat) /\ toldScans \in Nat /\ Len(taken) \in Nat /\ Len(taken') = n
      /\ taken' \in Seq(Nat) /\ taken'[n] = toldScans /\ DOMAIN taken' = 1..n
      /\ \A i \in 1..Len(taken) : taken'[i] = taken[i]
  BY <1>1 DEF RadarInv, RadarType
<1>3. \A k : RowsOf(k, taken) \subseteq RowsOf(k, taken')
  BY <1>1, <1>2, RowsGrow
<1>4. RadarType'
  <2>1. taken' \in Seq(Nat) /\ \A i \in DOMAIN taken' : taken'[i] <= toldScans'
    BY <1>1, <1>2 DEF RadarInv, RadarType
  <2>2. queues' \in [R!Kinds -> Seq(1..Len(taken'))]
    <3>1. ASSUME NEW k \in R!Kinds PROVE Append(queues[k], n) \in Seq(1..Len(taken'))
      <4>1. queues[k] \in Seq(1..Len(taken')) /\ n \in 1..Len(taken')
        BY <1>2 DEF RadarInv, RadarType
      <4> QED
        BY <4>1
    <3> QED
      BY <1>1, <3>1
  <2>3. \A i \in DOMAIN tasks' : tasks'[i].kind # "reload" => tasks'[i].scan \in 1..Len(taken')
    BY <1>1, <1>2 DEF RadarInv, RadarType
  <2>4. \A w \in Workers : pc'[w] = "call" => row'[w].kind \in R!Kinds /\ row'[w].scan \in 1..Len(taken')
    BY <1>1, <1>2 DEF RadarInv, RadarType
  <2>5. \A w \in Workers : pc'[w] = "push" => \E k \in R!Kinds : row'[w] \in RowsOf(k, taken')
    BY <1>1, <1>3 DEF RadarInv, RadarType
  <2> QED
    BY <1>1, <2>1, <2>2, <2>3, <2>4, <2>5 DEF RadarInv, RadarType
<1>5. BufferType'
  <2>1. \A k \in R!Kinds : Seq(RowsOf(k, taken)) \subseteq Seq(RowsOf(k, taken'))
    BY <1>3
  <2>2. UNION {RowsOf(k, taken) : k \in R!Kinds} \subseteq UNION {RowsOf(k, taken') : k \in R!Kinds}
    BY <1>3
  <2>3. Seq(UNION {RowsOf(k, taken) : k \in R!Kinds}) \subseteq Seq(UNION {RowsOf(k, taken') : k \in R!Kinds})
    BY <2>2
  <2>4. /\ active' \in [R!Kinds -> Seq(UNION {RowsOf(k, taken') : k \in R!Kinds})]
        /\ ready' \in [R!Kinds -> Seq(UNION {RowsOf(k, taken') : k \in R!Kinds})]
        /\ batch' \in [Workers -> [R!Kinds -> Seq(UNION {RowsOf(k, taken') : k \in R!Kinds})]]
    BY <1>1, <2>3 DEF RadarInv, BufferType
  <2>5. \A k \in R!Kinds :
          /\ active'[k] \in Seq(RowsOf(k, taken')) /\ ready'[k] \in Seq(RowsOf(k, taken'))
          /\ \A w \in Workers : batch'[w][k] \in Seq(RowsOf(k, taken'))
    BY <1>1, <2>1 DEF RadarInv, BufferType
  <2>6. stored' \subseteq UNION {RowsOf(k, taken') : k \in R!Kinds}
    BY <1>1, <2>2 DEF RadarInv, BufferType
  <2> QED
    BY <2>4, <2>5, <2>6 DEF BufferType
<1>6. ScansOnce'
  <2>1. ASSUME NEW k \in R!Kinds
        PROVE  /\ Waiting(k)' = Waiting(k) \cup {n}
               /\ \A i, j \in DOMAIN queues'[k] : queues'[k][i] = queues'[k][j] => i = j
    <3>1. /\ queues[k] \in Seq(1..Len(taken)) /\ queues'[k] = Append(queues[k], n)
          /\ Len(queues[k]) \in Nat /\ DOMAIN queues[k] = 1..Len(queues[k])
          /\ DOMAIN queues'[k] = 1..(Len(queues[k]) + 1)
          /\ \A i \in 1..Len(queues[k]) : queues'[k][i] = queues[k][i] /\ queues[k][i] # n
          /\ queues'[k][Len(queues[k]) + 1] = n
      BY <1>1, <1>2 DEF RadarInv, RadarType
    <3>2. Waiting(k)' = Waiting(k) \cup {n}
      <4>1. \A x \in Waiting(k) : x \in Waiting(k)'
        BY <3>1 DEF Waiting
      <4>2. n \in Waiting(k)'
        <5>1. Len(queues[k]) + 1 \in DOMAIN queues'[k]
          BY <3>1
        <5> QED
          BY <3>1, <5>1 DEF Waiting
      <4>3. \A x \in Waiting(k)' : x \in Waiting(k) \/ x = n
        BY <3>1 DEF Waiting
      <4> QED
        BY <4>1, <4>2, <4>3
    <3> QED
      BY <3>1, <3>2 DEF RadarInv, ScansOnce
  <2>2. ASSUME NEW k \in R!Kinds, NEW p \in Spots
        PROVE  n \notin At(k, p)
    <3>1. n \notin Waiting(k) /\ n \notin ScansOf(tasks, k)
      <4>1. \A i \in DOMAIN queues[k] : queues[k][i] \in 1..Len(taken)
        BY DEF RadarInv, RadarType
      <4>2. \A i \in DOMAIN tasks : tasks[i].kind = k => tasks[i].scan \in 1..Len(taken)
        BY KindsAre DEF RadarInv, RadarType
      <4> QED
        BY <4>1, <4>2, <1>2 DEF Waiting, ScansOf
    <3>2. ASSUME NEW s \in Seq(RowsOf(k, taken)) PROVE n \notin ScansOf(s, k)
      <4>1. \A i \in DOMAIN s : s[i].scan \in 1..Len(taken)
        BY <1>2, RowFieldsOf
      <4> QED
        BY <4>1, <1>2 DEF ScansOf
    <3>3. \A w \in Workers : n \notin InHand(k, w)
      BY <1>2, RowFieldsOf DEF RadarInv, RadarType, InHand
    <3>4. n \notin InStore(k)
      BY <1>2, RowFieldsOf DEF RadarInv, BufferType, InStore
    <3>5. /\ n \notin ScansOf(active[k], k) /\ n \notin ScansOf(ready[k], k)
          /\ \A w \in Workers : n \notin ScansOf(batch[w][k], k)
      BY <3>2 DEF RadarInv, BufferType
    <3>6. CASE p \in {<<"queue", 0>>, <<"pool", 0>>, <<"active", 0>>, <<"ready", 0>>, <<"stored", 0>>}
      BY <3>1, <3>4, <3>5, <3>6, SpotHolds
    <3>7. ASSUME NEW w \in Workers, p = <<"hand", w>> \/ p = <<"batch", w>> PROVE n \notin At(k, p)
      BY <3>3, <3>5, <3>7, SpotHolds
    <3> QED
      BY <3>6, <3>7, SpotCases
  <2>3. ASSUME NEW k \in R!Kinds PROVE Apart(k)'
    <3>1. <<"queue", 0>> \in Spots /\ At(k, <<"queue", 0>>)' = At(k, <<"queue", 0>>) \cup {n}
      BY <2>1, SpotHolds DEF Spots
    <3>2. ASSUME NEW p \in Spots \ {<<"queue", 0>>} PROVE At(k, p)' = At(k, p)
      <4>1. CASE p \in {<<"pool", 0>>, <<"active", 0>>, <<"ready", 0>>, <<"stored", 0>>}
        BY <1>1, <4>1, SpotHolds, SpotsKept
      <4>2. ASSUME NEW w \in Workers, p = <<"hand", w>> \/ p = <<"batch", w>>
            PROVE  At(k, p)' = At(k, p)
        BY <1>1, <4>2, SpotHolds, SpotsKept
      <4> QED
        BY <4>1, <4>2, SpotCases
    <3> QED
      BY <2>2, <3>1, <3>2 DEF RadarInv, ScansOnce, Apart
  <2> QED
    BY <1>1, <2>1, <2>3 DEF RadarInv, ScansOnce
<1> QED
  BY <1>4, <1>5, <1>6

-----------------------------------------------------------------------------
\* A scan leaves its queue and goes to the pool, or nowhere.
LEMMA RadarPop ==
  ASSUME RadarInv, NEW k \in R!Kinds, R!Pop(k),
         \/ tasks' = tasks
         \/ tasks' = Append(tasks, [kind |-> k, scan |-> Head(queues[k])])
  PROVE  RadarType' /\ BufferType' /\ ScansOnce'
<1> DEFINE n == Head(queues[k])
           new == [kind |-> k, scan |-> n]
<1>1. /\ UNCHANGED <<toldScans, task, taken, pc, row, active, batch, ready, posted, stored>>
      /\ queues[k] # <<>> /\ queues' = [queues EXCEPT ![k] = Tail(@)]
  BY DEF R!Pop, R!buffers
<1>2. /\ queues \in [R!Kinds -> Seq(1..Len(taken))] /\ queues[k] \in Seq(1..Len(taken))
      /\ Len(taken) \in Nat
  BY DEF RadarInv, RadarType
<1>3. /\ n = queues[k][1] /\ n \in 1..Len(taken) /\ queues'[k] = Tail(queues[k])
      /\ 1 \in DOMAIN queues[k] /\ DOMAIN queues[k] = 1..Len(queues[k]) /\ Len(queues[k]) \in Nat
      /\ Tail(queues[k]) \in Seq(1..Len(taken))
      /\ DOMAIN Tail(queues[k]) = 1..(Len(queues[k]) - 1)
      /\ \A i \in 1..(Len(queues[k]) - 1) : Tail(queues[k])[i] = queues[k][i + 1]
  BY <1>1, <1>2
<1>4. \A l \in R!Kinds \ {k} : queues'[l] = queues[l]
  BY <1>1, <1>2
<1>5. new \in PoolTask /\ new.kind = k /\ new.scan = n
  BY <1>3 DEF PoolTask
<1>6. /\ tasks \in Seq(PoolTask) /\ Single(tasks)
      /\ \A i \in DOMAIN tasks : tasks[i].kind # "reload" => tasks[i].scan \in 1..Len(taken)
  BY DEF RadarInv, RadarType, ScansOnce
<1> HIDE DEF n, new
<1>7. n \in Waiting(k) /\ n \notin Waiting(k)' /\ Waiting(k)' \subseteq Waiting(k)
      /\ \A i, j \in DOMAIN queues'[k] : queues'[k][i] = queues'[k][j] => i = j
  <2>1. \A i, j \in DOMAIN queues[k] : queues[k][i] = queues[k][j] => i = j
    BY DEF RadarInv, ScansOnce
  <2>2. ASSUME NEW i \in DOMAIN queues'[k]
        PROVE  /\ i + 1 \in DOMAIN queues[k] /\ i \in Int /\ i + 1 # 1
               /\ queues'[k][i] = queues[k][i + 1]
    BY <1>3, <2>2
  <2>3. \A i, j \in DOMAIN queues'[k] : queues'[k][i] = queues'[k][j] => i = j
    <3> SUFFICES ASSUME NEW i \in DOMAIN queues'[k], NEW j \in DOMAIN queues'[k],
                        queues'[k][i] = queues'[k][j]
                 PROVE  i = j
      OBVIOUS
    <3>1. i + 1 = j + 1
      BY <2>1, <2>2
    <3> QED
      BY <2>2, <3>1
  <2>4. n \in Waiting(k)
    BY <1>3 DEF Waiting
  <2>5. n \notin Waiting(k)'
    BY <1>3, <2>1, <2>2 DEF Waiting
  <2>6. Waiting(k)' \subseteq Waiting(k)
    BY <2>2 DEF Waiting
  <2> QED
    BY <2>3, <2>4, <2>5, <2>6
<1>8. n \notin ScansOf(tasks, k)
  <2>1. <<"queue", 0>> \in Spots /\ <<"pool", 0>> \in Spots /\ <<"queue", 0>> # <<"pool", 0>>
    BY DEF Spots
  <2> QED
    BY <1>7, <2>1, SpotHolds DEF RadarInv, ScansOnce, Apart
<1>9. /\ tasks' \in Seq(PoolTask) /\ Single(tasks')
      /\ \A l : ScansOf(tasks', l) \subseteq IF l = k THEN ScansOf(tasks, l) \cup {n}
                                           ELSE ScansOf(tasks, l)
  <2>1. CASE tasks' = tasks
    BY <1>6, <2>1
  <2>2. CASE tasks' = Append(tasks, new)
    BY <1>5, <1>6, <1>8, <2>2, AppendOnce
  <2> QED
    BY <2>1, <2>2 DEF n, new
<1>10. \A i \in DOMAIN tasks' : tasks'[i].kind # "reload" => tasks'[i].scan \in 1..Len(taken)
  <2>1. CASE tasks' = tasks
    BY <1>6, <2>1
  <2>2. CASE tasks' = Append(tasks, new)
    <3>1. /\ Len(tasks) \in Nat /\ DOMAIN tasks' = 1..(Len(tasks) + 1) /\ DOMAIN tasks = 1..Len(tasks)
          /\ \A i \in 1..Len(tasks) : tasks'[i] = tasks[i]
          /\ tasks'[Len(tasks) + 1] = new
      BY <1>5, <1>6, <2>2
    <3> QED
      BY <1>3, <1>5, <1>6, <3>1
  <2> QED
    BY <2>1, <2>2 DEF n, new
<1>11. RadarType'
  <2>1. queues' \in [R!Kinds -> Seq(1..Len(taken))]
    BY <1>1, <1>2, <1>3, <1>4
  <2> QED
    BY <1>1, <1>9, <1>10, <2>1 DEF RadarInv, RadarType
<1>12. ScansOnce'
  <2>1. ASSUME NEW l \in R!Kinds PROVE Apart(l)'
    <3>1. /\ <<"queue", 0>> \in Spots /\ <<"pool", 0>> \in Spots /\ <<"queue", 0>> # <<"pool", 0>>
          /\ Apart(l)
      BY DEF Spots, RadarInv, ScansOnce
    <3>2. \A p \in Spots \ {<<"pool", 0>>} : At(l, p)' \subseteq At(l, p)
      <4>1. Waiting(l)' \subseteq Waiting(l)
        <5>1. CASE l = k
          BY <1>7, <5>1
        <5>2. CASE l # k
          BY <1>4, <5>2 DEF Waiting
        <5> QED
          BY <5>1, <5>2
      <4>2. InStore(l)' = InStore(l) /\ \A w \in Workers : InHand(l, w)' = InHand(l, w)
        BY <1>1, SpotsKept
      <4> QED
        BY <1>1, <4>1, <4>2, OthersLose
    <3>3. CASE l = k
      <4> DEFINE X == {n}
      <4>1. /\ X \subseteq At(l, <<"queue", 0>>) /\ X \cap At(l, <<"queue", 0>>)' = {}
            /\ At(l, <<"pool", 0>>)' \subseteq At(l, <<"pool", 0>>) \cup X
        BY <1>7, <1>9, <3>3, SpotHolds
      <4> HIDE DEF X
      <4> QED
        BY <3>1, <3>2, <4>1, MoveScans
    <3>4. CASE l # k
      <4>1. At(l, <<"pool", 0>>)' \subseteq At(l, <<"pool", 0>>)
        BY <1>9, <3>4, SpotHolds
      <4> QED
        BY <3>1, <3>2, <4>1, LoseScans
    <3> QED
      BY <3>3, <3>4
  <2>2. \A l \in R!Kinds : \A i, j \in DOMAIN queues'[l] : queues'[l][i] = queues'[l][j] => i = j
    BY <1>4, <1>7 DEF RadarInv, ScansOnce
  <2> QED
    BY <1>1, <1>9, <2>1, <2>2 DEF RadarInv, ScansOnce
<1> QED
  BY <1>1, <1>11, <1>12, BufferTypeKept DEF RadarInv

\* A reload displaces nothing by itself.
LEMMA RadarReload == ASSUME RadarInv, R!OnTimerRestart PROVE RadarType' /\ BufferType' /\ ScansOnce'
<1> DEFINE new == [kind |-> "reload", scan |-> 0]
<1>1. /\ UNCHANGED <<toldScans, task, taken, queues, pc, row, active, batch, ready, posted, stored>>
      /\ tasks' = Append(tasks, new)
  BY DEF R!OnTimerRestart, R!Enqueue, R!service, R!buffers
<1>2. new \in PoolTask /\ new.kind = "reload"
  BY DEF PoolTask
<1>3. /\ tasks \in Seq(PoolTask) /\ Single(tasks)
      /\ \A i \in DOMAIN tasks : tasks[i].kind # "reload" => tasks[i].scan \in 1..Len(taken)
  BY DEF RadarInv, RadarType, ScansOnce
<1> HIDE DEF new
<1>4. /\ tasks' \in Seq(PoolTask) /\ Single(tasks')
      /\ \A k \in R!Kinds : ScansOf(tasks', k) = ScansOf(tasks, k)
  BY <1>1, <1>2, <1>3, AppendOnce, KindsAre
<1>5. \A i \in DOMAIN tasks' : tasks'[i].kind # "reload" => tasks'[i].scan \in 1..Len(taken)
  <2>1. /\ Len(tasks) \in Nat /\ DOMAIN tasks' = 1..(Len(tasks) + 1) /\ DOMAIN tasks = 1..Len(tasks)
        /\ \A i \in 1..Len(tasks) : tasks'[i] = tasks[i]
        /\ tasks'[Len(tasks) + 1] = new
    BY <1>1, <1>2, <1>3
  <2> QED
    BY <1>2, <1>3, <2>1
<1>6. RadarType'
  BY <1>1, <1>4, <1>5 DEF RadarInv, RadarType
<1>7. ScansOnce'
  <2>1. ASSUME NEW k \in R!Kinds PROVE Apart(k)'
    <3>1. /\ Waiting(k)' = Waiting(k) /\ InStore(k)' = InStore(k)
          /\ \A w \in Workers : InHand(k, w)' = InHand(k, w)
      BY <1>1, SpotsKept
    <3> QED
      BY <1>1, <1>4, <3>1, AllLose DEF RadarInv, ScansOnce
  <2> QED
    BY <1>1, <1>4, <2>1 DEF RadarInv, ScansOnce
<1> QED
  BY <1>1, <1>6, <1>7, BufferTypeKept DEF RadarInv

\* The tail of the pool's queue, or its end, without the task that is taken.
LEMMA PoolTaken ==
  ASSUME RadarInv, NEW w \in Workers, R!TakeTask(w)
  PROVE  /\ Head(tasks) \in PoolTask /\ tasks' \in Seq(PoolTask) /\ Single(tasks')
         /\ \A k : ScansOf(tasks', k) \subseteq ScansOf(tasks, k)
         /\ Head(tasks).kind # "reload" =>
              /\ Head(tasks).scan \in 1..Len(taken)
              /\ Head(tasks).scan \in ScansOf(tasks, Head(tasks).kind)
              /\ Head(tasks).scan \notin ScansOf(tasks', Head(tasks).kind)
         /\ \A i \in DOMAIN tasks' : tasks'[i].kind # "reload" => tasks'[i].scan \in 1..Len(taken)
<1> DEFINE rest == Tail(tasks)
<1>1. /\ tasks # <<>>
      /\ tasks' = IF Len(rest) > Cap THEN SubSeq(rest, Len(rest) - Cap + 1, Len(rest)) ELSE rest
  BY DEF R!TakeTask
<1>2. /\ tasks \in Seq(PoolTask) /\ Single(tasks) /\ Cap \in Nat
      /\ \A i \in DOMAIN tasks : tasks[i].kind # "reload" => tasks[i].scan \in 1..Len(taken)
  BY MCAssumption DEF RadarInv, RadarType, ScansOnce, MCAssumption, R!RadarAssumption
<1>3. /\ rest \in Seq(PoolTask) /\ Single(rest) /\ Head(tasks) \in PoolTask
      /\ \A k : ScansOf(rest, k) \subseteq ScansOf(tasks, k)
      /\ Head(tasks).scan \in ScansOf(tasks, Head(tasks).kind)
      /\ Head(tasks).kind # "reload" => Head(tasks).scan \notin ScansOf(rest, Head(tasks).kind)
  BY <1>1, <1>2, TailOnce
<1>4. /\ Len(rest) \in Nat /\ DOMAIN rest = 1..Len(rest)
      /\ \A i \in DOMAIN rest : rest[i] = tasks[i + 1] /\ i + 1 \in DOMAIN tasks
      /\ Head(tasks) = tasks[1] /\ 1 \in DOMAIN tasks
  BY <1>1, <1>2
<1> HIDE DEF rest
<1>5. /\ tasks' \in Seq(PoolTask) /\ Single(tasks') /\ \A k : ScansOf(tasks', k) \subseteq ScansOf(rest, k)
      /\ \A i \in DOMAIN tasks' : \E j \in DOMAIN rest : tasks'[i] = rest[j]
  <2>1. CASE Len(rest) > Cap
    <3> DEFINE n == Len(rest) - Cap
    <3>1. n \in 0..Len(rest) /\ tasks' = SubSeq(rest, n + 1, Len(rest))
      BY <1>1, <1>2, <1>4, <2>1
    <3> HIDE DEF n
    <3>2. \A i \in DOMAIN tasks' : i + n \in DOMAIN rest /\ tasks'[i] = rest[i + n]
      BY <1>3, <1>4, <3>1
    <3> QED
      BY <1>3, <3>1, <3>2, EndOnce
  <2>2. CASE ~(Len(rest) > Cap)
    BY <1>1, <1>3, <2>2
  <2> QED
    BY <2>1, <2>2
<1>6. \A i \in DOMAIN tasks' : tasks'[i].kind # "reload" => tasks'[i].scan \in 1..Len(taken)
  BY <1>2, <1>4, <1>5
<1> QED
  BY <1>2, <1>3, <1>4, <1>5, <1>6

\* A worker takes a scan out of the pool's queue into its hands.
LEMMA RadarTakeTask ==
  ASSUME RadarInv, NEW w \in Workers, R!TakeTask(w) PROVE RadarType' /\ BufferType' /\ ScansOnce'
<1> DEFINE h == Head(tasks)
           new == [kind |-> h.kind, scan |-> h.scan, task |-> 0]
<1>1. /\ UNCHANGED <<toldScans, task, taken, queues, active, batch, ready, posted, stored>>
      /\ pc[w] = "idle" /\ pc' = [pc EXCEPT ![w] = IF h.kind = "reload" THEN "idle" ELSE "call"]
      /\ row' = [row EXCEPT ![w] = new]
  BY DEF R!TakeTask, R!Go, R!service, R!buffers
<1>2. /\ h \in PoolTask /\ h.kind \in R!Kinds \cup {"reload"} /\ h.scan \in Nat
      /\ new \in [kind : R!Kinds \cup {"reload"}, scan : Nat, task : Nat]
      /\ new.kind = h.kind /\ new.scan = h.scan
  <2>1. h \in PoolTask
    BY PoolTaken
  <2>2. h.kind \in R!Kinds \cup {"reload"} /\ h.scan \in Nat
    BY <2>1 DEF PoolTask
  <2> QED
    BY <2>1, <2>2
<1>3. /\ pc \in [Workers -> WorkerSteps]
      /\ row \in [Workers -> [kind : R!Kinds \cup {"reload"}, scan : Nat, task : Nat]]
  BY DEF RadarInv, RadarType
<1> HIDE DEF h, new
<1>4. /\ pc' \in [Workers -> WorkerSteps] /\ pc'[w] = IF h.kind = "reload" THEN "idle" ELSE "call"
      /\ row' \in [Workers -> [kind : R!Kinds \cup {"reload"}, scan : Nat, task : Nat]]
      /\ row'[w] = new /\ \A v \in Workers \ {w} : pc'[v] = pc[v] /\ row'[v] = row[v]
  BY <1>1, <1>2, <1>3 DEF WorkerSteps
<1>5. RadarType'
  <2>1. \A v \in Workers : pc'[v] = "call" => row'[v].kind \in R!Kinds /\ row'[v].scan \in 1..Len(taken)
    BY <1>2, <1>4, PoolTaken DEF RadarInv, RadarType, h
  <2>2. \A v \in Workers : pc'[v] = "push" => \E k \in R!Kinds : row'[v] \in RowsOf(k, taken)
    BY <1>4 DEF RadarInv, RadarType
  <2> QED
    BY <1>1, <1>4, <2>1, <2>2, PoolTaken DEF RadarInv, RadarType
<1>6. ASSUME NEW k \in R!Kinds PROVE Apart(k)'
  <2>1. /\ Waiting(k)' = Waiting(k) /\ InStore(k)' = InStore(k)
        /\ \A v \in Workers \ {w} : InHand(k, v)' = InHand(k, v)
    BY <1>1, <1>4, SpotsKept
  <2>2. Apart(k) /\ ScansOf(tasks', k) \subseteq ScansOf(tasks, k)
    BY PoolTaken DEF RadarInv, ScansOnce
  <2>3. CASE h.kind = k
    <3> DEFINE X == {h.scan}
    <3>1. <<"pool", 0>> \in Spots /\ <<"hand", w>> \in Spots /\ <<"pool", 0>> # <<"hand", w>>
      BY DEF Spots
    <3>2. \A p \in Spots \ {<<"hand", w>>} : At(k, p)' \subseteq At(k, p)
      BY <1>1, <2>1, <2>2, OthersLose
    <3>3. X \subseteq At(k, <<"pool", 0>>) /\ X \cap At(k, <<"pool", 0>>)' = {}
      BY <2>3, PoolTaken, SpotHolds, KindsAre DEF h
    <3>4. InHand(k, w)' \subseteq X
      BY <1>2, <1>4 DEF InHand
    <3>5. At(k, <<"hand", w>>)' \subseteq At(k, <<"hand", w>>) \cup X
      BY <3>4, SpotHolds
    <3> HIDE DEF X
    <3> QED
      BY <2>2, <3>1, <3>2, <3>3, <3>5, MoveScans
  <2>4. CASE h.kind # k
    <3>1. InHand(k, w)' = {}
      BY <1>2, <1>4, <2>4 DEF InHand
    <3> QED
      BY <1>1, <2>1, <2>2, <3>1, AllLose
  <2> QED
    BY <2>3, <2>4
<1>7. ScansOnce'
  BY <1>1, <1>6, PoolTaken DEF RadarInv, ScansOnce
<1> QED
  BY <1>1, <1>5, <1>7, BufferTypeKept DEF RadarInv

\* The id of the task joins the scan in the worker's hands.
LEMMA RadarCall ==
  ASSUME RadarInv, NEW w \in Workers, R!Call(w) PROVE RadarType' /\ BufferType' /\ ScansOnce'
<1> DEFINE new == [row[w] EXCEPT !.task = task]
<1>1. /\ UNCHANGED <<toldScans, task, taken, queues, tasks, active, batch, ready, posted, stored>>
      /\ pc[w] = "call" /\ pc' = [pc EXCEPT ![w] = "push"] /\ row' = [row EXCEPT ![w] = new]
  BY DEF R!Call, R!Go, R!service, R!buffers
<1>2. /\ pc \in [Workers -> WorkerSteps]
      /\ row \in [Workers -> [kind : R!Kinds \cup {"reload"}, scan : Nat, task : Nat]]
      /\ row[w].kind \in R!Kinds /\ row[w].scan \in 1..Len(taken)
      /\ toldScans \in Nat /\ task \in {0, toldScans} /\ taken \in Seq(Nat)
      /\ \A i \in DOMAIN taken : taken[i] <= toldScans
  BY <1>1 DEF RadarInv, RadarType
<1>3. /\ new \in [kind : R!Kinds \cup {"reload"}, scan : Nat, task : Nat]
      /\ new.kind = row[w].kind /\ new.scan = row[w].scan /\ new.task = task
      /\ new = [kind |-> row[w].kind, scan |-> row[w].scan, task |-> task]
  BY <1>2
<1> HIDE DEF new
<1>4. /\ pc' \in [Workers -> WorkerSteps] /\ pc'[w] = "push"
      /\ row' \in [Workers -> [kind : R!Kinds \cup {"reload"}, scan : Nat, task : Nat]]
      /\ row'[w] = new /\ \A v \in Workers \ {w} : pc'[v] = pc[v] /\ row'[v] = row[v]
  <2>1. /\ pc \in [Workers -> WorkerSteps]
        /\ row \in [Workers -> [kind : R!Kinds \cup {"reload"}, scan : Nat, task : Nat]]
    BY <1>2
  <2>2. new \in [kind : R!Kinds \cup {"reload"}, scan : Nat, task : Nat] /\ "push" \in WorkerSteps
    BY <1>3 DEF WorkerSteps
  <2>3. pc' = [pc EXCEPT ![w] = "push"] /\ row' = [row EXCEPT ![w] = new]
    BY <1>1
  <2> QED
    BY <2>1, <2>2, <2>3
<1>5. new \in RowsOf(row[w].kind, taken)
  <2>1. DOMAIN taken = 1..Len(taken)
    BY <1>2
  <2>2. task = 0 \/ task >= taken[row[w].scan]
    BY <1>2, <2>1
  <2> QED
    BY <1>2, <1>3, <2>2 DEF RowsOf
<1>6. RadarType'
  <2>1. \A v \in Workers : pc'[v] = "call" => row'[v].kind \in R!Kinds /\ row'[v].scan \in 1..Len(taken)
    BY <1>4 DEF RadarInv, RadarType
  <2>2. \A v \in Workers : pc'[v] = "push" => \E k \in R!Kinds : row'[v] \in RowsOf(k, taken)
    BY <1>2, <1>4, <1>5 DEF RadarInv, RadarType
  <2> QED
    BY <1>1, <1>4, <2>1, <2>2 DEF RadarInv, RadarType
<1>7. ScansOnce'
  <2>1. \A k \in R!Kinds, v \in Workers : InHand(k, v)' \subseteq InHand(k, v)
    BY <1>1, <1>3, <1>4 DEF InHand
  <2> QED
    BY <1>1, <2>1, OnceKept DEF RadarInv
<1> QED
  BY <1>1, <1>6, <1>7, BufferTypeKept DEF RadarInv

\* The worker's row goes behind the rows of its kind.
LEMMA RadarWrite ==
  ASSUME RadarInv, NEW w \in Workers, R!WriteBatchToVector(w)
  PROVE  RadarType' /\ BufferType' /\ ScansOnce'
<1> DEFINE k == row[w].kind
           r == row[w]
<1>1. /\ UNCHANGED <<toldScans, task, taken, queues, tasks, batch, ready, posted, stored>>
      /\ pc[w] = "push" /\ pc' = [pc EXCEPT ![w] = "test"]
      /\ row' = [row EXCEPT ![w] = [kind |-> "reload", scan |-> 0, task |-> 0]]
      /\ active' = [active EXCEPT ![k] = Append(@, r)]
  BY DEF R!WriteBatchToVector, R!Go, R!service, R!NoRow
<1>2. /\ k \in R!Kinds /\ r \in RowsOf(k, taken) /\ taken \in Seq(Nat)
  <2>1. PICK l \in R!Kinds : r \in RowsOf(l, taken)
    BY <1>1 DEF RadarInv, RadarType
  <2> QED
    BY <2>1, RowFieldsOf DEF RadarInv, RadarType
<1>3. /\ pc \in [Workers -> WorkerSteps]
      /\ row \in [Workers -> [kind : R!Kinds \cup {"reload"}, scan : Nat, task : Nat]]
  BY DEF RadarInv, RadarType
<1>4. /\ pc' \in [Workers -> WorkerSteps] /\ pc'[w] = "test"
      /\ row' \in [Workers -> [kind : R!Kinds \cup {"reload"}, scan : Nat, task : Nat]]
      /\ \A v \in Workers \ {w} : pc'[v] = pc[v] /\ row'[v] = row[v]
  BY <1>1, <1>3 DEF WorkerSteps
<1>5. RadarType'
  <2>1. \A v \in Workers : pc'[v] = "call" => row'[v].kind \in R!Kinds /\ row'[v].scan \in 1..Len(taken)
    BY <1>4 DEF RadarInv, RadarType
  <2>2. \A v \in Workers : pc'[v] = "push" => \E l \in R!Kinds : row'[v] \in RowsOf(l, taken)
    BY <1>4 DEF RadarInv, RadarType
  <2> QED
    BY <1>1, <1>4, <2>1, <2>2 DEF RadarInv, RadarType
<1>6. /\ active \in [R!Kinds -> Seq(UNION {RowsOf(l, taken) : l \in R!Kinds})]
      /\ active[k] \in Seq(RowsOf(k, taken)) /\ Single(active[k])
      /\ r.kind = k /\ r.scan \notin ScansOf(active[k], k)
  <2>1. <<"hand", w>> \in Spots /\ <<"active", 0>> \in Spots /\ <<"hand", w>> # <<"active", 0>>
    BY DEF Spots
  <2>2. InHand(k, w) = {r.scan}
    BY <1>1 DEF InHand
  <2>3. InHand(k, w) \cap ScansOf(active[k], k) = {}
    BY <1>2, <2>1, SpotHolds DEF RadarInv, ScansOnce, Apart
  <2> QED
    BY <1>2, <2>2, <2>3 DEF RadarInv, ScansOnce, BufferType
<1> HIDE DEF k, r
<1>7. /\ active'[k] = Append(active[k], r) /\ active'[k] \in Seq(RowsOf(k, taken)) /\ Single(active'[k])
      /\ ScansOf(active'[k], k) = ScansOf(active[k], k) \cup {r.scan}
      /\ \A l \in R!Kinds \ {k} : active'[l] = active[l]
  <2>1. active'[k] = Append(active[k], r) /\ \A l \in R!Kinds \ {k} : active'[l] = active[l]
    BY <1>1, <1>2, <1>6
  <2> QED
    BY <1>2, <1>6, <2>1, AppendOnce
<1>8. BufferType'
  <2>1. active'[k] \in Seq(UNION {RowsOf(l, taken) : l \in R!Kinds})
    <3>1. RowsOf(k, taken) \subseteq UNION {RowsOf(l, taken) : l \in R!Kinds}
      BY <1>2
    <3> QED
      BY <1>7, <3>1
  <2>2. active' \in [R!Kinds -> Seq(UNION {RowsOf(l, taken) : l \in R!Kinds})]
    BY <1>1, <1>6, <1>7, <2>1
  <2>3. \A l \in R!Kinds : active'[l] \in Seq(RowsOf(l, taken))
    BY <1>7 DEF RadarInv, BufferType
  <2> QED
    BY <1>1, <2>2, <2>3 DEF RadarInv, BufferType
<1>9. ASSUME NEW l \in R!Kinds PROVE Apart(l)'
  <2>1. /\ Waiting(l)' = Waiting(l) /\ InStore(l)' = InStore(l)
        /\ \A v \in Workers \ {w} : InHand(l, v)' = InHand(l, v)
    BY <1>1, <1>4, SpotsKept
  <2>2. InHand(l, w)' = {}
    BY <1>4 DEF InHand
  <2>3. Apart(l)
    BY DEF RadarInv, ScansOnce
  <2>4. CASE l = k
    <3> DEFINE X == {r.scan}
    <3>1. <<"hand", w>> \in Spots /\ <<"active", 0>> \in Spots /\ <<"hand", w>> # <<"active", 0>>
      BY DEF Spots
    <3>2. \A p \in Spots \ {<<"active", 0>>} : At(l, p)' \subseteq At(l, p)
      BY <1>1, <2>1, <2>2, OthersLose
    <3>3. InHand(l, w) = X
      BY <1>1, <2>4 DEF InHand, k, r
    <3>4. X \subseteq At(l, <<"hand", w>>) /\ X \cap At(l, <<"hand", w>>)' = {}
      BY <2>2, <3>3, SpotHolds
    <3>5. At(l, <<"active", 0>>)' \subseteq At(l, <<"active", 0>>) \cup X
      BY <1>7, <2>4, SpotHolds
    <3> HIDE DEF X
    <3> QED
      BY <2>3, <3>1, <3>2, <3>4, <3>5, MoveScans
  <2>5. CASE l # k
    <3>1. ScansOf(active'[l], l) = ScansOf(active[l], l)
      BY <1>7, <2>5
    <3> QED
      BY <1>1, <2>1, <2>2, <2>3, <3>1, AllLose
  <2> QED
    BY <2>4, <2>5
<1>10. ScansOnce'
  <2>1. \A l \in R!Kinds : Single(active'[l])
    BY <1>7 DEF RadarInv, ScansOnce
  <2> QED
    BY <1>1, <1>9, <2>1 DEF RadarInv, ScansOnce
<1> QED
  BY <1>5, <1>8, <1>10

\* Steps of a worker between the buffers.
LEMMA RadarGo ==
  ASSUME RadarInv, NEW w \in Workers,
         R!TestCount(w) \/ R!ResetCount(w) \/ R!WriteDataToDatabase(w)
  PROVE  RadarType' /\ BufferType' /\ ScansOnce'
<1>1. UNCHANGED <<toldScans, task, taken, queues, tasks, row, active, batch, ready, stored>>
  BY DEF R!TestCount, R!ResetCount, R!WriteDataToDatabase, R!service, R!buffers
<1>2. PICK to \in {"idle", "reset", "drain"} : pc' = [pc EXCEPT ![w] = to]
  BY DEF R!TestCount, R!ResetCount, R!WriteDataToDatabase, R!Go
<1>3. posted' \in [R!Kinds -> Nat]
  <2>1. posted \in [R!Kinds -> Nat]
    BY DEF RadarInv, RadarType
  <2>2. CASE R!TestCount(w) \/ R!ResetCount(w)
    BY <2>1, <2>2 DEF R!TestCount, R!ResetCount, R!buffers
  <2>3. CASE R!WriteDataToDatabase(w)
    BY <2>1, <2>3 DEF R!WriteDataToDatabase
  <2> QED
    BY <2>2, <2>3
<1>4. pc \in [Workers -> WorkerSteps]
  BY DEF RadarInv, RadarType
<1>5. /\ pc' \in [Workers -> WorkerSteps] /\ pc'[w] \notin {"call", "push"}
      /\ \A v \in Workers \ {w} : pc'[v] = pc[v]
  BY <1>2, <1>4 DEF WorkerSteps
<1>6. RadarType'
  <2>1. \A v \in Workers : pc'[v] = "call" => row'[v].kind \in R!Kinds /\ row'[v].scan \in 1..Len(taken)
    BY <1>1, <1>5 DEF RadarInv, RadarType
  <2>2. \A v \in Workers : pc'[v] = "push" => \E k \in R!Kinds : row'[v] \in RowsOf(k, taken)
    BY <1>1, <1>5 DEF RadarInv, RadarType
  <2> QED
    BY <1>1, <1>3, <1>5, <2>1, <2>2 DEF RadarInv, RadarType
<1>7. ScansOnce'
  <2>1. \A k \in R!Kinds, v \in Workers : InHand(k, v)' \subseteq InHand(k, v)
    BY <1>1, <1>5 DEF InHand
  <2> QED
    BY <1>1, <2>1, OnceKept DEF RadarInv
<1> QED
  BY <1>1, <1>6, <1>7, BufferTypeKept DEF RadarInv

\* One row of a buffer goes to the batch of the worker.
LEMMA RadarDrain ==
  ASSUME RadarInv, NEW w \in Workers, R!Drain(w) PROVE RadarType' /\ BufferType' /\ ScansOnce'
<1>1. PICK k \in R!Kinds : /\ active[k] # <<>>
                          /\ active' = [active EXCEPT ![k] = Tail(@)]
                          /\ batch' = [batch EXCEPT ![w][k] = Append(@, Head(active[k]))]
  BY DEF R!Drain
<1> DEFINE r == Head(active[k])
           rows2 == Append(batch[w][k], r)
<1>2. UNCHANGED <<toldScans, task, taken, queues, tasks, pc, row, ready, posted, stored>>
  BY DEF R!Drain, R!service
<1>3. /\ active \in [R!Kinds -> Seq(UNION {RowsOf(l, taken) : l \in R!Kinds})]
      /\ batch \in [Workers -> [R!Kinds -> Seq(UNION {RowsOf(l, taken) : l \in R!Kinds})]]
      /\ active[k] \in Seq(RowsOf(k, taken)) /\ batch[w][k] \in Seq(RowsOf(k, taken))
      /\ Single(active[k]) /\ Single(batch[w][k]) /\ taken \in Seq(Nat)
  BY DEF RadarInv, RadarType, BufferType, ScansOnce
<1>4. /\ Tail(active[k]) \in Seq(RowsOf(k, taken)) /\ Single(Tail(active[k]))
      /\ r \in RowsOf(k, taken) /\ r.kind = k /\ r.scan \in ScansOf(active[k], k)
      /\ ScansOf(Tail(active[k]), k) \subseteq ScansOf(active[k], k)
      /\ r.scan \notin ScansOf(Tail(active[k]), k)
  <2>1. r \in RowsOf(k, taken) /\ r.kind = k
    BY <1>1, <1>3, RowFieldsOf
  <2> QED
    BY <1>1, <1>3, <2>1, TailOnce, KindsAre
<1> HIDE DEF r
<1>5. r.scan \notin ScansOf(batch[w][k], k)
  <2>1. <<"active", 0>> \in Spots /\ <<"batch", w>> \in Spots /\ <<"active", 0>> # <<"batch", w>>
    BY DEF Spots
  <2>2. At(k, <<"active", 0>>) \cap At(k, <<"batch", w>>) = {}
    BY <2>1 DEF RadarInv, ScansOnce, Apart
  <2> QED
    BY <1>4, <2>2, SpotHolds
<1>6. /\ rows2 \in Seq(RowsOf(k, taken)) /\ Single(rows2)
      /\ ScansOf(rows2, k) = ScansOf(batch[w][k], k) \cup {r.scan}
  BY <1>3, <1>4, <1>5, AppendOnce
<1> HIDE DEF rows2
<1>7. /\ active'[k] = Tail(active[k]) /\ \A l \in R!Kinds \ {k} : active'[l] = active[l]
      /\ batch'[w][k] = rows2 /\ \A l \in R!Kinds \ {k} : batch'[w][l] = batch[w][l]
      /\ \A v \in Workers \ {w} : batch'[v] = batch[v]
  BY <1>1, <1>3 DEF rows2, r
<1>8. RadarType'
  BY <1>2 DEF RadarInv, RadarType
<1>9. BufferType'
  <2>1. Seq(RowsOf(k, taken)) \subseteq Seq(UNION {RowsOf(l, taken) : l \in R!Kinds})
    <3>1. RowsOf(k, taken) \subseteq UNION {RowsOf(l, taken) : l \in R!Kinds}
      OBVIOUS
    <3> QED
      BY <3>1
  <2>2. active' \in [R!Kinds -> Seq(UNION {RowsOf(l, taken) : l \in R!Kinds})]
    BY <1>1, <1>3, <1>4, <2>1
  <2>3. batch' \in [Workers -> [R!Kinds -> Seq(UNION {RowsOf(l, taken) : l \in R!Kinds})]]
    <3>1. batch' = [batch EXCEPT ![w][k] = rows2]
      BY <1>1 DEF rows2, r
    <3>2. rows2 \in Seq(UNION {RowsOf(l, taken) : l \in R!Kinds})
      BY <1>6, <2>1
    <3> QED
      BY <1>3, <3>1, <3>2
  <2>4. \A l \in R!Kinds : /\ active'[l] \in Seq(RowsOf(l, taken))
                          /\ \A v \in Workers : batch'[v][l] \in Seq(RowsOf(l, taken))
    BY <1>4, <1>6, <1>7 DEF RadarInv, BufferType
  <2> QED
    BY <1>2, <2>2, <2>3, <2>4 DEF RadarInv, BufferType
<1>10. ASSUME NEW l \in R!Kinds PROVE Apart(l)'
  <2>1. /\ Waiting(l)' = Waiting(l) /\ InStore(l)' = InStore(l)
        /\ \A v \in Workers : InHand(l, v)' = InHand(l, v)
    BY <1>2, SpotsKept
  <2>2. Apart(l) /\ ScansOf(active'[l], l) \subseteq ScansOf(active[l], l)
    BY <1>4, <1>7 DEF RadarInv, ScansOnce
  <2>3. \A v \in Workers \ {w} : ScansOf(batch'[v][l], l) = ScansOf(batch[v][l], l)
    BY <1>7
  <2>4. CASE l = k
    <3> DEFINE X == {r.scan}
    <3>1. <<"active", 0>> \in Spots /\ <<"batch", w>> \in Spots /\ <<"active", 0>> # <<"batch", w>>
      BY DEF Spots
    <3>2. \A p \in Spots \ {<<"batch", w>>} : At(l, p)' \subseteq At(l, p)
      BY <1>2, <2>1, <2>2, <2>3, OthersLose
    <3>3. X \subseteq At(l, <<"active", 0>>) /\ X \cap At(l, <<"active", 0>>)' = {}
      BY <1>4, <1>7, <2>4, SpotHolds
    <3>4. At(l, <<"batch", w>>)' \subseteq At(l, <<"batch", w>>) \cup X
      BY <1>6, <1>7, <2>4, SpotHolds
    <3> HIDE DEF X
    <3> QED
      BY <2>2, <3>1, <3>2, <3>3, <3>4, MoveScans
  <2>5. CASE l # k
    <3>1. ScansOf(batch'[w][l], l) = ScansOf(batch[w][l], l)
      BY <1>7, <2>5
    <3> QED
      BY <1>2, <2>1, <2>2, <2>3, <3>1, AllLose
  <2> QED
    BY <2>4, <2>5
<1>11. ScansOnce'
  <2>1. \A l \in R!Kinds : Single(active'[l]) /\ \A v \in Workers : Single(batch'[v][l])
    BY <1>4, <1>6, <1>7 DEF RadarInv, ScansOnce
  <2> QED
    BY <1>2, <1>10, <2>1 DEF RadarInv, ScansOnce
<1> QED
  BY <1>8, <1>9, <1>11

\* The worker's batch takes the place of what was ready.
LEMMA RadarSwap ==
  ASSUME RadarInv, NEW w \in Workers, R!Swap(w) PROVE RadarType' /\ BufferType' /\ ScansOnce'
<1>1. /\ UNCHANGED <<toldScans, task, taken, queues, tasks, row, active, posted, stored>>
      /\ pc' = [pc EXCEPT ![w] = "look"] /\ pc[w] = "drain"
      /\ ready' = batch[w] /\ batch' = [batch EXCEPT ![w] = [k \in R!Kinds |-> <<>>]]
  BY DEF R!Swap, R!Go, R!service, R!NoRows
<1>2. /\ pc \in [Workers -> WorkerSteps]
      /\ batch \in [Workers -> [R!Kinds -> Seq(UNION {RowsOf(k, taken) : k \in R!Kinds})]]
      /\ \A v \in Workers, k \in R!Kinds : batch[v][k] \in Seq(RowsOf(k, taken))
  BY DEF RadarInv, RadarType, BufferType
<1>3. /\ pc' \in [Workers -> WorkerSteps] /\ pc'[w] \notin {"call", "push"}
      /\ \A v \in Workers \ {w} : pc'[v] = pc[v]
  BY <1>1, <1>2 DEF WorkerSteps
<1>4. RadarType'
  <2>1. \A v \in Workers : pc'[v] = "call" => row'[v].kind \in R!Kinds /\ row'[v].scan \in 1..Len(taken)
    BY <1>1, <1>3 DEF RadarInv, RadarType
  <2>2. \A v \in Workers : pc'[v] = "push" => \E k \in R!Kinds : row'[v] \in RowsOf(k, taken)
    BY <1>1, <1>3 DEF RadarInv, RadarType
  <2> QED
    BY <1>1, <1>3, <2>1, <2>2 DEF RadarInv, RadarType
<1>5. /\ \A k \in R!Kinds : ready'[k] = batch[w][k] /\ batch'[w][k] = <<>>
      /\ \A v \in Workers \ {w} : batch'[v] = batch[v]
  BY <1>1, <1>2
<1>6. BufferType'
  <2>1. [k \in R!Kinds |-> <<>>] \in [R!Kinds -> Seq(UNION {RowsOf(k, taken) : k \in R!Kinds})]
    OBVIOUS
  <2>2. /\ ready' \in [R!Kinds -> Seq(UNION {RowsOf(k, taken) : k \in R!Kinds})]
        /\ batch' \in [Workers -> [R!Kinds -> Seq(UNION {RowsOf(k, taken) : k \in R!Kinds})]]
    BY <1>1, <1>2, <2>1
  <2>3. \A k \in R!Kinds : <<>> \in Seq(RowsOf(k, taken))
    OBVIOUS
  <2>4. \A k \in R!Kinds : /\ ready'[k] \in Seq(RowsOf(k, taken))
                          /\ \A v \in Workers : batch'[v][k] \in Seq(RowsOf(k, taken))
    BY <1>2, <1>5, <2>3
  <2> QED
    BY <1>1, <2>2, <2>4 DEF RadarInv, BufferType
<1>7. ASSUME NEW k \in R!Kinds PROVE Apart(k)'
  <2>1. /\ Waiting(k)' = Waiting(k) /\ InStore(k)' = InStore(k)
        /\ \A v \in Workers : InHand(k, v)' \subseteq InHand(k, v)
    BY <1>1, <1>3, SpotsKept DEF InHand
  <2>2. \A v \in Workers : ScansOf(batch'[v][k], k) \subseteq ScansOf(batch[v][k], k)
    BY <1>5 DEF ScansOf
  <2> DEFINE X == ScansOf(batch[w][k], k)
  <2>3. <<"batch", w>> \in Spots /\ <<"ready", 0>> \in Spots /\ <<"batch", w>> # <<"ready", 0>>
    BY DEF Spots
  <2>4. \A p \in Spots \ {<<"ready", 0>>} : At(k, p)' \subseteq At(k, p)
    BY <1>1, <2>1, <2>2, OthersLose
  <2>5. ScansOf(batch'[w][k], k) = {}
    BY <1>5 DEF ScansOf
  <2>6. X \subseteq At(k, <<"batch", w>>) /\ X \cap At(k, <<"batch", w>>)' = {}
        /\ At(k, <<"ready", 0>>)' \subseteq At(k, <<"ready", 0>>) \cup X
    BY <1>5, <2>5, SpotHolds
  <2>7. Apart(k)
    BY DEF RadarInv, ScansOnce
  <2> HIDE DEF X
  <2> QED
    BY <2>3, <2>4, <2>6, <2>7, MoveScans
<1>8. ScansOnce'
  <2>1. Single(<<>>)
    BY DEF Single
  <2>2. \A k \in R!Kinds : Single(ready'[k]) /\ \A v \in Workers : Single(batch'[v][k])
    BY <1>5, <2>1 DEF RadarInv, ScansOnce
  <2> QED
    BY <1>1, <1>7, <2>2 DEF RadarInv, ScansOnce
<1> QED
  BY <1>4, <1>6, <1>8

\* The rows that are ready go to the database, or are lost.
LEMMA RadarWriteBatch ==
  ASSUME RadarInv, NEW k \in R!Kinds, R!WriteBatch(k) PROVE RadarType' /\ BufferType' /\ ScansOnce'
<1> DEFINE new == {ready[k][i] : i \in DOMAIN ready[k]}
<1>1. /\ UNCHANGED <<toldScans, task, taken, queues, tasks, pc, row, active, batch>>
      /\ posted[k] > 0 /\ posted' = [posted EXCEPT ![k] = @ - 1]
      /\ ready' = [ready EXCEPT ![k] = <<>>] /\ stored' \in {stored, stored \cup new}
  BY DEF R!WriteBatch, R!service, R!ToSet
<1>2. /\ posted \in [R!Kinds -> Nat] /\ taken \in Seq(Nat)
      /\ ready \in [R!Kinds -> Seq(UNION {RowsOf(l, taken) : l \in R!Kinds})]
      /\ ready[k] \in Seq(RowsOf(k, taken)) /\ Single(ready[k])
      /\ stored \subseteq UNION {RowsOf(l, taken) : l \in R!Kinds}
  BY DEF RadarInv, RadarType, BufferType, ScansOnce
<1>3. /\ new \subseteq RowsOf(k, taken)
      /\ \A i \in DOMAIN ready[k] : ready[k][i].kind = k
      /\ \A r \in new : r.kind = k /\ r.scan \in ScansOf(ready[k], k)
  <2>1. \A i \in DOMAIN ready[k] : ready[k][i] \in RowsOf(k, taken)
    BY <1>2
  <2>2. \A i \in DOMAIN ready[k] : ready[k][i].kind = k
    BY <1>2, <2>1, RowFieldsOf
  <2> QED
    BY <2>1, <2>2 DEF ScansOf
<1>4. ready'[k] = <<>> /\ \A l \in R!Kinds \ {k} : ready'[l] = ready[l]
  BY <1>1, <1>2
<1>5. \A r, s \in new : r.scan = s.scan => r = s
  <2> SUFFICES ASSUME NEW i \in DOMAIN ready[k], NEW j \in DOMAIN ready[k],
                      ready[k][i].scan = ready[k][j].scan
               PROVE  ready[k][i] = ready[k][j]
    OBVIOUS
  <2> QED
    BY <1>2, <1>3, KindsAre DEF Single
<1> HIDE DEF new
<1>6. RadarType'
  <2>1. posted' \in [R!Kinds -> Nat]
    BY <1>1, <1>2
  <2> QED
    BY <1>1, <2>1 DEF RadarInv, RadarType
<1>7. BufferType'
  <2>1. ready' \in [R!Kinds -> Seq(UNION {RowsOf(l, taken) : l \in R!Kinds})]
    BY <1>1, <1>2
  <2>2. stored' \subseteq UNION {RowsOf(l, taken) : l \in R!Kinds}
    BY <1>1, <1>2, <1>3
  <2>3. <<>> \in Seq(RowsOf(k, taken))
    OBVIOUS
  <2>4. \A l \in R!Kinds : ready'[l] \in Seq(RowsOf(l, taken))
    BY <1>4, <2>3 DEF RadarInv, BufferType
  <2> QED
    BY <1>1, <2>1, <2>2, <2>4 DEF RadarInv, BufferType
<1>8. ScansOf(ready[k], k) \cap InStore(k) = {}
  <2>1. <<"ready", 0>> \in Spots /\ <<"stored", 0>> \in Spots /\ <<"ready", 0>> # <<"stored", 0>>
    BY DEF Spots
  <2>2. At(k, <<"ready", 0>>) \cap At(k, <<"stored", 0>>) = {}
    BY <2>1 DEF RadarInv, ScansOnce, Apart
  <2> QED
    BY <2>2, SpotHolds
<1>9. ASSUME NEW l \in R!Kinds PROVE Apart(l)'
  <2>1. Waiting(l)' = Waiting(l) /\ \A v \in Workers : InHand(l, v)' = InHand(l, v)
    BY <1>1, SpotsKept
  <2>2. Apart(l)
    BY DEF RadarInv, ScansOnce
  <2>3. ScansOf(ready'[l], l) \subseteq ScansOf(ready[l], l)
    BY <1>4 DEF ScansOf
  <2>4. CASE l = k
    <3> DEFINE X == ScansOf(ready[k], k)
    <3>1. <<"ready", 0>> \in Spots /\ <<"stored", 0>> \in Spots /\ <<"ready", 0>> # <<"stored", 0>>
      BY DEF Spots
    <3>2. \A p \in Spots \ {<<"stored", 0>>} : At(l, p)' \subseteq At(l, p)
      BY <1>1, <2>1, <2>3, OthersLose
    <3>3. InStore(k)' \subseteq InStore(k) \cup X
      BY <1>1, <1>3 DEF InStore
    <3>4. ScansOf(ready'[k], k) = {}
      BY <1>4 DEF ScansOf
    <3>5. X \subseteq At(l, <<"ready", 0>>) /\ X \cap At(l, <<"ready", 0>>)' = {}
          /\ At(l, <<"stored", 0>>)' \subseteq At(l, <<"stored", 0>>) \cup X
      BY <2>4, <3>3, <3>4, SpotHolds
    <3> HIDE DEF X
    <3> QED
      BY <2>2, <3>1, <3>2, <3>5, MoveScans
  <2>5. CASE l # k
    <3>1. InStore(l)' \subseteq InStore(l)
      BY <1>1, <1>3, <2>5 DEF InStore
    <3> QED
      BY <1>1, <2>1, <2>2, <2>3, <3>1, AllLose
  <2> QED
    BY <2>4, <2>5
<1>10. \A r, s \in stored' : r.kind = s.kind /\ r.scan = s.scan => r = s
  <2>1. \A r, s \in stored : r.kind = s.kind /\ r.scan = s.scan => r = s
    BY DEF RadarInv, ScansOnce
  <2>2. \A r \in stored, s \in new : ~(r.kind = s.kind /\ r.scan = s.scan)
    BY <1>3, <1>8 DEF InStore
  <2> QED
    BY <1>1, <1>3, <1>5, <2>1, <2>2
<1>11. ScansOnce'
  <2>1. Single(<<>>)
    BY DEF Single
  <2>2. \A l \in R!Kinds : Single(ready'[l])
    BY <1>4, <2>1 DEF RadarInv, ScansOnce
  <2> QED
    BY <1>1, <1>9, <1>10, <2>2 DEF RadarInv, ScansOnce
<1> QED
  BY <1>6, <1>7, <1>11

LEMMA RadarStopped == ASSUME RadarInv, R!Stop \/ UNCHANGED R!radarVars
                      PROVE  RadarType' /\ BufferType' /\ ScansOnce'
<1>1. UNCHANGED <<toldScans, task, taken, queues, tasks, pc, row, active, batch, ready, posted, stored>>
  BY DEF R!Stop, R!buffers, R!radarVars, R!service
<1>2. ScansOnce'
  BY <1>1, OnceKept, SpotsKept DEF RadarInv
<1>3. RadarType'
  BY <1>1 DEF RadarInv, RadarType
<1> QED
  BY <1>1, <1>2, <1>3, BufferTypeKept DEF RadarInv

\* Rows come to be ready where their worker is about to look.
LEMMA WriterStep == ASSUME RadarInv, [R!Next]_(R!radarVars) PROVE R!ReadyHasWriter'
<1>1. /\ posted \in [R!Kinds -> Nat] /\ pc \in [Workers -> WorkerSteps] /\ R!ReadyHasWriter
      /\ ready \in [R!Kinds -> Seq(UNION {RowsOf(l, taken) : l \in R!Kinds})]
  BY DEF RadarInv, RadarType, BufferType
<1>2. CASE UNCHANGED <<ready, posted, pc>>
  BY <1>1, <1>2 DEF R!ReadyHasWriter
<1>3. ASSUME NEW w \in Workers, pc[w] # "look", pc' = [pc EXCEPT ![w] = pc'[w]],
             UNCHANGED <<ready, posted>>
      PROVE  R!ReadyHasWriter'
  BY <1>1, <1>3 DEF R!ReadyHasWriter
<1>4. ASSUME NEW w \in Workers,
             \/ R!TakeTask(w) \/ R!Call(w) \/ R!WriteBatchToVector(w) \/ R!TestCount(w)
             \/ R!ResetCount(w)
      PROVE  R!ReadyHasWriter'
  <2>1. /\ pc[w] # "look" /\ UNCHANGED <<ready, posted>>
        /\ \E to : pc' = [pc EXCEPT ![w] = to]
    BY <1>4 DEF R!TakeTask, R!Call, R!WriteBatchToVector, R!TestCount, R!ResetCount, R!Go, R!buffers
  <2>2. pc' = [pc EXCEPT ![w] = pc'[w]]
    BY <1>1, <2>1
  <2> QED
    BY <1>3, <2>1, <2>2
<1>5. ASSUME NEW w \in Workers, R!Swap(w) PROVE R!ReadyHasWriter'
  <2>1. pc'[w] = "look"
    BY <1>1, <1>5 DEF R!Swap, R!Go
  <2> QED
    BY <2>1 DEF R!ReadyHasWriter
<1>6. ASSUME NEW w \in Workers, R!WriteDataToDatabase(w) PROVE R!ReadyHasWriter'
  <2>1. /\ ready' = ready
        /\ posted' = [k \in R!Kinds |-> posted[k] + IF ready[k] = <<>> THEN 0 ELSE 1]
    BY <1>6 DEF R!WriteDataToDatabase
  <2>2. \A k \in R!Kinds : ready'[k] # <<>> => posted'[k] > 0
    BY <1>1, <2>1
  <2> QED
    BY <2>2 DEF R!ReadyHasWriter
<1>7. ASSUME NEW k \in R!Kinds, R!WriteBatch(k) PROVE R!ReadyHasWriter'
  <2>1. /\ ready'[k] = <<>> /\ pc' = pc
        /\ \A l \in R!Kinds \ {k} : ready'[l] = ready[l] /\ posted'[l] = posted[l]
    BY <1>1, <1>7 DEF R!WriteBatch
  <2> QED
    BY <1>1, <2>1 DEF R!ReadyHasWriter
<1>8. ASSUME R!NotifyTask \/ R!SqlRecord \/ R!DeviceDataNormal \/ R!DeviceDataOverrun
             \/ R!OnTimerRestart \/ R!Stop \/ (\E w \in Workers : R!Drain(w))
             \/ UNCHANGED R!radarVars
      PROVE  UNCHANGED <<ready, posted, pc>>
  BY <1>8 DEF R!NotifyTask, R!SqlRecord, R!DeviceDataNormal, R!DeviceDataOverrun, R!Pop,
              R!OnTimerRestart, R!Stop, R!Drain, R!buffers, R!radarVars
<1> QED
  BY <1>2, <1>4, <1>5, <1>6, <1>7, <1>8 DEF R!Next

LEMMA RadarStep == RadarInv /\ [R!Next]_(R!radarVars) => RadarInv'
<1> SUFFICES ASSUME RadarInv, [R!Next]_(R!radarVars) PROVE RadarType' /\ BufferType' /\ ScansOnce'
  BY WriterStep DEF RadarInv
<1>1. CASE R!DeviceDataNormal
  <2>1. /\ "normal" \in R!Kinds /\ R!Pop("normal")
        /\ tasks' = Append(tasks, [kind |-> "normal", scan |-> Head(queues["normal"])])
    BY <1>1 DEF R!DeviceDataNormal, R!Enqueue, R!Kinds
  <2> QED
    BY <2>1, RadarPop
<1>2. CASE R!DeviceDataOverrun
  <2>1. /\ "over" \in R!Kinds /\ R!Pop("over")
        /\ \/ tasks' = tasks
           \/ tasks' = Append(tasks, [kind |-> "over", scan |-> Head(queues["over"])])
    BY <1>2 DEF R!DeviceDataOverrun, R!Enqueue, R!Kinds
  <2> QED
    BY <2>1, RadarPop
<1> QED
  BY <1>1, <1>2, RadarNotifyTask, RadarSqlRecord, RadarReload, RadarStopped, RadarTakeTask,
     RadarCall, RadarWrite, RadarGo, RadarDrain, RadarSwap, RadarWriteBatch DEF R!Next

-----------------------------------------------------------------------------
\* Where a row is, of the places that rows have.
SitsAt(r, p) ==
  \/ p = <<"active", 0>> /\ r \in {active[r.kind][i] : i \in DOMAIN active[r.kind]}
  \/ p = <<"ready", 0>> /\ r \in {ready[r.kind][i] : i \in DOMAIN ready[r.kind]}
  \/ p = <<"stored", 0>> /\ r \in stored
  \/ \E w \in Workers : /\ p = <<"batch", w>>
                       /\ r \in {batch[w][r.kind][i] : i \in DOMAIN batch[w][r.kind]}

\* A row of a buffer has the kind of the buffer and a scan that is there.
LEMMA RowInBuffer ==
  ASSUME RadarInv, NEW k \in R!Kinds, NEW s \in Seq(RowsOf(k, taken)), NEW i \in DOMAIN s
  PROVE  s[i] \in RowsOf(k, taken) /\ s[i].kind = k /\ s[i].scan \in ScansOf(s, k)
<1>1. s[i] \in RowsOf(k, taken)
  OBVIOUS
<1>2. s[i].kind = k
  BY <1>1, RowFieldsOf DEF RadarInv, RadarType
<1> QED
  BY <1>1, <1>2 DEF ScansOf

LEMMA KnownSits ==
  ASSUME RadarInv, NEW r \in R!Known
  PROVE  /\ r.kind \in R!Kinds /\ r \in RowsOf(r.kind, taken)
         /\ \E p \in Spots : SitsAt(r, p)
<1>1. CASE r \in stored
  <2>1. PICK k \in R!Kinds : r \in RowsOf(k, taken)
    BY <1>1 DEF RadarInv, BufferType
  <2>2. r.kind = k
    BY <2>1, RowFieldsOf DEF RadarInv, RadarType
  <2>3. <<"stored", 0>> \in Spots /\ SitsAt(r, <<"stored", 0>>)
    BY <1>1 DEF Spots, SitsAt
  <2> QED
    BY <2>1, <2>2, <2>3
<1>2. CASE r \notin stored
  <2>1. PICK q \in R!Buffers, k \in R!Kinds : r \in {q[k][i] : i \in DOMAIN q[k]}
    BY <1>2 DEF R!Known, R!ToSet
  <2>2. CASE q = active
    <3>1. r \in RowsOf(k, taken) /\ r.kind = k
      BY <2>1, <2>2, RowInBuffer DEF RadarInv, BufferType
    <3>2. <<"active", 0>> \in Spots /\ SitsAt(r, <<"active", 0>>)
      BY <2>1, <2>2, <3>1 DEF Spots, SitsAt
    <3> QED
      BY <3>1, <3>2
  <2>3. CASE q = ready
    <3>1. r \in RowsOf(k, taken) /\ r.kind = k
      BY <2>1, <2>3, RowInBuffer DEF RadarInv, BufferType
    <3>2. <<"ready", 0>> \in Spots /\ SitsAt(r, <<"ready", 0>>)
      BY <2>1, <2>3, <3>1 DEF Spots, SitsAt
    <3> QED
      BY <3>1, <3>2
  <2>4. ASSUME NEW w \in Workers, q = batch[w]
        PROVE  r.kind = k /\ r \in RowsOf(r.kind, taken) /\ \E p \in Spots : SitsAt(r, p)
    <3>1. r \in RowsOf(k, taken) /\ r.kind = k
      BY <2>1, <2>4, RowInBuffer DEF RadarInv, BufferType
    <3>2. <<"batch", w>> \in Spots /\ SitsAt(r, <<"batch", w>>)
      BY <2>1, <2>4, <3>1 DEF Spots, SitsAt
    <3> QED
      BY <3>1, <3>2
  <2> QED
    BY <2>2, <2>3, <2>4 DEF R!Buffers
<1> QED
  BY <1>1, <1>2

\* Where a row sits its scan is.
LEMMA SitsHolds ==
  ASSUME RadarInv, NEW r, r.kind \in R!Kinds, NEW p \in Spots, SitsAt(r, p)
  PROVE  r.scan \in At(r.kind, p)
<1> DEFINE k == r.kind
<1>1. /\ active[k] \in Seq(RowsOf(k, taken)) /\ ready[k] \in Seq(RowsOf(k, taken))
      /\ \A w \in Workers : batch[w][k] \in Seq(RowsOf(k, taken))
  BY DEF RadarInv, BufferType
<1>2. CASE p = <<"active", 0>> /\ r \in {active[k][i] : i \in DOMAIN active[k]}
  <2>1. r.scan \in ScansOf(active[k], k)
    BY <1>1, <1>2, RowInBuffer
  <2> QED
    BY <1>2, <2>1, SpotHolds
<1>3. CASE p = <<"ready", 0>> /\ r \in {ready[k][i] : i \in DOMAIN ready[k]}
  <2>1. r.scan \in ScansOf(ready[k], k)
    BY <1>1, <1>3, RowInBuffer
  <2> QED
    BY <1>3, <2>1, SpotHolds
<1>4. CASE p = <<"stored", 0>> /\ r \in stored
  <2>1. r.scan \in InStore(k)
    BY <1>4 DEF InStore
  <2> QED
    BY <1>4, <2>1, SpotHolds
<1>5. ASSUME NEW w \in Workers, p = <<"batch", w>>,
             r \in {batch[w][k][i] : i \in DOMAIN batch[w][k]}
      PROVE  r.scan \in At(k, p)
  <2>1. r.scan \in ScansOf(batch[w][k], k)
    BY <1>1, <1>5, RowInBuffer
  <2> QED
    BY <1>5, <2>1, SpotHolds
<1> QED
  BY <1>2, <1>3, <1>4, <1>5 DEF SitsAt

\* A row sits in one place.
LEMMA SitsOnce ==
  ASSUME RadarInv, NEW r, NEW s, r.kind \in R!Kinds, r.kind = s.kind, r.scan = s.scan,
         NEW p \in Spots, NEW q \in Spots, SitsAt(r, p), SitsAt(s, q)
  PROVE  p = q
<1>1. r.scan \in At(r.kind, p) /\ r.scan \in At(r.kind, q)
  BY SitsHolds
<1> QED
  BY <1>1 DEF RadarInv, ScansOnce, Apart

\* A buffer has a scan once.
LEMMA RowOnce ==
  ASSUME RadarInv, NEW k \in R!Kinds, NEW s \in Seq(RowsOf(k, taken)), Single(s),
         NEW i \in DOMAIN s, NEW j \in DOMAIN s, s[i].scan = s[j].scan
  PROVE  i = j
<1>1. s[i].kind = k /\ s[j].kind = k
  BY RowInBuffer
<1> QED
  BY <1>1, KindsAre DEF Single

LEMMA RowsRecordedOnce == RadarInv => R!RecordedOnce
<1> SUFFICES ASSUME RadarInv, NEW r \in R!Known
             PROVE  /\ \A p, q \in R!Places(r) : p = q
                    /\ \A s \in R!Known : r.kind = s.kind /\ r.scan = s.scan => r = s
  BY DEF R!RecordedOnce
<1> DEFINE k == r.kind
<1>1. k \in R!Kinds
  BY KnownSits
<1>2. /\ active[k] \in Seq(RowsOf(k, taken)) /\ ready[k] \in Seq(RowsOf(k, taken))
      /\ \A w \in Workers : batch[w][k] \in Seq(RowsOf(k, taken))
      /\ Single(active[k]) /\ Single(ready[k]) /\ \A w \in Workers : Single(batch[w][k])
  BY <1>1 DEF RadarInv, BufferType, ScansOnce
<1>3. ASSUME NEW s \in R!Known, r.kind = s.kind, r.scan = s.scan PROVE r = s
  <2>1. PICK p \in Spots : SitsAt(r, p) /\ SitsAt(s, p)
    BY <1>1, <1>3, KnownSits, SitsOnce
  <2>2. CASE p = <<"active", 0>>
    <3>1. PICK i \in DOMAIN active[k], j \in DOMAIN active[k] : r = active[k][i] /\ s = active[k][j]
      BY <1>3, <2>1, <2>2 DEF SitsAt
    <3> QED
      BY <1>1, <1>2, <1>3, <3>1, RowOnce
  <2>3. CASE p = <<"ready", 0>>
    <3>1. PICK i \in DOMAIN ready[k], j \in DOMAIN ready[k] : r = ready[k][i] /\ s = ready[k][j]
      BY <1>3, <2>1, <2>3 DEF SitsAt
    <3> QED
      BY <1>1, <1>2, <1>3, <3>1, RowOnce
  <2>4. CASE p = <<"stored", 0>>
    <3>1. r \in stored /\ s \in stored
      BY <2>1, <2>4 DEF SitsAt
    <3> QED
      BY <1>3, <3>1 DEF RadarInv, ScansOnce
  <2>5. ASSUME NEW w \in Workers, p = <<"batch", w>> PROVE r = s
    <3>1. PICK i \in DOMAIN batch[w][k], j \in DOMAIN batch[w][k] :
            r = batch[w][k][i] /\ s = batch[w][k][j]
      BY <1>3, <2>1, <2>5 DEF SitsAt
    <3> QED
      BY <1>1, <1>2, <1>3, <3>1, RowOnce
  <2> QED
    BY <2>1, <2>2, <2>3, <2>4, <2>5 DEF SitsAt
\* Each of the row's places, by what it tells of where the row sits.
<1>4. ASSUME NEW x \in R!Places(r)
      PROVE  \/ \E i \in DOMAIN active[k] :
                  x = <<"active", i>> /\ active[k][i] = r /\ SitsAt(r, <<"active", 0>>)
             \/ \E i \in DOMAIN ready[k] :
                  x = <<"ready", i>> /\ ready[k][i] = r /\ SitsAt(r, <<"ready", 0>>)
             \/ \E w \in Workers : \E i \in DOMAIN batch[w][k] :
                  x = <<w, i>> /\ batch[w][k][i] = r /\ SitsAt(r, <<"batch", w>>)
             \/ x = <<"stored", r>> /\ SitsAt(r, <<"stored", 0>>)
  <2>1. CASE x \in {"active"} \X R!InQueue(active, r)
    <3>1. PICK i \in DOMAIN active[k] : x = <<"active", i>> /\ active[k][i] = r
      BY <2>1 DEF R!InQueue
    <3> QED
      BY <3>1 DEF SitsAt
  <2>2. CASE x \in {"ready"} \X R!InQueue(ready, r)
    <3>1. PICK i \in DOMAIN ready[k] : x = <<"ready", i>> /\ ready[k][i] = r
      BY <2>2 DEF R!InQueue
    <3> QED
      BY <3>1 DEF SitsAt
  <2>3. ASSUME NEW w \in Workers, x \in {w} \X R!InQueue(batch[w], r)
        PROVE  \E i \in DOMAIN batch[w][k] :
                 x = <<w, i>> /\ batch[w][k][i] = r /\ SitsAt(r, <<"batch", w>>)
    <3>1. PICK i \in DOMAIN batch[w][k] : x = <<w, i>> /\ batch[w][k][i] = r
      BY <2>3 DEF R!InQueue
    <3> QED
      BY <3>1 DEF SitsAt
  <2>4. CASE x \in {"stored"} \X (stored \cap {r})
    BY <2>4 DEF SitsAt
  <2> QED
    <3>1. \/ x \in {"active"} \X R!InQueue(active, r)
          \/ x \in {"ready"} \X R!InQueue(ready, r)
          \/ \E w \in Workers : x \in {w} \X R!InQueue(batch[w], r)
          \/ x \in {"stored"} \X (stored \cap {r})
      BY <1>4 DEF R!Places
    <3> QED
      BY <2>1, <2>2, <2>3, <2>4, <3>1
<1>5. \A p, q \in Spots : SitsAt(r, p) /\ SitsAt(r, q) => p = q
  BY <1>1, SitsOnce
<1>6. /\ <<"active", 0>> \in Spots /\ <<"ready", 0>> \in Spots /\ <<"stored", 0>> \in Spots
      /\ \A w \in Workers : <<"batch", w>> \in Spots
  BY DEF Spots
<1>7. ASSUME NEW x \in R!Places(r), NEW y \in R!Places(r) PROVE x = y
  <2>1. CASE SitsAt(r, <<"active", 0>>)
    <3>1. /\ ~SitsAt(r, <<"ready", 0>>) /\ ~SitsAt(r, <<"stored", 0>>)
          /\ \A w \in Workers : ~SitsAt(r, <<"batch", w>>)
      BY <1>5, <1>6, <2>1
    <3>2. PICK i \in DOMAIN active[k], j \in DOMAIN active[k] :
            x = <<"active", i>> /\ y = <<"active", j>> /\ active[k][i] = r /\ active[k][j] = r
      BY <1>4, <3>1
    <3> QED
      BY <1>1, <1>2, <3>2, RowOnce
  <2>2. CASE SitsAt(r, <<"ready", 0>>)
    <3>1. /\ ~SitsAt(r, <<"active", 0>>) /\ ~SitsAt(r, <<"stored", 0>>)
          /\ \A w \in Workers : ~SitsAt(r, <<"batch", w>>)
      BY <1>5, <1>6, <2>2
    <3>2. PICK i \in DOMAIN ready[k], j \in DOMAIN ready[k] :
            x = <<"ready", i>> /\ y = <<"ready", j>> /\ ready[k][i] = r /\ ready[k][j] = r
      BY <1>4, <3>1
    <3> QED
      BY <1>1, <1>2, <3>2, RowOnce
  <2>3. CASE SitsAt(r, <<"stored", 0>>)
    <3>1. /\ ~SitsAt(r, <<"active", 0>>) /\ ~SitsAt(r, <<"ready", 0>>)
          /\ \A w \in Workers : ~SitsAt(r, <<"batch", w>>)
      BY <1>5, <1>6, <2>3
    <3> QED
      BY <1>4, <3>1
  <2>4. ASSUME NEW w \in Workers, SitsAt(r, <<"batch", w>>) PROVE x = y
    <3>1. /\ ~SitsAt(r, <<"active", 0>>) /\ ~SitsAt(r, <<"ready", 0>>) /\ ~SitsAt(r, <<"stored", 0>>)
          /\ \A v \in Workers : SitsAt(r, <<"batch", v>>) => v = w
      BY <1>5, <1>6, <2>4
    <3>2. ASSUME NEW z \in R!Places(r)
          PROVE  \E i \in DOMAIN batch[w][k] : z = <<w, i>> /\ batch[w][k][i] = r
      <4>1. PICK v \in Workers : \E i \in DOMAIN batch[v][k] :
              z = <<v, i>> /\ batch[v][k][i] = r /\ SitsAt(r, <<"batch", v>>)
        BY <1>4, <3>1
      <4> QED
        BY <3>1, <4>1
    <3>3. PICK i \in DOMAIN batch[w][k], j \in DOMAIN batch[w][k] :
            x = <<w, i>> /\ y = <<w, j>> /\ batch[w][k][i] = r /\ batch[w][k][j] = r
      BY <3>2
    <3> QED
      BY <1>1, <1>2, <3>3, RowOnce
  <2> QED
    BY <1>4, <2>1, <2>2, <2>3, <2>4
<1> QED
  BY <1>3, <1>7

LEMMA RowsNameNoEarlier == RadarInv => R!NoEarlierTask
<1> SUFFICES ASSUME RadarInv, NEW r \in R!Known PROVE r.task = 0 \/ r.task >= taken[r.scan]
  BY DEF R!NoEarlierTask
<1> QED
  BY KnownSits, RowFieldsOf DEF RadarInv, RadarType

-----------------------------------------------------------------------------
(* How a scan is put together: the frames of the devices.                  *)

Frame == [number : Nat, size : Nat]

\* Of one device: the number of the latest frame, those decoded, those to be
\* decoded and how many were received.  Each came before the ones behind it.
Ordered(m, q, c, r) ==
  /\ m \in 0..r
  /\ \A i \in DOMAIN q : m < q[i].number /\ q[i].number <= r
  /\ \A i \in DOMAIN c : m < c[i].number /\ c[i].number <= r
  /\ \A i, j \in DOMAIN q : i < j => q[i].number < q[j].number
  /\ \A i, j \in DOMAIN c : i < j => c[i].number < c[j].number
  /\ \A i \in DOMAIN q, j \in DOMAIN c : q[i].number < c[j].number

\* So many frames of a device have a signal each, in their order.
Signalled(s, d, n) ==
  \E f \in [1..n -> DOMAIN s] :
    \A i \in 1..n : s[f[i]] = d /\ \A j \in 1..(i - 1) : f[j] < f[i]

DeviceInv ==
  /\ received \in [1..Devices -> Nat] /\ signals \in Seq(1..Devices)
  /\ m_char_data \in [1..Devices -> Seq(Frame)] /\ m_data_queue \in [1..Devices -> Seq(Frame)]
  /\ mmap_device_data \in [1..Devices -> Frame]
  /\ \A d \in 1..Devices :
       /\ Ordered(mmap_device_data[d].number, m_data_queue[d], m_char_data[d], received[d])
       /\ Signalled(signals, d, Len(m_data_queue[d]))

LEMMA FrameFields ==
  ASSUME NEW f \in Frame PROVE f.number \in Nat /\ f.size \in Nat
BY DEF Frame

LEMMA TailOf ==
  ASSUME NEW T, NEW s \in Seq(T), s # <<>>
  PROVE  /\ Tail(s) \in Seq(T) /\ Head(s) \in T /\ Head(s) = s[1] /\ 1 \in DOMAIN s
         /\ Len(s) \in Nat /\ Len(s) > 0 /\ Len(Tail(s)) = Len(s) - 1 /\ DOMAIN s = 1..Len(s)
         /\ \A i \in DOMAIN Tail(s) : i \in Int /\ i > 0 /\ i + 1 \in DOMAIN s /\ Tail(s)[i] = s[i + 1]
OBVIOUS

LEMMA AppendOf ==
  ASSUME NEW T, NEW s \in Seq(T), NEW x \in T
  PROVE  /\ Append(s, x) \in Seq(T) /\ Len(s) \in Nat /\ Len(Append(s, x)) = Len(s) + 1
         /\ DOMAIN s = 1..Len(s) /\ DOMAIN Append(s, x) = 1..(Len(s) + 1)
         /\ \A i \in DOMAIN s : Append(s, x)[i] = s[i]
         /\ Append(s, x)[Len(s) + 1] = x
OBVIOUS

\* A frame is received.
LEMMA OrderedReceive ==
  ASSUME NEW m \in Nat, NEW q \in Seq(Frame), NEW c \in Seq(Frame), NEW r \in Nat,
         Ordered(m, q, c, r), NEW f \in Frame, f.number = r + 1
  PROVE  Ordered(m, q, Append(c, f), r + 1)
<1>1. /\ DOMAIN Append(c, f) = 1..(Len(c) + 1) /\ DOMAIN c = 1..Len(c) /\ Len(c) \in Nat
      /\ \A i \in 1..Len(c) : Append(c, f)[i] = c[i]
      /\ Append(c, f)[Len(c) + 1] = f
  OBVIOUS
<1>2. /\ \A i \in DOMAIN q : q[i].number \in Nat
      /\ \A i \in DOMAIN c : c[i].number \in Nat
  BY FrameFields
<1> QED
  BY <1>1, <1>2 DEF Ordered

\* A frame is dropped before it is decoded, or decoded.
LEMMA OrderedDecode ==
  ASSUME NEW m \in Nat, NEW q \in Seq(Frame), NEW c \in Seq(Frame), NEW r \in Nat,
         Ordered(m, q, c, r), c # <<>>
  PROVE  Ordered(m, q, Tail(c), r) /\ Ordered(m, Append(q, Head(c)), Tail(c), r)
<1>1. /\ Head(c) = c[1] /\ 1 \in DOMAIN c /\ Head(c) \in Frame
      /\ \A i \in DOMAIN Tail(c) : i \in Int /\ i > 0 /\ i + 1 \in DOMAIN c /\ Tail(c)[i] = c[i + 1]
  BY TailOf
<1>2. /\ DOMAIN Append(q, Head(c)) = 1..(Len(q) + 1) /\ DOMAIN q = 1..Len(q) /\ Len(q) \in Nat
      /\ \A i \in 1..Len(q) : Append(q, Head(c))[i] = q[i]
      /\ Append(q, Head(c))[Len(q) + 1] = c[1]
  BY <1>1, AppendOf
<1>3. /\ \A i \in DOMAIN q : q[i].number \in Nat
      /\ \A i \in DOMAIN c : c[i].number \in Nat
  BY FrameFields
<1>4. Ordered(m, q, Tail(c), r)
  BY <1>1, <1>3 DEF Ordered
<1>5. \A j \in DOMAIN Tail(c) : c[1].number < Tail(c)[j].number
  BY <1>1, <1>3 DEF Ordered
<1> QED
  BY <1>1, <1>2, <1>3, <1>4, <1>5 DEF Ordered

\* The oldest frames that are decoded are dropped.
LEMMA OrderedLast ==
  ASSUME NEW m \in Nat, NEW q \in Seq(Frame), NEW c \in Seq(Frame), NEW r \in Nat,
         Ordered(m, q, c, r), NEW n \in 0..Len(q)
  PROVE  LET t == SubSeq(q, n + 1, Len(q))
         IN t \in Seq(Frame) /\ Len(t) = Len(q) - n /\ Ordered(m, t, c, r)
<1> DEFINE t == SubSeq(q, n + 1, Len(q))
<1>1. /\ t \in Seq(Frame) /\ Len(t) = Len(q) - n /\ DOMAIN q = 1..Len(q) /\ DOMAIN t = 1..(Len(q) - n)
      /\ Len(q) \in Nat /\ \A i \in 1..(Len(q) - n) : t[i] = q[i + n] /\ i + n \in 1..Len(q)
  OBVIOUS
<1> HIDE DEF t
<1>2. \A i \in DOMAIN t : i \in Int /\ i + n \in DOMAIN q /\ t[i] = q[i + n]
  BY <1>1
<1>3. /\ m \in 0..r /\ \A i \in DOMAIN t : m < t[i].number /\ t[i].number <= r
      /\ \A i \in DOMAIN c : m < c[i].number /\ c[i].number <= r
      /\ \A i, j \in DOMAIN c : i < j => c[i].number < c[j].number
      /\ \A i \in DOMAIN t, j \in DOMAIN c : t[i].number < c[j].number
  BY <1>2 DEF Ordered
<1>4. ASSUME NEW i \in DOMAIN t, NEW j \in DOMAIN t, i < j PROVE t[i].number < t[j].number
  <2>1. i + n < j + n
    BY <1>2, <1>4
  <2> QED
    BY <1>2, <2>1 DEF Ordered
<1>5. Ordered(m, t, c, r)
  BY <1>3, <1>4 DEF Ordered
<1> QED
  BY <1>1, <1>5 DEF t

\* The oldest of them becomes the latest frame, or is thrown away.
LEMMA OrderedFetch ==
  ASSUME NEW m \in Nat, NEW q \in Seq(Frame), NEW c \in Seq(Frame), NEW r \in Nat,
         Ordered(m, q, c, r), q # <<>>
  PROVE  Ordered(m, Tail(q), c, r) /\ Ordered(Head(q).number, Tail(q), c, r)
<1>1. /\ Head(q) = q[1] /\ 1 \in DOMAIN q /\ Head(q) \in Frame
      /\ \A i \in DOMAIN Tail(q) : i \in Int /\ i > 0 /\ i + 1 \in DOMAIN q /\ Tail(q)[i] = q[i + 1]
  BY TailOf
<1>2. /\ \A i \in DOMAIN q : q[i].number \in Nat
      /\ \A i \in DOMAIN c : c[i].number \in Nat
  BY FrameFields
<1>3. Ordered(m, Tail(q), c, r)
  BY <1>1, <1>2 DEF Ordered
<1>4. /\ q[1].number \in 0..r
      /\ \A i \in DOMAIN Tail(q) : q[1].number < Tail(q)[i].number
      /\ \A i \in DOMAIN c : q[1].number < c[i].number
  BY <1>1, <1>2 DEF Ordered
<1> QED
  BY <1>1, <1>3, <1>4 DEF Ordered

\* A signal is sent for one frame more.
LEMMA SignalledAppend ==
  ASSUME NEW s \in Seq(1..Devices), NEW d \in 1..Devices, NEW e \in 1..Devices, NEW n \in Nat,
         Signalled(s, d, n)
  PROVE  Signalled(Append(s, e), d, n) /\ (d = e => Signalled(Append(s, e), d, n + 1))
<1>1. PICK f \in [1..n -> DOMAIN s] :
        \A i \in 1..n : s[f[i]] = d /\ \A j \in 1..(i - 1) : f[j] < f[i]
  BY DEF Signalled
<1> DEFINE t == Append(s, e)
<1>2. /\ Len(s) \in Nat /\ DOMAIN s = 1..Len(s) /\ DOMAIN t = 1..(Len(s) + 1)
      /\ \A i \in DOMAIN s : t[i] = s[i]
      /\ t[Len(s) + 1] = e
  OBVIOUS
<1> HIDE DEF t
<1>3. Signalled(t, d, n)
  <2>1. f \in [1..n -> DOMAIN t] /\ \A i \in 1..n : t[f[i]] = d
    BY <1>1, <1>2
  <2> QED
    BY <1>1, <2>1 DEF Signalled
<1>4. ASSUME d = e PROVE Signalled(t, d, n + 1)
  <2> DEFINE g == [i \in 1..(n + 1) |-> IF i <= n THEN f[i] ELSE Len(s) + 1]
  <2>1. \A i \in 1..n : f[i] \in 1..Len(s)
    BY <1>1, <1>2
  <2>2. g \in [1..(n + 1) -> DOMAIN t]
    BY <1>2, <2>1
  <2>3. /\ \A i \in 1..n : g[i] = f[i] /\ t[g[i]] = d
        /\ g[n + 1] = Len(s) + 1 /\ t[g[n + 1]] = d
    BY <1>1, <1>2, <1>4, <2>1
  <2> HIDE DEF g
  <2>4. \A i \in 1..(n + 1) : \A j \in 1..(i - 1) : g[j] < g[i]
    <3> SUFFICES ASSUME NEW i \in 1..(n + 1), NEW j \in 1..(i - 1) PROVE g[j] < g[i]
      OBVIOUS
    <3>1. CASE i <= n
      BY <1>1, <2>3, <3>1
    <3>2. CASE i = n + 1
      BY <1>2, <2>1, <2>3, <3>2
    <3> QED
      BY <3>1, <3>2
  <2>5. \A i \in 1..(n + 1) : t[g[i]] = d
    BY <2>3
  <2> QED
    BY <2>2, <2>4, <2>5 DEF Signalled
<1> QED
  BY <1>3, <1>4 DEF t

\* Fewer frames need fewer signals.
LEMMA SignalledLess ==
  ASSUME NEW s \in Seq(1..Devices), NEW d \in 1..Devices, NEW n \in Nat, Signalled(s, d, n),
         NEW m \in 0..n
  PROVE  Signalled(s, d, m)
<1>1. PICK f \in [1..n -> DOMAIN s] :
        \A i \in 1..n : s[f[i]] = d /\ \A j \in 1..(i - 1) : f[j] < f[i]
  BY DEF Signalled
<1> DEFINE g == [i \in 1..m |-> f[i]]
<1>2. g \in [1..m -> DOMAIN s] /\ \A i \in 1..m : g[i] = f[i] /\ i \in 1..n
  BY <1>1
<1> HIDE DEF g
<1>3. \A i \in 1..m : s[g[i]] = d /\ \A j \in 1..(i - 1) : g[j] < g[i]
  BY <1>1, <1>2
<1> QED
  BY <1>2, <1>3 DEF Signalled

\* A signal is handled; the frame it was sent for, or an earlier one, is gone.
LEMMA SignalledTail ==
  ASSUME NEW s \in Seq(1..Devices), s # <<>>, NEW d \in 1..Devices, NEW n \in Nat,
         Signalled(s, d, n)
  PROVE  /\ Head(s) # d => Signalled(Tail(s), d, n)
         /\ n > 0 => Signalled(Tail(s), d, n - 1)
         /\ n = 0 => Signalled(Tail(s), d, 0)
<1>1. PICK f \in [1..n -> DOMAIN s] :
        \A i \in 1..n : s[f[i]] = d /\ \A j \in 1..(i - 1) : f[j] < f[i]
  BY DEF Signalled
<1> DEFINE t == Tail(s)
<1>2. /\ Len(s) \in Nat /\ DOMAIN s = 1..Len(s) /\ DOMAIN t = 1..(Len(s) - 1)
      /\ \A i \in DOMAIN t : t[i] = s[i + 1]
      /\ Head(s) = s[1] /\ Len(s) > 0
  OBVIOUS
<1> HIDE DEF t
<1>3. \A i \in 1..n : f[i] \in 1..Len(s)
  BY <1>1, <1>2
<1>4. ASSUME Head(s) # d PROVE Signalled(t, d, n)
  <2> DEFINE g == [i \in 1..n |-> f[i] - 1]
  <2>1. \A i \in 1..n : f[i] # 1
    BY <1>1, <1>2, <1>4
  <2>2. \A i \in 1..n : f[i] - 1 \in DOMAIN t /\ t[f[i] - 1] = d
    BY <1>1, <1>2, <1>3, <2>1
  <2>3. g \in [1..n -> DOMAIN t] /\ \A i \in 1..n : g[i] = f[i] - 1
    BY <2>2
  <2> HIDE DEF g
  <2>4. \A i \in 1..n : t[g[i]] = d /\ \A j \in 1..(i - 1) : g[j] < g[i]
    BY <1>1, <1>3, <2>2, <2>3
  <2> QED
    BY <2>3, <2>4 DEF Signalled
<1>5. ASSUME n > 0 PROVE Signalled(t, d, n - 1)
  <2> DEFINE g == [i \in 1..(n - 1) |-> f[i + 1] - 1]
  <2>1. \A i \in 1..(n - 1) : i + 1 \in 1..n /\ f[i + 1] # 1
    <3> SUFFICES ASSUME NEW i \in 1..(n - 1) PROVE i + 1 \in 1..n /\ f[i + 1] # 1
      OBVIOUS
    <3>1. i + 1 \in 1..n /\ 1 \in 1..n /\ 1 \in 1..((i + 1) - 1)
      BY <1>5
    <3>2. f[1] < f[i + 1]
      BY <1>1, <3>1
    <3> QED
      BY <1>3, <3>1, <3>2
  <2>2. ASSUME NEW i \in 1..(n - 1) PROVE f[i + 1] - 1 \in DOMAIN t /\ t[f[i + 1] - 1] = d
    <3>1. f[i + 1] \in 1..Len(s) /\ f[i + 1] # 1 /\ s[f[i + 1]] = d
      BY <1>1, <1>3, <2>1
    <3>2. f[i + 1] - 1 \in DOMAIN t /\ (f[i + 1] - 1) + 1 = f[i + 1]
      BY <1>2, <3>1
    <3>3. t[f[i + 1] - 1] = s[(f[i + 1] - 1) + 1]
      BY <1>2, <3>2
    <3> QED
      BY <3>1, <3>2, <3>3
  <2>3. g \in [1..(n - 1) -> DOMAIN t] /\ \A i \in 1..(n - 1) : g[i] = f[i + 1] - 1
    BY <2>2
  <2> HIDE DEF g
  <2>4. \A i \in 1..(n - 1) : \A j \in 1..(i - 1) : g[j] < g[i]
    <3> SUFFICES ASSUME NEW i \in 1..(n - 1), NEW j \in 1..(i - 1) PROVE g[j] < g[i]
      OBVIOUS
    <3>1. j \in 1..(n - 1) /\ j + 1 \in 1..((i + 1) - 1) /\ i + 1 \in 1..n /\ j + 1 \in 1..n
      OBVIOUS
    <3>2. f[j + 1] < f[i + 1]
      BY <1>1, <3>1
    <3> QED
      BY <1>3, <2>3, <3>1, <3>2
  <2>5. \A i \in 1..(n - 1) : t[g[i]] = d
    BY <2>2, <2>3
  <2> QED
    BY <2>3, <2>4, <2>5 DEF Signalled
<1>6. ASSUME n = 0 PROVE Signalled(t, d, 0)
  <2>1. 1..0 = {}
    OBVIOUS
  <2>2. [i \in {} |-> 0] \in [{} -> DOMAIN t]
    OBVIOUS
  <2> QED
    BY <2>1, <2>2 DEF Signalled
<1> QED
  BY <1>4, <1>5, <1>6 DEF t

LEMMA DeviceInit == S!Init => DeviceInv
<1> SUFFICES ASSUME S!Init PROVE DeviceInv
  OBVIOUS
<1> DEFINE none == [number |-> 0, size |-> 0]
<1>1. /\ received = [d \in 1..Devices |-> 0] /\ signals = <<>>
      /\ m_char_data = [d \in 1..Devices |-> <<>>] /\ m_data_queue = [d \in 1..Devices |-> <<>>]
      /\ mmap_device_data = [d \in 1..Devices |-> none]
  BY DEF S!Init, S!Indexes, S!NoFrame
<1>2. none \in Frame /\ none.number = 0
  BY DEF Frame
<1> HIDE DEF none
<1>3. ASSUME NEW d \in 1..Devices
      PROVE  /\ Ordered(mmap_device_data[d].number, m_data_queue[d], m_char_data[d], received[d])
             /\ Signalled(signals, d, Len(m_data_queue[d]))
  <2>1. /\ mmap_device_data[d].number = 0 /\ received[d] = 0 /\ m_data_queue[d] = <<>>
        /\ m_char_data[d] = <<>>
    BY <1>1, <1>2
  <2>2. Ordered(0, <<>>, <<>>, 0)
    BY DEF Ordered
  <2>3. Len(<<>>) = 0 /\ 1..0 = {} /\ [i \in {} |-> 0] \in [{} -> DOMAIN signals]
    OBVIOUS
  <2>4. Signalled(signals, d, Len(<<>>))
    BY <2>3 DEF Signalled
  <2> QED
    BY <2>1, <2>2, <2>4
<1>4. /\ received \in [1..Devices -> Nat] /\ signals \in Seq(1..Devices)
      /\ m_char_data \in [1..Devices -> Seq(Frame)] /\ m_data_queue \in [1..Devices -> Seq(Frame)]
      /\ mmap_device_data \in [1..Devices -> Frame]
  BY <1>1, <1>2
<1> QED
  BY <1>3, <1>4 DEF DeviceInv

\* One device changes, the others do not.
LEMMA DeviceStep1 ==
  ASSUME DeviceInv, NEW e \in 1..Devices,
         NEW r \in Nat, NEW c \in Seq(Frame), NEW q \in Seq(Frame), NEW m \in Frame,
         received' = [received EXCEPT ![e] = r], m_char_data' = [m_char_data EXCEPT ![e] = c],
         m_data_queue' = [m_data_queue EXCEPT ![e] = q],
         mmap_device_data' = [mmap_device_data EXCEPT ![e] = m],
         Ordered(m.number, q, c, r), signals' \in Seq(1..Devices),
         Signalled(signals', e, Len(q)),
         \A d \in 1..Devices \ {e} : Signalled(signals', d, Len(m_data_queue[d]))
  PROVE  DeviceInv'
<1>1. /\ received \in [1..Devices -> Nat] /\ m_char_data \in [1..Devices -> Seq(Frame)]
      /\ m_data_queue \in [1..Devices -> Seq(Frame)] /\ mmap_device_data \in [1..Devices -> Frame]
  BY DEF DeviceInv
<1>2. /\ received' \in [1..Devices -> Nat] /\ m_char_data' \in [1..Devices -> Seq(Frame)]
      /\ m_data_queue' \in [1..Devices -> Seq(Frame)] /\ mmap_device_data' \in [1..Devices -> Frame]
  BY <1>1
<1>3. /\ received'[e] = r /\ m_char_data'[e] = c /\ m_data_queue'[e] = q /\ mmap_device_data'[e] = m
      /\ \A d \in 1..Devices \ {e} :
            /\ received'[d] = received[d] /\ m_char_data'[d] = m_char_data[d]
            /\ m_data_queue'[d] = m_data_queue[d] /\ mmap_device_data'[d] = mmap_device_data[d]
  BY <1>1
<1>4. \A d \in 1..Devices :
        /\ Ordered(mmap_device_data'[d].number, m_data_queue'[d], m_char_data'[d], received'[d])
        /\ Signalled(signals', d, Len(m_data_queue'[d]))
  BY <1>3 DEF DeviceInv
<1> QED
  BY <1>2, <1>4 DEF DeviceInv

\* What is known of one device.
LEMMA DeviceParts ==
  ASSUME DeviceInv, NEW d \in 1..Devices
  PROVE  /\ received[d] \in Nat /\ m_char_data[d] \in Seq(Frame) /\ m_data_queue[d] \in Seq(Frame)
         /\ mmap_device_data[d] \in Frame /\ mmap_device_data[d].number \in Nat
         /\ signals \in Seq(1..Devices) /\ Len(m_data_queue[d]) \in Nat
         /\ Ordered(mmap_device_data[d].number, m_data_queue[d], m_char_data[d], received[d])
         /\ Signalled(signals, d, Len(m_data_queue[d]))
         /\ received = [received EXCEPT ![d] = received[d]]
         /\ m_char_data = [m_char_data EXCEPT ![d] = m_char_data[d]]
         /\ m_data_queue = [m_data_queue EXCEPT ![d] = m_data_queue[d]]
         /\ mmap_device_data = [mmap_device_data EXCEPT ![d] = mmap_device_data[d]]
BY FrameFields DEF DeviceInv

LEMMA DeviceRun == ASSUME DeviceInv, NEW d \in 1..Devices, S!Run(d) PROVE DeviceInv'
<1>1. UNCHANGED <<m_data_queue, signals, mmap_device_data>>
  BY DEF S!Run
<1>2. CASE S!TimeOut(d)
  BY <1>1, <1>2 DEF S!TimeOut, DeviceInv
<1>3. CASE S!Receive(d)
  <2>1. PICK size \in Sizes :
          m_char_data' = [m_char_data EXCEPT ![d] = Append(@, [number |-> received'[d], size |-> size])]
    BY <1>3 DEF S!Receive
  <2> DEFINE f == [number |-> received[d] + 1, size |-> size]
  <2>2. received' = [received EXCEPT ![d] = received[d] + 1] /\ received'[d] = received[d] + 1
    BY <1>3 DEF S!Receive, DeviceInv
  <2>3. m_char_data' = [m_char_data EXCEPT ![d] = Append(m_char_data[d], f)]
    BY <2>1, <2>2
  <2>4. f \in Frame /\ f.number = received[d] + 1
    BY DeviceParts, MCAssumption DEF Frame, MCAssumption, S!AssemblyAssumption
  <2> HIDE DEF f
  <2>5. Append(m_char_data[d], f) \in Seq(Frame) /\ received[d] + 1 \in Nat
    BY <2>4, DeviceParts
  <2>6. Ordered(mmap_device_data[d].number, m_data_queue[d], Append(m_char_data[d], f), received[d] + 1)
    BY <2>4, DeviceParts, OrderedReceive
  <2>7. /\ mmap_device_data' = [mmap_device_data EXCEPT ![d] = mmap_device_data[d]]
        /\ m_data_queue' = [m_data_queue EXCEPT ![d] = m_data_queue[d]]
    BY <1>1, DeviceParts
  <2>8. /\ signals' \in Seq(1..Devices) /\ Signalled(signals', d, Len(m_data_queue[d]))
        /\ \A e \in 1..Devices \ {d} : Signalled(signals', e, Len(m_data_queue[e]))
    BY <1>1 DEF DeviceInv
  <2> QED
    BY <2>2, <2>3, <2>5, <2>6, <2>7, <2>8, DeviceParts, DeviceStep1
<1> QED
  BY <1>2, <1>3 DEF S!Run

LEMMA DeviceDecode == ASSUME DeviceInv, NEW d \in 1..Devices, S!DecodeFromString(d) PROVE DeviceInv'
<1> DEFINE q == m_data_queue[d]
           c == m_char_data[d]
           p == Append(q, Head(c))
           last == IF Len(p) > Keep THEN SubSeq(p, Len(p) - Keep + 1, Len(p)) ELSE p
<1>1. /\ c # <<>> /\ m_char_data' = [m_char_data EXCEPT ![d] = Tail(c)]
      /\ UNCHANGED <<received, mmap_device_data>>
      /\ \/ UNCHANGED <<m_data_queue, signals>>
         \/ /\ m_data_queue' = [m_data_queue EXCEPT ![d] = last]
            /\ signals' = Append(signals, d)
  BY DEF S!DecodeFromString, S!LastOf
<1>2. /\ received[d] \in Nat /\ c \in Seq(Frame) /\ q \in Seq(Frame)
      /\ mmap_device_data[d] \in Frame /\ mmap_device_data[d].number \in Nat
      /\ signals \in Seq(1..Devices) /\ Len(q) \in Nat /\ Keep \in Nat
      /\ Ordered(mmap_device_data[d].number, q, c, received[d]) /\ Signalled(signals, d, Len(q))
  BY DeviceParts, MCAssumption DEF MCAssumption, S!AssemblyAssumption
<1>3. /\ received' = [received EXCEPT ![d] = received[d]]
      /\ mmap_device_data' = [mmap_device_data EXCEPT ![d] = mmap_device_data[d]]
  BY <1>1, DeviceParts
<1> HIDE DEF q, c
<1>4. /\ Tail(c) \in Seq(Frame) /\ Head(c) \in Frame /\ p \in Seq(Frame) /\ Len(p) = Len(q) + 1
      /\ Ordered(mmap_device_data[d].number, q, Tail(c), received[d])
      /\ Ordered(mmap_device_data[d].number, p, Tail(c), received[d])
  BY <1>1, <1>2, OrderedDecode, TailOf, AppendOf
<1>5. CASE UNCHANGED <<m_data_queue, signals>>
  <2>1. m_data_queue' = [m_data_queue EXCEPT ![d] = q]
    BY <1>5, DeviceParts DEF q
  <2>2. \A e \in 1..Devices \ {d} : Signalled(signals', e, Len(m_data_queue[e]))
    BY <1>5 DEF DeviceInv
  <2> QED
    BY <1>1, <1>2, <1>3, <1>4, <1>5, <2>1, <2>2, DeviceStep1
<1>6. CASE /\ m_data_queue' = [m_data_queue EXCEPT ![d] = last]
           /\ signals' = Append(signals, d)
  <2>1. /\ last \in Seq(Frame) /\ Len(last) \in 0..(Len(q) + 1)
        /\ Ordered(mmap_device_data[d].number, last, Tail(c), received[d])
    <3> HIDE DEF p
    <3>1. CASE Len(p) > Keep
      <4> DEFINE n == Len(p) - Keep
      <4>1. n \in 0..Len(p) /\ last = SubSeq(p, n + 1, Len(p))
        BY <1>2, <1>4, <3>1
      <4> HIDE DEF n, last
      <4> DEFINE t == SubSeq(p, n + 1, Len(p))
      <4>2. t \in Seq(Frame) /\ Len(t) = Len(p) - n /\ Ordered(mmap_device_data[d].number, t, Tail(c), received[d])
        BY <1>2, <1>4, <4>1, OrderedLast
      <4>3. last = t
        BY <4>1
      <4> QED
        BY <1>2, <1>4, <4>1, <4>2, <4>3
    <3>2. CASE ~(Len(p) > Keep)
      BY <1>2, <1>4, <3>2
    <3> QED
      BY <3>1, <3>2
  <2> HIDE DEF last
  <2>2. Signalled(signals', d, Len(q) + 1)
    BY <1>2, <1>6, SignalledAppend
  <2>3. signals' \in Seq(1..Devices)
    BY <1>2, <1>6
  <2>4. Signalled(signals', d, Len(last))
    BY <1>2, <2>1, <2>2, <2>3, SignalledLess
  <2>5. ASSUME NEW e \in 1..Devices \ {d} PROVE Signalled(signals', e, Len(m_data_queue[e]))
    BY <1>2, <1>6, DeviceParts, SignalledAppend
  <2> QED
    BY <1>1, <1>2, <1>3, <1>4, <1>6, <2>1, <2>3, <2>4, <2>5, DeviceStep1
<1> QED
  BY <1>1, <1>5, <1>6

LEMMA DeviceFetch == ASSUME DeviceInv, S!OnDeviceDataGet PROVE DeviceInv'
<1> DEFINE d == Head(signals)
           q == m_data_queue[d]
<1>1. /\ signals # <<>> /\ signals' = Tail(signals) /\ UNCHANGED <<received, m_char_data>>
      /\ m_data_queue' = [m_data_queue EXCEPT ![d] = IF q = <<>> THEN q ELSE Tail(q)]
      /\ IF q # <<>> /\ Head(q).size > 0
         THEN mmap_device_data' = [mmap_device_data EXCEPT ![d] = Head(q)]
         ELSE UNCHANGED mmap_device_data
  BY DEF S!OnDeviceDataGet
<1>2. signals \in Seq(1..Devices) /\ signals' \in Seq(1..Devices) /\ d \in 1..Devices
  BY <1>1, TailOf DEF DeviceInv
<1> HIDE DEF d
<1>3. /\ received[d] \in Nat /\ m_char_data[d] \in Seq(Frame) /\ q \in Seq(Frame)
      /\ mmap_device_data[d] \in Frame /\ mmap_device_data[d].number \in Nat /\ Len(q) \in Nat
      /\ Ordered(mmap_device_data[d].number, q, m_char_data[d], received[d])
      /\ Signalled(signals, d, Len(q))
      /\ received' = [received EXCEPT ![d] = received[d]]
      /\ m_char_data' = [m_char_data EXCEPT ![d] = m_char_data[d]]
      /\ mmap_device_data = [mmap_device_data EXCEPT ![d] = mmap_device_data[d]]
  BY <1>1, <1>2, DeviceParts
<1>4. ASSUME NEW e \in 1..Devices \ {d} PROVE Signalled(signals', e, Len(m_data_queue[e]))
  <2>1. Head(signals) # e
    BY DEF d
  <2> QED
    BY <1>1, <1>2, <2>1, DeviceParts, SignalledTail
<1> HIDE DEF q
<1>5. CASE q = <<>>
  <2>1. Len(q) = 0 /\ m_data_queue' = [m_data_queue EXCEPT ![d] = q]
        /\ mmap_device_data' = [mmap_device_data EXCEPT ![d] = mmap_device_data[d]]
    BY <1>1, <1>3, <1>5
  <2>2. Signalled(signals', d, Len(q))
    BY <1>1, <1>2, <1>3, <2>1, SignalledTail
  <2> QED
    BY <1>2, <1>3, <1>4, <2>1, <2>2, DeviceStep1
<1>6. CASE q # <<>>
  <2>1. /\ Tail(q) \in Seq(Frame) /\ Head(q) \in Frame /\ Head(q).number \in Nat
        /\ Len(Tail(q)) = Len(q) - 1 /\ Len(q) > 0
        /\ m_data_queue' = [m_data_queue EXCEPT ![d] = Tail(q)]
    BY <1>1, <1>3, <1>6, TailOf, FrameFields
  <2>2. /\ Ordered(mmap_device_data[d].number, Tail(q), m_char_data[d], received[d])
        /\ Ordered(Head(q).number, Tail(q), m_char_data[d], received[d])
    BY <1>3, <1>6, OrderedFetch
  <2>3. Signalled(signals', d, Len(Tail(q)))
    BY <1>1, <1>2, <1>3, <2>1, SignalledTail
  <2>4. CASE Head(q).size > 0
    <3>1. mmap_device_data' = [mmap_device_data EXCEPT ![d] = Head(q)]
      BY <1>1, <1>6, <2>4
    <3> QED
      BY <1>2, <1>3, <1>4, <2>1, <2>2, <2>3, <3>1, DeviceStep1
  <2>5. CASE ~(Head(q).size > 0)
    <3>1. mmap_device_data' = [mmap_device_data EXCEPT ![d] = mmap_device_data[d]]
      BY <1>1, <1>3, <2>5
    <3> QED
      BY <1>2, <1>3, <1>4, <2>1, <2>2, <2>3, <3>1, DeviceStep1
  <2> QED
    BY <2>4, <2>5
<1> QED
  BY <1>5, <1>6

LEMMA DeviceStep == DeviceInv /\ [S!Next]_(S!assemblyVars) => DeviceInv'
<1> SUFFICES ASSUME DeviceInv, [S!Next]_(S!assemblyVars) PROVE DeviceInv'
  OBVIOUS
<1>1. CASE UNCHANGED <<received, signals, m_char_data, m_data_queue, mmap_device_data>>
  BY <1>1 DEF DeviceInv
<1>2. ASSUME S!SqlRecord \/ S!Release \/ UNCHANGED S!assemblyVars
      PROVE  UNCHANGED <<received, signals, m_char_data, m_data_queue, mmap_device_data>>
  BY <1>2 DEF S!SqlRecord, S!GetObject, S!AddSize, S!SkipScan, S!Resize, S!Copy, S!Push, S!Release,
              S!assemblyVars, S!deviceVars
<1> QED
  BY <1>1, <1>2, DeviceRun, DeviceDecode, DeviceFetch DEF S!Next, S!Indexes

LEMMA FramesFetched == DeviceInv => S!FramesAreFetched
<1> SUFFICES ASSUME DeviceInv, NEW d \in 1..Devices
             PROVE  LET waiting == <<mmap_device_data[d]>> \o m_data_queue[d] \o m_char_data[d]
                    IN /\ \A i, j \in DOMAIN waiting : i < j => waiting[i].number < waiting[j].number
                       /\ \E f \in [DOMAIN m_data_queue[d] -> DOMAIN signals] :
                            \A i \in DOMAIN f : signals[f[i]] = d /\ \A j \in 1..(i - 1) : f[j] < f[i]
  BY DEF S!FramesAreFetched, S!Indexes
<1> DEFINE m == mmap_device_data[d]
           q == m_data_queue[d]
           c == m_char_data[d]
           waiting == <<m>> \o q \o c
<1>1. /\ q \in Seq(Frame) /\ c \in Seq(Frame) /\ m \in Frame /\ signals \in Seq(1..Devices)
      /\ Len(q) \in Nat /\ Ordered(m.number, q, c, received[d]) /\ Signalled(signals, d, Len(q))
  BY DeviceParts
<1> HIDE DEF m, q, c
<1>2. /\ DOMAIN q = 1..Len(q) /\ DOMAIN c = 1..Len(c) /\ Len(c) \in Nat
      /\ DOMAIN waiting = 1..(1 + Len(q) + Len(c))
      /\ waiting[1] = m
      /\ \A i \in 2..(1 + Len(q)) : waiting[i] = q[i - 1] /\ i - 1 \in DOMAIN q
      /\ \A i \in (2 + Len(q))..(1 + Len(q) + Len(c)) :
            waiting[i] = c[i - 1 - Len(q)] /\ i - 1 - Len(q) \in DOMAIN c
  BY <1>1
<1> HIDE DEF waiting
<1>3. ASSUME NEW i \in DOMAIN waiting, NEW j \in DOMAIN waiting, i < j
      PROVE  waiting[i].number < waiting[j].number
  <2>1. CASE i = 1
    <3>1. CASE j \in 2..(1 + Len(q))
      BY <1>1, <1>2, <2>1, <3>1 DEF Ordered
    <3>2. CASE j \in (2 + Len(q))..(1 + Len(q) + Len(c))
      BY <1>1, <1>2, <2>1, <3>2 DEF Ordered
    <3> QED
      BY <1>1, <1>2, <1>3, <2>1, <3>1, <3>2
  <2>2. CASE i \in 2..(1 + Len(q)) /\ j \in 2..(1 + Len(q))
    <3>1. i - 1 < j - 1
      BY <1>3, <2>2
    <3> QED
      BY <1>1, <1>2, <2>2, <3>1 DEF Ordered
  <2>3. CASE i \in 2..(1 + Len(q)) /\ j \in (2 + Len(q))..(1 + Len(q) + Len(c))
    BY <1>1, <1>2, <2>3 DEF Ordered
  <2>4. CASE i \in (2 + Len(q))..(1 + Len(q) + Len(c)) /\ j \in (2 + Len(q))..(1 + Len(q) + Len(c))
    <3>1. i - 1 - Len(q) < j - 1 - Len(q)
      BY <1>1, <1>3, <2>4
    <3> QED
      BY <1>1, <1>2, <2>4, <3>1 DEF Ordered
  <2> QED
    BY <1>1, <1>2, <1>3, <2>1, <2>2, <2>3, <2>4
<1>4. \E f \in [DOMAIN q -> DOMAIN signals] :
        \A i \in DOMAIN f : signals[f[i]] = d /\ \A j \in 1..(i - 1) : f[j] < f[i]
  <2>1. PICK f \in [1..Len(q) -> DOMAIN signals] :
          \A i \in 1..Len(q) : signals[f[i]] = d /\ \A j \in 1..(i - 1) : f[j] < f[i]
    BY <1>1 DEF Signalled
  <2>2. f \in [DOMAIN q -> DOMAIN signals] /\ DOMAIN f = 1..Len(q)
    BY <1>2, <2>1
  <2> QED
    BY <2>1, <2>2
<1> QED
  BY <1>3, <1>4 DEF waiting, q, m, c

-----------------------------------------------------------------------------
(* How a scan is put together: the points of the frames.                   *)

Point == Nat \X Nat \X Nat
Scan == [points : Seq(Point), filled : Nat, changed : BOOLEAN]

FramePoint(d) == <<d, mmap_device_data[d].number, mmap_device_data[d].size>>

\* The first n points are of one frame of each device, in their order.
OneFrame(points, n) ==
  \A i, j \in 1..n : /\ points[i] # <<0, 0, 0>>
                     /\ i < j => points[i][1] <= points[j][1]
                     /\ points[i][1] = points[j][1] => points[i] = points[j]

\* Each frame that is among the points is there as a whole.
Whole(points, n) ==
  /\ n = Len(points)
  /\ \A p \in S!ToSet(points) : \E k \in 0..n :
       \A i \in DOMAIN points : points[i] = p <=> i \in (k + 1)..(k + p[3])

\* Where the frames of the first n devices end when they follow each other.
Ends(g, n) ==
  /\ g \in [0..n -> Nat] /\ g[0] = 0
  /\ \A d \in 1..n : g[d] = g[d - 1] + mmap_device_data[d].size
  /\ \A d, e \in 0..n : d <= e => g[d] <= g[e]

\* The points of the devices before the n-th are where they belong.
Filled(g, points, n) ==
  /\ \A i \in 1..g[n - 1] : \E d \in 1..(n - 1) : i \in (g[d - 1] + 1)..g[d]
  /\ \A d \in 1..(n - 1) : \A i \in (g[d - 1] + 1)..g[d] : points[i] = FramePoint(d)

RecordType ==
  /\ step \in {"idle", "sum", "copy"} /\ changed \in BOOLEAN
  /\ object \in Seq(Point) /\ parked \in Seq(Seq(Point)) /\ out \in Seq(Scan)
  /\ nAll_Size \in Nat /\ nNow_Size \in Nat
  /\ step # "idle" => at \in 1..(Devices + 1)

\* While the sizes are added up.
Adding == step = "sum" /\ ~changed => \E g : Ends(g, at - 1) /\ nAll_Size = g[at - 1]

\* While the frames are copied.
Copying ==
  step = "copy" =>
    /\ Len(object) = nAll_Size /\ nNow_Size <= nAll_Size
    /\ OneFrame(object, nNow_Size)
    /\ \A i \in 1..nNow_Size : object[i][1] < at
    /\ ~changed => \E g : /\ Ends(g, Devices) /\ nAll_Size = g[Devices]
                          /\ nNow_Size = g[at - 1] /\ Filled(g, object, at)

\* A scan that was put together.
Sound(scan) == /\ OneFrame(scan.points, scan.filled)
               /\ ~scan.changed => Whole(scan.points, scan.filled)

RecordInv == RecordType /\ Adding /\ Copying /\ \A k \in DOMAIN out : Sound(out[k])

LEMMA PointFields ==
  ASSUME NEW p \in Point PROVE p[1] \in Nat /\ p[2] \in Nat /\ p[3] \in Nat
BY DEF Point

LEMMA FramePointIs ==
  ASSUME mmap_device_data \in [1..Devices -> Frame], Devices \in Nat, NEW d \in 1..Devices
  PROVE  /\ FramePoint(d) \in Point /\ FramePoint(d)[1] = d
         /\ FramePoint(d)[3] = mmap_device_data[d].size /\ FramePoint(d) # <<0, 0, 0>>
         /\ mmap_device_data[d].size \in Nat
<1>1. mmap_device_data[d].number \in Nat /\ mmap_device_data[d].size \in Nat
  BY FrameFields
<1> QED
  BY <1>1 DEF FramePoint, Point

\* The points of an object of the pool, made as many as the frames have.
LEMMA ResizedIs ==
  ASSUME NEW s \in Seq(Point), NEW n \in Nat
  PROVE  S!Resized(s, n) \in Seq(Point) /\ Len(S!Resized(s, n)) = n
<1>1. CASE Len(s) > n
  BY <1>1 DEF S!Resized
<1>2. CASE ~(Len(s) > n)
  <2> DEFINE z == [i \in 1..(n - Len(s)) |-> <<0, 0, 0>>]
  <2>1. Len(s) \in Nat /\ n - Len(s) \in Nat /\ <<0, 0, 0>> \in Point
    BY <1>2 DEF Point
  <2>2. z \in Seq(Point) /\ Len(z) = n - Len(s)
    BY <2>1
  <2>3. S!Resized(s, n) = s \o z
    BY <1>2 DEF S!Resized, S!Zeros, S!Zero
  <2> HIDE DEF z
  <2>4. s \o z \in Seq(Point) /\ Len(s \o z) = Len(s) + Len(z)
    BY <2>2
  <2> QED
    BY <2>1, <2>2, <2>3, <2>4
<1> QED
  BY <1>1, <1>2

LEMMA TwoIn ==
  ASSUME NEW T, NEW a \in Seq(T), NEW b \in Seq(T)
  PROVE  /\ a \o b \in Seq(T) /\ Len(a \o b) = Len(a) + Len(b)
         /\ \A j \in 1..(Len(a) + Len(b)) :
               (a \o b)[j] = IF j <= Len(a) THEN a[j] ELSE b[j - Len(a)]
OBVIOUS

\* A scan that was released is gone from among the others.
LEMMA RemoveAtIs ==
  ASSUME NEW T, NEW s \in Seq(T), NEW i \in 1..(Len(s) - 1)
  PROVE  /\ S!RemoveAt(s, i) \in Seq(T)
         /\ \A j \in DOMAIN S!RemoveAt(s, i) : \E k \in DOMAIN s : S!RemoveAt(s, i)[j] = s[k]
<1> DEFINE a == SubSeq(s, 1, i - 1)
           b == SubSeq(s, i + 1, Len(s))
           r == S!RemoveAt(s, i)
<1>1. /\ a \in Seq(T) /\ b \in Seq(T) /\ Len(s) \in Nat /\ DOMAIN s = 1..Len(s)
      /\ Len(a) = i - 1 /\ Len(b) = Len(s) - i
      /\ \A j \in 1..(i - 1) : a[j] = s[j]
      /\ \A j \in 1..(Len(s) - i) : b[j] = s[i + j]
  OBVIOUS
<1>2. r = a \o b
  BY DEF S!RemoveAt
<1> HIDE DEF a, b, r
<1>3. /\ r \in Seq(T) /\ Len(r) = Len(a) + Len(b)
      /\ \A j \in 1..(Len(a) + Len(b)) : r[j] = IF j <= Len(a) THEN a[j] ELSE b[j - Len(a)]
  BY <1>1, <1>2, TwoIn
<1>4. DOMAIN r = 1..(Len(s) - 1)
  BY <1>1, <1>3
<1>5. ASSUME NEW j \in 1..(Len(s) - 1) PROVE \E k \in DOMAIN s : r[j] = s[k]
  <2>1. r[j] = IF j <= i - 1 THEN a[j] ELSE b[j - (i - 1)]
    BY <1>1, <1>3
  <2>2. CASE j <= i - 1
    <3>1. j \in 1..(i - 1) /\ j \in 1..Len(s)
      BY <1>1, <2>2
    <3> QED
      BY <1>1, <2>1, <2>2, <3>1
  <2>3. CASE ~(j <= i - 1)
    <3>1. j - (i - 1) \in 1..(Len(s) - i) /\ i + (j - (i - 1)) = j + 1 /\ j + 1 \in 1..Len(s)
      BY <1>1, <2>3
    <3>2. b[j - (i - 1)] = s[i + (j - (i - 1))]
      BY <1>1, <3>1
    <3>3. r[j] = s[j + 1]
      BY <2>1, <2>3, <3>1, <3>2
    <3> QED
      BY <1>1, <3>1, <3>3
  <2> QED
    BY <2>2, <2>3
<1> QED
  BY <1>3, <1>4, <1>5 DEF r

LEMMA MinIs ==
  ASSUME NEW a \in Nat, NEW b \in Nat
  PROVE  S!Min({a, b}) = IF a <= b THEN a ELSE b
<1>1. \E x \in {a, b} : \A y \in {a, b} : x =< y
  OBVIOUS
<1> QED
  BY <1>1 DEF S!Min

LEMMA ScanFields ==
  ASSUME NEW s \in Scan PROVE s.points \in Seq(Point) /\ s.filled \in Nat /\ s.changed \in BOOLEAN
BY DEF Scan

LEMMA RecordInit == S!Init => RecordInv
<1> SUFFICES ASSUME S!Init PROVE RecordInv
  OBVIOUS
<1>1. /\ step = "idle" /\ object = <<>> /\ out = <<>> /\ parked = <<>> /\ changed = FALSE
      /\ nAll_Size = 0 /\ nNow_Size = 0
  BY DEF S!Init
<1>2. <<>> \in Seq(Point) /\ <<>> \in Seq(Seq(Point)) /\ <<>> \in Seq(Scan) /\ DOMAIN <<>> = {}
  OBVIOUS
<1>3. RecordType /\ Adding /\ Copying
  BY <1>1, <1>2 DEF RecordType, Adding, Copying
<1> QED
  BY <1>1, <1>2, <1>3 DEF RecordInv

\* Without the list of scans, of which those that stay are as they were.
LEMMA OutKept ==
  ASSUME RecordInv, RecordType', Adding', Copying', UNCHANGED out
  PROVE  RecordInv'
BY DEF RecordInv

LEMMA RecordRun ==
  ASSUME RecordInv, UNCHANGED <<mmap_device_data, step, at, nAll_Size, nNow_Size, object, out, parked>>,
         changed' = changed
  PROVE  RecordInv'
<1>1. \A d : FramePoint(d)' = FramePoint(d)
  BY DEF FramePoint
<1>2. RecordType'
  BY DEF RecordInv, RecordType
<1>3. Adding'
  BY DEF RecordInv, Adding, Ends
<1>4. Copying'
  BY <1>1 DEF RecordInv, Copying, Ends, Filled
<1> QED
  BY <1>2, <1>3, <1>4, OutKept

LEMMA RecordFetch == ASSUME RecordInv, S!OnDeviceDataGet PROVE RecordInv'
<1>1. UNCHANGED <<step, at, nAll_Size, nNow_Size, object, out, parked>>
  BY DEF S!OnDeviceDataGet, S!recordVars
<1>2. UNCHANGED <<mmap_device_data, changed>> \/ changed' = TRUE
  BY DEF S!OnDeviceDataGet
<1>3. CASE changed' = TRUE
  <2>1. RecordType' /\ Adding'
    BY <1>1, <1>3 DEF RecordInv, RecordType, Adding
  <2>2. Copying'
    BY <1>1, <1>3 DEF RecordInv, Copying
  <2> QED
    BY <1>1, <2>1, <2>2, OutKept
<1> QED
  BY <1>1, <1>2, <1>3, RecordRun

LEMMA RecordGet == ASSUME RecordInv, S!GetObject PROVE RecordInv'
<1>1. /\ step' = "sum" /\ at' = 1 /\ nAll_Size' = 0 /\ changed' = FALSE
      /\ object' = IF parked = <<>> THEN S!Zeros(Fresh) ELSE S!Last(parked)
      /\ parked' = IF parked = <<>> THEN parked ELSE S!Front(parked)
      /\ UNCHANGED <<mmap_device_data, nNow_Size, out>>
  BY DEF S!GetObject
<1>2. Devices \in Nat /\ Fresh \in Nat
  BY MCAssumption DEF MCAssumption, S!AssemblyAssumption
<1>3. object' \in Seq(Point) /\ parked' \in Seq(Seq(Point))
  <2>1. CASE parked = <<>>
    <3>1. <<0, 0, 0>> \in Point
      BY DEF Point
    <3>2. S!Zeros(Fresh) \in Seq(Point)
      BY <1>2, <3>1 DEF S!Zeros, S!Zero
    <3> QED
      BY <1>1, <2>1, <3>2 DEF RecordInv, RecordType
  <2>2. CASE parked # <<>>
    <3>1. parked \in Seq(Seq(Point)) /\ Len(parked) \in DOMAIN parked /\ Len(parked) \in Nat
      BY <2>2 DEF RecordInv, RecordType
    <3>2. parked[Len(parked)] \in Seq(Point) /\ SubSeq(parked, 1, Len(parked) - 1) \in Seq(Seq(Point))
      BY <3>1
    <3> QED
      BY <1>1, <2>2, <3>2 DEF S!Last, S!Front
  <2> QED
    BY <2>1, <2>2
<1>4. RecordType'
  <2>1. 1 \in 1..(Devices + 1)
    BY <1>2
  <2> QED
    BY <1>1, <1>3, <2>1 DEF RecordInv, RecordType
<1>5. Adding'
  <2> DEFINE g == [i \in {0} |-> 0]
  <2>1. g \in [0..0 -> Nat] /\ g[0] = 0
    OBVIOUS
  <2> HIDE DEF g
  <2>2. Ends(g, 0)'
    BY <2>1 DEF Ends
  <2>3. at' - 1 = 0
    BY <1>1
  <2> QED
    BY <1>1, <2>1, <2>2, <2>3 DEF Adding
<1>6. Copying'
  BY <1>1 DEF Copying
<1> QED
  BY <1>1, <1>4, <1>5, <1>6, OutKept

\* The frame of one device more.
LEMMA EndsGrow ==
  ASSUME mmap_device_data \in [1..Devices -> Frame], Devices \in Nat,
         NEW n \in 1..Devices, NEW g, Ends(g, n - 1)
  PROVE  \E h : Ends(h, n) /\ h[n] = g[n - 1] + mmap_device_data[n].size
<1> DEFINE size == mmap_device_data[n].size
           h == [i \in 0..n |-> IF i = n THEN g[n - 1] + size ELSE g[i]]
<1>1. size \in Nat /\ g \in [0..(n - 1) -> Nat] /\ g[0] = 0
  BY FramePointIs DEF Ends
<1>2. h \in [0..n -> Nat] /\ h[0] = 0 /\ h[n] = g[n - 1] + size /\ \A i \in 0..(n - 1) : h[i] = g[i]
  BY <1>1
<1> HIDE DEF h
<1>3. \A d \in 1..n : h[d] = h[d - 1] + mmap_device_data[d].size
  <2> SUFFICES ASSUME NEW d \in 1..n PROVE h[d] = h[d - 1] + mmap_device_data[d].size
    OBVIOUS
  <2>1. CASE d = n
    BY <1>2, <2>1
  <2>2. CASE d # n
    <3>1. d \in 1..(n - 1) /\ d - 1 \in 0..(n - 1) /\ d \in 0..(n - 1)
      BY <2>2
    <3>2. g[d] = g[d - 1] + mmap_device_data[d].size
      BY <3>1 DEF Ends
    <3> QED
      BY <1>2, <3>1, <3>2
  <2> QED
    BY <2>1, <2>2
<1>4. \A d, e \in 0..n : d <= e => h[d] <= h[e]
  <2> SUFFICES ASSUME NEW d \in 0..n, NEW e \in 0..n, d <= e PROVE h[d] <= h[e]
    OBVIOUS
  <2>1. \A i, j \in 0..(n - 1) : i <= j => g[i] <= g[j]
    BY DEF Ends
  <2>2. CASE d = n
    BY <1>2, <2>2
  <2>3. CASE d # n /\ e = n
    <3>1. d \in 0..(n - 1) /\ n - 1 \in 0..(n - 1) /\ d <= n - 1
      BY <2>3
    <3>2. g[d] <= g[n - 1] /\ g[d] \in Nat /\ g[n - 1] \in Nat /\ h[d] = g[d] /\ h[e] = g[n - 1] + size
      BY <1>1, <1>2, <2>1, <2>3, <3>1
    <3> HIDE DEF size
    <3> QED
      BY <1>1, <3>2
  <2>4. CASE d # n /\ e # n
    <3>1. d \in 0..(n - 1) /\ e \in 0..(n - 1)
      BY <2>4
    <3> QED
      BY <1>2, <2>1, <3>1
  <2> QED
    BY <2>2, <2>3, <2>4
<1> QED
  BY <1>2, <1>3, <1>4 DEF Ends

LEMMA RecordAdd ==
  ASSUME RecordInv, mmap_device_data \in [1..Devices -> Frame], S!AddSize PROVE RecordInv'
<1>1. /\ step = "sum" /\ at <= Devices /\ nAll_Size' = nAll_Size + mmap_device_data[at].size
      /\ at' = at + 1 /\ UNCHANGED <<mmap_device_data, changed, step, nNow_Size, object, out, parked>>
  BY DEF S!AddSize
<1>2. Devices \in Nat /\ at \in 1..Devices
  BY <1>1, MCAssumption DEF MCAssumption, S!AssemblyAssumption, RecordInv, RecordType
<1>3. mmap_device_data[at].size \in Nat
  BY <1>2, FramePointIs
<1>4. RecordType'
  BY <1>1, <1>2, <1>3 DEF RecordInv, RecordType
<1>5. Adding'
  <2> SUFFICES ASSUME ~changed PROVE \E g : Ends(g, at - 1)' /\ nAll_Size' = g[at' - 1]
    BY <1>1 DEF Adding
  <2>1. PICK g : Ends(g, at - 1) /\ nAll_Size = g[at - 1]
    BY <1>1 DEF RecordInv, Adding
  <2>2. PICK h : Ends(h, at) /\ h[at] = g[at - 1] + mmap_device_data[at].size
    BY <1>2, <2>1, EndsGrow
  <2>3. at' - 1 = at
    BY <1>1, <1>2
  <2>4. Ends(h, at - 1)'
    BY <1>1, <2>2, <2>3 DEF Ends
  <2> QED
    BY <1>1, <2>1, <2>2, <2>3, <2>4
<1>6. Copying'
  BY <1>1 DEF Copying
<1> QED
  BY <1>1, <1>4, <1>5, <1>6, OutKept

LEMMA RecordSkip == ASSUME RecordInv, S!SkipScan PROVE RecordInv'
<1>1. /\ step' = "idle" /\ object' = <<>> /\ parked' = Append(parked, object)
      /\ UNCHANGED <<changed, nAll_Size, nNow_Size, out>>
  BY DEF S!SkipScan
<1>2. RecordType' /\ Adding' /\ Copying'
  BY <1>1 DEF RecordInv, RecordType, Adding, Copying
<1> QED
  BY <1>1, <1>2, OutKept

LEMMA RecordResize == ASSUME RecordInv, S!Resize PROVE RecordInv'
<1>1. /\ step = "sum" /\ at > Devices /\ step' = "copy" /\ at' = 1 /\ nNow_Size' = 0
      /\ object' = S!Resized(object, nAll_Size)
      /\ UNCHANGED <<mmap_device_data, changed, nAll_Size, out, parked>>
  BY DEF S!Resize
<1>2. Devices \in Nat /\ at = Devices + 1 /\ nAll_Size \in Nat /\ object \in Seq(Point)
  BY <1>1, MCAssumption DEF MCAssumption, S!AssemblyAssumption, RecordInv, RecordType
<1>3. object' \in Seq(Point) /\ Len(object') = nAll_Size
  BY <1>1, <1>2, ResizedIs
<1>4. RecordType' /\ Adding'
  BY <1>1, <1>2, <1>3 DEF RecordInv, RecordType, Adding
<1>5. Copying'
  <2>1. OneFrame(object', 0) /\ \A i \in 1..0 : object'[i][1] < 1
    BY DEF OneFrame
  <2>2. ASSUME ~changed
        PROVE  \E g : Ends(g, Devices) /\ nAll_Size = g[Devices] /\ 0 = g[0] /\ Filled(g, object', 1)
    <3>1. at - 1 = Devices
      BY <1>2
    <3>2. PICK g : Ends(g, Devices) /\ nAll_Size = g[Devices]
      BY <1>1, <2>2, <3>1 DEF RecordInv, Adding
    <3>3. g[0] = 0
      BY <3>2 DEF Ends
    <3>4. 1 - 1 = 0 /\ 1..0 = {} /\ 1..g[0] = {}
      BY <3>3
    <3>5. Filled(g, object', 1)
      BY <3>3, <3>4 DEF Filled
    <3> QED
      BY <3>2, <3>3, <3>5
  <2>3. ASSUME ~changed'
        PROVE  \E g : /\ Ends(g, Devices)' /\ nAll_Size' = g[Devices]
                      /\ nNow_Size' = g[at' - 1] /\ Filled(g, object, at)'
    <3>1. PICK g : Ends(g, Devices) /\ nAll_Size = g[Devices] /\ 0 = g[0] /\ Filled(g, object', 1)
      BY <1>1, <2>2, <2>3
    <3>2. Ends(g, Devices)' /\ Filled(g, object, at)' /\ at' - 1 = 0
      BY <1>1, <3>1 DEF Ends, Filled, FramePoint
    <3> QED
      BY <1>1, <3>1, <3>2
  <2>4. Len(object') = nAll_Size' /\ nNow_Size' <= nAll_Size'
    BY <1>1, <1>2, <1>3
  <2>5. OneFrame(object', nNow_Size') /\ \A i \in 1..nNow_Size' : object'[i][1] < at'
    BY <1>1, <2>1
  <2> QED
    BY <2>3, <2>4, <2>5 DEF Copying, OneFrame
<1> QED
  BY <1>1, <1>4, <1>5, OutKept

\* One frame is copied: the points before it stay, and those of it are its own.
LEMMA CopyIs ==
  ASSUME RecordInv, mmap_device_data \in [1..Devices -> Frame], S!Copy
  PROVE  /\ at \in 1..Devices /\ Devices \in Nat /\ step = "copy" /\ at' = at + 1
         /\ UNCHANGED <<mmap_device_data, changed, step, nAll_Size, out, parked>>
         /\ nAll_Size \in Nat /\ nNow_Size \in Nat /\ FramePoint(at)[1] = at
         /\ FramePoint(at) # <<0, 0, 0>>
         /\ object' \in Seq(Point) /\ Len(object') = nAll_Size /\ nNow_Size' \in Nat
         /\ nNow_Size <= nNow_Size' /\ nNow_Size' <= nAll_Size
         /\ \A i \in 1..nNow_Size : object'[i] = object[i] /\ i \in 1..nAll_Size
         /\ \A i \in (nNow_Size + 1)..nNow_Size' : object'[i] = FramePoint(at) /\ i \in 1..nAll_Size
         /\ nNow_Size + mmap_device_data[at].size <= nAll_Size
               => nNow_Size' = nNow_Size + mmap_device_data[at].size
<1> DEFINE frame == mmap_device_data[at]
           n == S!Min({frame.size, nAll_Size - nNow_Size})
<1>1. /\ step = "copy" /\ at <= Devices /\ at' = at + 1
      /\ nNow_Size' = nNow_Size + n
      /\ object' = [i \in DOMAIN object |->
                      IF i \in (nNow_Size + 1)..(nNow_Size + n)
                      THEN <<at, frame.number, frame.size>> ELSE object[i]]
      /\ UNCHANGED <<mmap_device_data, changed, step, nAll_Size, out, parked>>
  BY DEF S!Copy
<1>2. Devices \in Nat /\ at \in 1..Devices
  BY <1>1, MCAssumption DEF MCAssumption, S!AssemblyAssumption, RecordInv, RecordType
<1>3. /\ FramePoint(at) \in Point /\ FramePoint(at)[1] = at /\ frame.size \in Nat
      /\ FramePoint(at) # <<0, 0, 0>>
  BY <1>2, FramePointIs
<1>4. /\ object \in Seq(Point) /\ nAll_Size \in Nat /\ nNow_Size \in Nat
      /\ Len(object) = nAll_Size /\ nNow_Size <= nAll_Size
  BY <1>1 DEF RecordInv, RecordType, Copying
<1>5. n = IF frame.size <= nAll_Size - nNow_Size THEN frame.size ELSE nAll_Size - nNow_Size
  BY <1>3, <1>4, MinIs
<1> HIDE DEF n
<1>6. n \in Nat /\ nNow_Size + n <= nAll_Size
  BY <1>3, <1>4, <1>5
<1>7. object' = [i \in 1..nAll_Size |->
                   IF i \in (nNow_Size + 1)..(nNow_Size + n) THEN FramePoint(at) ELSE object[i]]
  BY <1>1, <1>4 DEF FramePoint
<1>8. \A i \in 1..nAll_Size : object[i] \in Point
  BY <1>4
<1>9. object' \in Seq(Point) /\ Len(object') = nAll_Size
  <2>1. object' \in [1..nAll_Size -> Point]
    BY <1>3, <1>7, <1>8
  <2> QED
    BY <1>4, <2>1
<1>10. /\ \A i \in 1..nNow_Size : object'[i] = object[i] /\ i \in 1..nAll_Size
       /\ \A i \in (nNow_Size + 1)..nNow_Size' : object'[i] = FramePoint(at) /\ i \in 1..nAll_Size
  <2>1. nNow_Size' = nNow_Size + n
    BY <1>1
  <2>2. ASSUME NEW i \in 1..nNow_Size PROVE object'[i] = object[i] /\ i \in 1..nAll_Size
    <3>1. i \in 1..nAll_Size /\ i \notin (nNow_Size + 1)..(nNow_Size + n)
      BY <1>4, <1>6
    <3> QED
      BY <1>7, <3>1
  <2>3. ASSUME NEW i \in (nNow_Size + 1)..nNow_Size'
        PROVE  object'[i] = FramePoint(at) /\ i \in 1..nAll_Size
    <3>1. i \in 1..nAll_Size /\ i \in (nNow_Size + 1)..(nNow_Size + n)
      BY <1>4, <1>6, <2>1
    <3> QED
      BY <1>7, <3>1
  <2> QED
    BY <2>2, <2>3
<1>11. /\ nNow_Size' \in Nat /\ nNow_Size <= nNow_Size' /\ nNow_Size' <= nAll_Size
       /\ nNow_Size + frame.size <= nAll_Size => nNow_Size' = nNow_Size + frame.size
  <2>1. nNow_Size' = nNow_Size + n
    BY <1>1
  <2> HIDE DEF frame
  <2> QED
    BY <1>3, <1>4, <1>5, <1>6, <2>1
<1> QED
  BY <1>1, <1>2, <1>3, <1>4, <1>9, <1>10, <1>11

LEMMA RecordCopy ==
  ASSUME RecordInv, mmap_device_data \in [1..Devices -> Frame], S!Copy PROVE RecordInv'
<1>1. /\ at \in 1..Devices /\ Devices \in Nat /\ step = "copy" /\ at' = at + 1
      /\ UNCHANGED <<mmap_device_data, changed, step, nAll_Size, out, parked>>
      /\ nAll_Size \in Nat /\ nNow_Size \in Nat /\ FramePoint(at)[1] = at
      /\ FramePoint(at) # <<0, 0, 0>>
      /\ object' \in Seq(Point) /\ Len(object') = nAll_Size /\ nNow_Size' \in Nat
      /\ nNow_Size <= nNow_Size' /\ nNow_Size' <= nAll_Size
  BY CopyIs
<1>2. /\ \A i \in 1..nNow_Size : object'[i] = object[i] /\ i \in 1..nAll_Size
      /\ \A i \in (nNow_Size + 1)..nNow_Size' : object'[i] = FramePoint(at) /\ i \in 1..nAll_Size
  BY CopyIs
<1>3. RecordType' /\ Adding'
  BY <1>1 DEF RecordInv, RecordType, Adding
<1>4. /\ OneFrame(object, nNow_Size) /\ \A i \in 1..nNow_Size : object[i][1] < at
      /\ object \in Seq(Point) /\ Len(object) = nAll_Size
  BY <1>1 DEF RecordInv, RecordType, Copying
<1>5. \A i \in 1..nNow_Size' : i \in 1..nNow_Size \/ i \in (nNow_Size + 1)..nNow_Size'
  BY <1>1
<1>6. \A i \in 1..nNow_Size : object[i] \in Point /\ object[i][1] \in Nat
  BY <1>1, <1>2, <1>4, PointFields
<1>7. \A i \in 1..nNow_Size' : object'[i][1] < at + 1
  BY <1>1, <1>2, <1>4, <1>5, <1>6
<1>8. OneFrame(object', nNow_Size')
  <2> SUFFICES ASSUME NEW i \in 1..nNow_Size', NEW j \in 1..nNow_Size'
               PROVE  /\ object'[i] # <<0, 0, 0>>
                      /\ i < j => object'[i][1] <= object'[j][1]
                      /\ object'[i][1] = object'[j][1] => object'[i] = object'[j]
    BY DEF OneFrame
  <2>1. CASE i \in 1..nNow_Size /\ j \in 1..nNow_Size
    BY <1>2, <1>4, <2>1 DEF OneFrame
  <2>2. CASE i \in 1..nNow_Size /\ j \in (nNow_Size + 1)..nNow_Size'
    <3>1. object'[i] = object[i] /\ object[i][1] < at /\ object[i][1] \in Nat /\ object[i] # <<0, 0, 0>>
      BY <1>2, <1>4, <1>6, <2>2 DEF OneFrame
    <3>2. object'[j] = FramePoint(at)
      BY <1>2, <2>2
    <3> QED
      BY <1>1, <3>1, <3>2
  <2>3. CASE i \in (nNow_Size + 1)..nNow_Size' /\ j \in 1..nNow_Size
    <3>1. object'[j] = object[j] /\ object[j][1] < at /\ object[j][1] \in Nat
      BY <1>2, <1>4, <1>6, <2>3
    <3>2. object'[i] = FramePoint(at) /\ ~(i < j)
      BY <1>1, <1>2, <2>3
    <3> QED
      BY <1>1, <3>1, <3>2
  <2>4. CASE i \in (nNow_Size + 1)..nNow_Size' /\ j \in (nNow_Size + 1)..nNow_Size'
    BY <1>1, <1>2, <2>4
  <2> QED
    BY <1>5, <2>1, <2>2, <2>3, <2>4
<1>9. ASSUME NEW g, Ends(g, Devices), nAll_Size = g[Devices], nNow_Size = g[at - 1],
             Filled(g, object, at)
      PROVE  nNow_Size' = g[at] /\ Filled(g, object', at + 1)
  <2>1. at - 1 \in 0..Devices /\ at \in 0..Devices /\ Devices \in 0..Devices /\ at + 1 - 1 = at
    BY <1>1
  <2>2. /\ g[at] = g[at - 1] + mmap_device_data[at].size /\ g[at] <= g[Devices]
        /\ \A d \in 0..Devices : g[d] \in Nat
    BY <1>1, <1>9, <2>1 DEF Ends
  <2>3. nNow_Size' = g[at]
    BY <1>9, <2>2, CopyIs
  <2>4. \A i \in 1..g[at] : \E d \in 1..at : i \in (g[d - 1] + 1)..g[d]
    <3> SUFFICES ASSUME NEW i \in 1..g[at] PROVE \E d \in 1..at : i \in (g[d - 1] + 1)..g[d]
      OBVIOUS
    <3>1. CASE i \in 1..g[at - 1]
      BY <1>1, <1>9, <3>1 DEF Filled
    <3>2. CASE i \notin 1..g[at - 1]
      <4>1. g[at - 1] \in Nat /\ g[at] \in Nat
        BY <2>1, <2>2
      <4>2. i \in (g[at - 1] + 1)..g[at] /\ at \in 1..at
        BY <1>1, <3>2, <4>1
      <4> QED
        BY <4>2
    <3> QED
      BY <3>1, <3>2
  <2>5. \A d \in 1..at : \A i \in (g[d - 1] + 1)..g[d] : object'[i] = FramePoint(d)
    <3> SUFFICES ASSUME NEW d \in 1..at, NEW i \in (g[d - 1] + 1)..g[d]
                 PROVE  object'[i] = FramePoint(d)
      OBVIOUS
    <3>1. CASE d = at
      BY <1>2, <1>9, <2>3, <3>1
    <3>2. CASE d # at
      <4>1. d \in 1..(at - 1) /\ d \in 0..Devices /\ d - 1 \in 0..Devices /\ d <= at - 1
        BY <1>1, <3>2
      <4>2. g[d] <= g[at - 1]
        BY <1>9, <2>1, <4>1 DEF Ends
      <4>3. g[d] \in Nat /\ g[d - 1] \in Nat /\ g[at - 1] \in Nat
        BY <2>1, <2>2, <4>1
      <4>4. i \in 1..nNow_Size
        BY <1>9, <4>2, <4>3
      <4>5. object[i] = FramePoint(d)
        BY <1>9, <4>1 DEF Filled
      <4> QED
        BY <1>2, <4>4, <4>5
    <3> QED
      BY <3>1, <3>2
  <2> QED
    BY <2>1, <2>3, <2>4, <2>5 DEF Filled
<1>10. ASSUME ~changed'
       PROVE  \E g : /\ Ends(g, Devices)' /\ nAll_Size' = g[Devices]
                     /\ nNow_Size' = g[at' - 1] /\ Filled(g, object, at)'
  <2>1. PICK g : /\ Ends(g, Devices) /\ nAll_Size = g[Devices]
                 /\ nNow_Size = g[at - 1] /\ Filled(g, object, at)
    BY <1>1, <1>10 DEF RecordInv, Copying
  <2>2. nNow_Size' = g[at] /\ Filled(g, object', at + 1)
    BY <1>9, <2>1
  <2>3. Ends(g, Devices)' /\ Filled(g, object, at)' /\ at' - 1 = at
    <3>1. Ends(g, Devices)'
      BY <1>1, <2>1 DEF Ends
    <3>2. \A d : FramePoint(d)' = FramePoint(d)
      BY <1>1 DEF FramePoint
    <3>3. at' = at + 1
      BY <1>1
    <3>4. Filled(g, object, at)'
      BY <2>2, <3>2, <3>3 DEF Filled
    <3>5. at' - 1 = at
      BY <1>1
    <3> QED
      BY <3>1, <3>4, <3>5
  <2> QED
    BY <1>1, <2>1, <2>2, <2>3
<1>11. Copying'
  BY <1>1, <1>7, <1>8, <1>10 DEF Copying, OneFrame
<1> QED
  BY <1>1, <1>3, <1>11, OutKept

\* Of a scan that was put together while no frame was replaced.
LEMMA WholeScan ==
  ASSUME mmap_device_data \in [1..Devices -> Frame], Devices \in Nat, NEW p \in Seq(Point),
         NEW g, Ends(g, Devices), Len(p) = g[Devices], Filled(g, p, Devices + 1)
  PROVE  Whole(p, g[Devices])
<1> DEFINE n == g[Devices]
<1>1. /\ \A d \in 0..Devices : g[d] \in Nat
      /\ \A d, e \in 0..Devices : d <= e => g[d] <= g[e]
      /\ \A d \in 1..Devices : g[d] = g[d - 1] + mmap_device_data[d].size
  BY DEF Ends
<1>2. DOMAIN p = 1..n /\ n \in Nat
  BY <1>1
<1>3. /\ \A i \in 1..n : \E d \in 1..Devices : i \in (g[d - 1] + 1)..g[d]
      /\ \A d \in 1..Devices : \A i \in (g[d - 1] + 1)..g[d] : p[i] = FramePoint(d)
  <2>1. Devices + 1 - 1 = Devices
    OBVIOUS
  <2> QED
    BY <2>1 DEF Filled
<1>4. ASSUME NEW q \in S!ToSet(p)
      PROVE  \E k \in 0..n : \A i \in DOMAIN p : p[i] = q <=> i \in (k + 1)..(k + q[3])
  <2>1. PICK j \in 1..n : q = p[j]
    BY <1>2 DEF S!ToSet
  <2>2. PICK d \in 1..Devices : j \in (g[d - 1] + 1)..g[d]
    BY <1>3
  <2>3. d - 1 \in 0..Devices /\ d \in 0..Devices /\ Devices \in 0..Devices /\ d - 1 <= Devices
    OBVIOUS
  <2>4. g[d - 1] \in 0..n
    BY <1>1, <1>2, <2>3
  <2>5. q = FramePoint(d) /\ q[1] = d /\ q[3] = mmap_device_data[d].size
    BY <1>3, <2>1, <2>2, FramePointIs
  <2>6. g[d - 1] + q[3] = g[d]
    BY <1>1, <2>5
  <2>7. ASSUME NEW i \in 1..n, p[i] = q PROVE i \in (g[d - 1] + 1)..g[d]
    <3>1. PICK e \in 1..Devices : i \in (g[e - 1] + 1)..g[e]
      BY <1>3
    <3>2. p[i] = FramePoint(e) /\ FramePoint(e)[1] = e
      BY <1>3, <3>1, FramePointIs
    <3>3. e = d
      BY <2>5, <2>7, <3>2
    <3> QED
      BY <3>1, <3>3
  <2>8. \A i \in DOMAIN p : p[i] = q <=> i \in (g[d - 1] + 1)..(g[d - 1] + q[3])
    BY <1>2, <1>3, <2>5, <2>6, <2>7
  <2> QED
    BY <2>4, <2>8
<1> QED
  BY <1>4 DEF Whole

LEMMA RecordPush ==
  ASSUME RecordInv, mmap_device_data \in [1..Devices -> Frame], S!Push PROVE RecordInv'
<1> DEFINE scan == [points |-> object, filled |-> nNow_Size, changed |-> changed]
<1>1. /\ step = "copy" /\ at > Devices /\ step' = "idle" /\ object' = <<>>
      /\ out' = Append(out, scan) /\ UNCHANGED <<changed, nAll_Size, nNow_Size, parked>>
  BY DEF S!Push
<1>2. /\ Devices \in Nat /\ at = Devices + 1 /\ object \in Seq(Point) /\ nNow_Size \in Nat
      /\ nAll_Size \in Nat /\ changed \in BOOLEAN /\ out \in Seq(Scan)
  BY <1>1, MCAssumption DEF MCAssumption, S!AssemblyAssumption, RecordInv, RecordType
<1>3. scan \in Scan /\ scan.points = object /\ scan.filled = nNow_Size /\ scan.changed = changed
  BY <1>2 DEF Scan
<1>4. OneFrame(object, nNow_Size)
  BY <1>1 DEF RecordInv, Copying
<1>5. ASSUME ~changed PROVE Whole(object, nNow_Size)
  <2>1. PICK g : /\ Ends(g, Devices) /\ nAll_Size = g[Devices]
                 /\ nNow_Size = g[at - 1] /\ Filled(g, object, at) /\ Len(object) = nAll_Size
    BY <1>1, <1>5 DEF RecordInv, Copying
  <2>2. at - 1 = Devices /\ Filled(g, object, Devices + 1) /\ Len(object) = g[Devices]
    BY <1>2, <2>1
  <2>3. Whole(object, g[Devices])
    BY <1>2, <2>1, <2>2, WholeScan
  <2> QED
    BY <2>1, <2>2, <2>3
<1>6. Sound(scan)
  BY <1>3, <1>4, <1>5 DEF Sound
<1> HIDE DEF scan
<1>7. out' \in Seq(Scan) /\ \A k \in DOMAIN out' : out'[k] = scan \/ (k \in DOMAIN out /\ out'[k] = out[k])
  BY <1>1, <1>2, <1>3
<1>8. \A k \in DOMAIN out' : Sound(out'[k])
  BY <1>6, <1>7 DEF RecordInv
<1>9. RecordType' /\ Adding' /\ Copying'
  BY <1>1, <1>2, <1>7 DEF RecordType, Adding, Copying, RecordInv
<1> QED
  BY <1>8, <1>9 DEF RecordInv, Sound, OneFrame, Whole

LEMMA RecordRelease == ASSUME RecordInv, S!Release PROVE RecordInv'
<1>1. PICK i \in 1..(Len(out) - 1) : /\ out' = S!RemoveAt(out, i)
                                     /\ parked' = Append(parked, out[i].points)
  BY DEF S!Release
<1>2. UNCHANGED <<mmap_device_data, changed, step, at, nAll_Size, nNow_Size, object>>
  BY DEF S!Release
<1>3. out \in Seq(Scan) /\ parked \in Seq(Seq(Point)) /\ Len(out) \in Nat
  BY DEF RecordInv, RecordType
<1>4. out' \in Seq(Scan) /\ \A j \in DOMAIN out' : \E k \in DOMAIN out : out'[j] = out[k]
  BY <1>1, <1>3, RemoveAtIs
<1>5. out[i] \in Scan
  BY <1>3
<1>6. parked' \in Seq(Seq(Point))
  BY <1>1, <1>3, <1>5, ScanFields
<1>7. RecordType'
  BY <1>2, <1>4, <1>6 DEF RecordInv, RecordType
<1>8. \A d : FramePoint(d)' = FramePoint(d)
  BY <1>2 DEF FramePoint
<1>9. Adding'
  BY <1>2 DEF RecordInv, Adding, Ends
<1>10. Copying'
  BY <1>2, <1>8 DEF RecordInv, Copying, Ends, Filled
<1>11. \A j \in DOMAIN out' : Sound(out'[j])
  BY <1>4 DEF RecordInv
<1> QED
  BY <1>7, <1>9, <1>10, <1>11 DEF RecordInv, Sound, OneFrame, Whole

LEMMA RecordStep ==
  RecordInv /\ mmap_device_data \in [1..Devices -> Frame] /\ [S!Next]_(S!assemblyVars) => RecordInv'
<1> SUFFICES ASSUME RecordInv, mmap_device_data \in [1..Devices -> Frame], [S!Next]_(S!assemblyVars)
             PROVE  RecordInv'
  OBVIOUS
<1>1. ASSUME NEW d \in 1..Devices, S!Run(d) \/ S!DecodeFromString(d) PROVE RecordInv'
  BY <1>1, RecordRun DEF S!Run, S!DecodeFromString, S!recordVars
<1>2. CASE UNCHANGED S!assemblyVars
  BY <1>2, RecordRun DEF S!assemblyVars, S!deviceVars, S!recordVars
<1> QED
  BY <1>1, <1>2, RecordFetch, RecordGet, RecordAdd, RecordSkip, RecordResize, RecordCopy, RecordPush,
     RecordRelease
     DEF S!Next, S!SqlRecord, S!Indexes

\* What the scans are that were put together.
LEMMA ScansPutTogether == RecordInv => S!OneFrameOfEach /\ S!WholeUnlessChanged
BY DEF RecordInv, Sound, OneFrame, Whole, S!OneFrameOfEach, S!WholeUnlessChanged, S!Zero

-----------------------------------------------------------------------------
(* The three side by side.                                                  *)

RowsInv == RadarInv /\ DeviceInv /\ RecordInv

LEMMA RowsStep == RowsInv /\ [MCNext]_<<machine, vars, radarVars, assemblyVars>> => RowsInv'
<1> SUFFICES ASSUME RowsInv, [MCNext]_<<machine, vars, radarVars, assemblyVars>> PROVE RowsInv'
  OBVIOUS
<1>1. [R!Next]_(R!radarVars) /\ [S!Next]_(S!assemblyVars)
  <2>1. UNCHANGED radarVars => UNCHANGED R!radarVars
    BY DEF radarVars, R!radarVars, R!service, R!buffers
  <2>2. UNCHANGED assemblyVars => UNCHANGED S!assemblyVars
    BY DEF assemblyVars, S!assemblyVars, S!deviceVars, S!recordVars
  <2> QED
    BY <2>1, <2>2 DEF MCNext
<1>2. mmap_device_data \in [1..Devices -> Frame]
  BY DEF RowsInv, DeviceInv
<1> QED
  BY <1>1, <1>2, RadarStep, DeviceStep, RecordStep DEF RowsInv

LEMMA RowsInvariant == MCSpec => []RowsInv
<1>1. MCInit => RowsInv
  BY RadarInit, DeviceInit, RecordInit DEF MCInit, RowsInv
<1> QED
  BY <1>1, RowsStep, PTL DEF MCSpec

\* From the frames of the devices to the rows of the database: each frame that
\* is kept has a signal that fetches it, a scan has one frame of each device, as
\* a whole unless a frame was replaced meanwhile, and what became of a scan that
\* was taken is in one place until it is stored, under no earlier task.
THEOREM ScanRowsSound == MCSpec => []RowsOfScans
<1>1. RowsInv => RowsOfScans
  <2> SUFFICES ASSUME RowsInv PROVE RowsOfScans
    OBVIOUS
  <2>1. R!RecordedOnce /\ R!ReadyHasWriter /\ R!NoEarlierTask
    BY RowsRecordedOnce, RowsNameNoEarlier DEF RowsInv, RadarInv
  <2>2. S!FramesAreFetched /\ S!OneFrameOfEach /\ S!WholeUnlessChanged
    BY FramesFetched, ScansPutTogether DEF RowsInv
  <2> QED
    BY <2>1, <2>2 DEF RowsOfScans, S!ScansSound
<1> QED
  BY <1>1, RowsInvariant, PTL

\* The queues, the buffers, the pool of threads and the database hold what they
\* should, and each scan is in one place only.
THEOREM RadarRecordsTypeCorrect == MCSpec => [](RadarType /\ BufferType /\ ScansOnce)
<1>1. RowsInv => RadarType /\ BufferType /\ ScansOnce
  BY DEF RowsInv, RadarInv
<1> QED
  BY <1>1, RowsInvariant, PTL
=============================================================================
