---------------------------- MODULE TaskService ----------------------------
(***************************************************************************)
(* modules/task_service: a request of the operator starts or stops the      *)
(* inspection task.  Starting inserts a row of task_data, makes the folder  *)
(* of the task and looks its row up again; each of the three can fail.      *)
(* Every outcome but an error is notified to the other modules, which       *)
(* handle it later on a queue of their own; one of them stands for all.     *)
(*                                                                          *)
(* A task's name is made of its train and of the second in which it was     *)
(* created, and its folder is named after it.  Row ids are positions in the *)
(* table, 0 is the -1 of the code.                                          *)
(***************************************************************************)
EXTENDS Integers, Sequences, FiniteSets

CONSTANTS Trains,       \* train numbers an operator enters
          MaxClock,     \* bound: seconds that pass
          MaxRows,      \* bound: tasks inserted
          MaxQueue,     \* bound: notifications under way
          None

ASSUME TaskAssumption == /\ MaxClock \in Nat /\ MaxRows \in Nat /\ MaxQueue \in Nat
                         /\ None \notin Trains \X Nat

VARIABLES clock,     \* QDateTime::currentDateTime(), in seconds
          started,   \* m_bStartTaskFlag
          current,   \* m_currentTask
          rows,      \* task_data: the name and end_time of each row
          folders,   \* task folders that exist
          told,      \* the latest notification
          queue,     \* notifications the other module has not handled
          module     \* what it knows: m_currentTask or the save path

vars == <<clock, started, current, rows, folders, told, queue, module>>

NoTask == [state |-> "stopped", name |-> None, path |-> None, id |-> 0]

Init == /\ clock = 0
        /\ started = FALSE
        /\ current = NoTask
        /\ rows = <<>>
        /\ folders = {}
        /\ told = [kind |-> "stop", task |-> NoTask]
        /\ queue = <<>>
        /\ module = NoTask

Tick == /\ clock < MaxClock
        /\ clock' = clock + 1
        /\ UNCHANGED <<started, current, rows, folders, told, queue, module>>

Named(table, name) == {i \in DOMAIN table : table[i].name = name}

\* searchIdByTaskName: the first row with the name, if there is one.
FirstRow(table, name) ==
  {i \in Named(table, name) : \A j \in Named(table, name) : i <= j}

Notify(kind, task) == /\ told' = [kind |-> kind, task |-> task]
                      /\ queue' = Append(queue, task)

\* createTaskDataBase: whether the row was inserted is not looked at.
Insert(name) == \/ /\ Len(rows) < MaxRows
                   /\ rows' = Append(rows, [name |-> name, end |-> None])
                \/ rows' = rows

\* Mutant of StartTask: a folder that cannot be made is only logged.
StartTaskNoFolder(kind, name) ==
  /\ Insert(name)
  /\ folders' \in {folders, folders \cup {name}}
  /\ \E id \in {0} \cup FirstRow(rows', name) :
        current' = [state |-> "running", name |-> name, path |-> name, id |-> id]
  /\ Notify(kind, current')

\* startTask: if the folder cannot be made the caller returns an error, with
\* the new name in the record of the task and its old path and id.
StartTask(kind, name) ==
  /\ Insert(name)
  /\ \/ /\ name \notin folders
        /\ current' = [current EXCEPT !.state = "running", !.name = name]
        /\ UNCHANGED <<folders, told, queue>>
     \/ /\ folders' = folders \cup {name}
        /\ \E id \in {0} \cup FirstRow(rows', name) :
              current' = [state |-> "running", name |-> name, path |-> name, id |-> id]
        /\ Notify(kind, current')

\* A task started by the train: refused while a task is started.
CreateOnlineTask(train) == /\ Len(queue) < MaxQueue
                           /\ ~started
                           /\ started' = TRUE
                           /\ StartTask("online", <<train, clock>>)
                           /\ UNCHANGED <<clock, module>>

\* Mutant of CreateTestTaskData: the flag is not set.
CreateTestTaskUnflagged(train) == /\ Len(queue) < MaxQueue
                                  /\ StartTask("test", <<train, clock>>)
                                  /\ UNCHANGED <<clock, started, module>>

\* A task started by hand replaces the one that is running.
CreateTestTaskData(train) == /\ Len(queue) < MaxQueue
                             /\ started' = TRUE
                             /\ StartTask("test", <<train, clock>>)
                             /\ UNCHANGED <<clock, module>>

\* Mutant of StopTask: the id survives the record it belongs to.
StopTaskIdKept == /\ Len(queue) < MaxQueue
                  /\ \/ current.id # 0 /\ rows' = [rows EXCEPT ![current.id].end = clock]
                     \/ rows' = rows
                  /\ current' = [NoTask EXCEPT !.path = current.path, !.id = current.id]
                  /\ started' = FALSE
                  /\ Notify("stop", current')
                  /\ UNCHANGED <<clock, folders, module>>

\* updataTaskTime writes the end of the row, or fails; TaskInfo::clear() resets
\* the record but for the path.
StopTask == /\ Len(queue) < MaxQueue
            /\ \/ current.id # 0 /\ rows' = [rows EXCEPT ![current.id].end = clock]
               \/ rows' = rows
            /\ current' = [NoTask EXCEPT !.path = current.path]
            /\ started' = FALSE
            /\ Notify("stop", current')
            /\ UNCHANGED <<clock, folders, module>>

\* notifyTask of the other module: a stopped task ends its recordings and
\* leaves the save path; a running one gives it a new path.
NotifyTask == /\ queue # <<>>
              /\ LET task == Head(queue)
                 IN module' = IF task.state = "running" THEN task
                              ELSE [module EXCEPT !.state = "stopped"]
              /\ queue' = Tail(queue)
              /\ UNCHANGED <<clock, started, current, rows, folders, told>>

Next == \/ Tick
        \/ \E train \in Trains : CreateOnlineTask(train) \/ CreateTestTaskData(train)
        \/ StopTask
        \/ NotifyTask

Spec == Init /\ [][Next]_vars

-----------------------------------------------------------------------------
Names   == Trains \X (0..MaxClock)
TaskSet == [state : {"running", "stopped"}, name : Names \cup {None},
            path : Names \cup {None}, id : 0..MaxRows]

\* The shape of the state; an id is the position of a row.
TypeOK == /\ clock \in 0..MaxClock
          /\ started \in BOOLEAN
          /\ current \in TaskSet /\ current.id <= Len(rows)
          /\ \A i \in DOMAIN rows : rows[i].name \in Names /\ rows[i].end \in (0..MaxClock) \cup {None}
          /\ folders \subseteq Names
          /\ told.kind \in {"online", "test", "stop"} /\ told.task \in TaskSet
          /\ \A i \in DOMAIN queue : queue[i] \in TaskSet
          /\ module \in TaskSet

\* A module that believes in a running task saves into a folder that exists
\* and is the folder of that task, whatever failed on the way.
RunningTaskHasFolder ==
  module.state = "running" => module.path \in folders /\ module.path = module.name

\* An online task is announced only when the one before it was announced as
\* stopped: it never replaces a running task behind the modules' back, after
\* any sequence of failed starts and tasks started by hand.
OnlineAfterStop ==
  [][told' # told /\ told'.kind = "online" => told.task.state = "stopped"]_vars

\* A stop writes the end of the task that the modules were told is running,
\* and of no other row: not of a task that was stopped already, nor of one
\* whose start failed.
StopEndsToldTask ==
  [][\A i \in DOMAIN rows : rows'[i].end # rows[i].end
                            => told.task.state = "running" /\ told.task.id = i]_vars
=============================================================================
