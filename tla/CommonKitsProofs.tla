--------------------------- MODULE CommonKitsProofs ---------------------------
(***************************************************************************)
(* What is proved of kits/common: the timers of the pool, the registry of   *)
(* its running tasks and the recorder with a cache.  The three share no     *)
(* state, and each part of the module is about one of them.                 *)
(***************************************************************************)
EXTENDS ConcurrentPool, ConcurrentSniffer, SaveVideoCache, FiniteSetTheorems,
        SequenceTheorems, TLAPS

-----------------------------------------------------------------------------
(* The timers of the pool, for any clients, names, delays and clock.  The   *)
(* core is Late: whoever is in the loop of the timer thread came too late,  *)
(* the pool has stopped.  Ids are told apart (Distinct), so that a client   *)
(* that starts its task late starts no timer's function.                    *)

Late == InLoop => ~bRun

\* Between two waits only a popped task is in the hands of the timer thread.
Popped == /\ tpc \in {"start", "wait", "exited"} => cur = NoTask
          /\ cur.at <= now

Pending(c) == req[c].kind # "none"

Distinct ==
  /\ \A c \in Clients : Pending(c) => req[c].id \in 1..serial
  /\ \A c, d \in Clients : Pending(c) /\ Pending(d) /\ req[c].id = req[d].id => c = d
  /\ \A k \in tasks \cup {cur} :
       k.id \in 0..serial /\ \A c \in Clients : Pending(c) => k.id # req[c].id

TimerInv == TypeOK /\ Late /\ Popped /\ Distinct /\ TimersOfAName

-----------------------------------------------------------------------------
LEMMA Nothing == NoReq \in ReqType /\ NoTask \in TaskType /\ Forever \in Nat
<1>1. 0 \in 0..MaxTasks /\ 0 \in 0..MaxTime /\ 0 \in 0..(2 * MaxTime) /\ Forever \in Nat
  BY TimerAssumption DEF Forever
<1> QED
  BY <1>1 DEF NoReq, NoTask, ReqType, TaskType

LEMMA TimerInit == Init => TimerInv
<1> SUFFICES ASSUME Init PROVE TimerInv
  OBVIOUS
<1>1. TypeOK
  <2>1. req \in [Clients -> ReqType]
    BY Nothing DEF Init
  <2>2. now \in 0..MaxTime /\ serial \in 0..MaxTasks
    BY TimerAssumption DEF Init
  <2> QED
    BY <2>1, <2>2, Nothing DEF Init, TypeOK
<1>2. Late /\ Popped /\ TimersOfAName
  BY DEF Init, Late, Popped, TimersOfAName, Timers, InLoop, NoTask
<1>3. Distinct
  BY DEF Init, Distinct, Pending, NoTask, NoReq
<1> QED
  BY <1>1, <1>2, <1>3 DEF TimerInv

\* What a popped task and a wait look like.
LEMMA PopOrWaitInv ==
  ASSUME TypeOK, ~bRun, NEW S \in SUBSET TaskType, PopOrWait(S)
  PROVE  /\ tasks' \subseteq TaskType /\ cur' \in TaskType
         /\ wakeAt' \in 0..(2 * MaxTime) \cup {Forever}
         /\ tpc' \in {"dispatch", "wait"}
         /\ tpc' = "wait" => cur' = NoTask
         /\ cur'.at <= now
         /\ \A k \in tasks' \cup {cur'} : k = NoTask \/ \E l \in S : l.id = k.id /\ l.name = k.name
         /\ \A l \in S : \E k \in tasks' \cup {cur'} : l.id = k.id
<1>1. CASE \E k \in First(S) : /\ k.at <= now
                               /\ tasks' = S \ {k}
                               /\ cur' = [k EXCEPT !.at = now]
                               /\ tpc' = "dispatch"
                               /\ UNCHANGED wakeAt
  <2> PICK k \in First(S) : /\ tasks' = S \ {k}
                            /\ cur' = [k EXCEPT !.at = now]
                            /\ tpc' = "dispatch"
                            /\ UNCHANGED wakeAt
    BY <1>1
  <2>1. k \in S /\ k \in TaskType
    BY DEF First
  <2>2. cur' \in TaskType /\ cur'.id = k.id /\ cur'.at = now
    BY <2>1, TimerAssumption DEF TypeOK, TaskType
  <2>5. cur'.name = k.name
    BY <2>1 DEF TaskType
  <2>3. \A l \in S : \E m \in tasks' \cup {cur'} : l.id = m.id
    BY <2>1, <2>2
  <2>4. \A m \in tasks' \cup {cur'} : \E l \in S : l.id = m.id /\ l.name = m.name
    BY <2>1, <2>2, <2>5
  <2> QED
    BY <2>1, <2>2, <2>3, <2>4 DEF TypeOK
<1>2. CASE /\ \A k \in S : k.at > now
           /\ tasks' = S
           /\ cur' = NoTask
           /\ tpc' = IF bRun THEN "exited" ELSE "wait"
           /\ wakeAt' \in NextTrigger(S)
  <2>1. NextTrigger(S) \subseteq 0..(2 * MaxTime) \cup {Forever}
    BY DEF NextTrigger, First, TaskType
  <2>2. NoTask \in TaskType
    BY Nothing
  <2> QED
    BY <1>2, <2>1, <2>2 DEF NoTask, TypeOK
<1> QED
  BY <1>1, <1>2 DEF PopOrWait

\* Timers that come from timers of the same id and name are as few of a name.
LEMMA TimersFrom ==
  ASSUME TimersOfAName, bRun' => bRun,
         \A k \in Timers' : \E l \in Timers : l.id = k.id /\ l.name = k.name
  PROVE  TimersOfAName'
<1>1. ASSUME NEW j \in Timers', NEW k \in Timers', NEW l \in Timers', j.name = k.name, k.name = l.name
      PROVE  j.id = k.id \/ k.id = l.id \/ j.id = l.id
  <2>1. PICK a \in Timers : a.id = j.id /\ a.name = j.name
    OBVIOUS
  <2>2. PICK b \in Timers : b.id = k.id /\ b.name = k.name
    OBVIOUS
  <2>3. PICK c \in Timers : c.id = l.id /\ c.name = l.name
    OBVIOUS
  <2> QED
    BY <1>1, <2>1, <2>2, <2>3 DEF TimersOfAName
<1>2. ASSUME NEW k \in Timers', NEW l \in Timers', k.name = l.name, k.id # l.id
      PROVE  ~bRun'
  <2>1. PICK b \in Timers : b.id = k.id /\ b.name = k.name
    OBVIOUS
  <2>2. PICK c \in Timers : c.id = l.id /\ c.name = l.name
    OBVIOUS
  <2> QED
    BY <1>2, <2>1, <2>2 DEF TimersOfAName
<1> QED
  BY <1>1, <1>2 DEF TimersOfAName

-----------------------------------------------------------------------------
LEMMA TimerStep == TimerInv /\ [Next]_vars => TimerInv'
<1> SUFFICES ASSUME TimerInv, [Next]_vars PROVE TimerInv'
  OBVIOUS
<1> USE DEF TimerInv
<1>1. ASSUME NEW c \in Clients, NEW kind \in {"now", "after", "every"}, NEW name \in Names \cup (0..(serial + 1)),
             NEW delay \in Nat, Ask(c, kind, name, delay)
      PROVE  TimerInv'
  <2>1. delay \in 0..MaxTime /\ serial + 1 \in 0..MaxTasks
    BY <1>1, TimerAssumption DEF Ask, TypeOK
  <2>2. [kind |-> kind, id |-> serial + 1, name |-> name, delay |-> delay] \in ReqType
    BY <2>1, TimerAssumption DEF TypeOK, ReqType
  <2>3. TypeOK'
    BY <1>1, <2>1, <2>2 DEF Ask, TypeOK
  <2>4. Late' /\ Popped' /\ TimersOfAName'
    BY <1>1 DEF Ask, Late, Popped, TimersOfAName, Timers, InLoop
  <2>5. Distinct'
    BY <1>1, <2>1 DEF Ask, Distinct, Pending, TypeOK
  <2> QED
    BY <2>3, <2>4, <2>5
<1>2. ASSUME NEW c \in Clients, RunTask(c) PROVE TimerInv'
  <2>1. 0 \in 0..(serial + 1) /\ 0 \in Nat
    BY DEF TypeOK
  <2> QED
    BY <1>1, <1>2, <2>1 DEF RunTask
<1>3. ASSUME NEW c \in Clients, RunAfter(c) PROVE TimerInv'
  <2>1. serial + 1 \in 0..(serial + 1)
    BY DEF TypeOK
  <2> QED
    BY <1>1, <1>3, <2>1, TimerAssumption DEF RunAfter
<1>4. ASSUME NEW c \in Clients, RunEvery(c) PROVE TimerInv'
  BY <1>1, <1>4, TimerAssumption DEF RunEvery
<1>5. ASSUME NEW c \in Clients, Spawn(c) PROVE TimerInv'
  <2>1. req[c].id \in 1..MaxTasks
    BY <1>5, TimerAssumption DEF Spawn, Distinct, Pending, TypeOK, ReqType
  <2>2. TypeOK'
    BY <1>5, <2>1, Nothing DEF Spawn, TypeOK
  <2>3. Late' /\ Popped' /\ TimersOfAName'
    BY <1>5 DEF Spawn, Late, Popped, TimersOfAName, Timers, InLoop
  <2>4. Distinct'
    BY <1>5 DEF Spawn, Distinct, Pending, TypeOK, NoReq
  <2> QED
    BY <2>2, <2>3, <2>4
<1>6. ASSUME NEW c \in Clients, AddTimerTask(c) PROVE TimerInv'
  <2> DEFINE k == [id |-> req[c].id, name |-> req[c].name, at |-> now + req[c].delay,
                   ival |-> req[c].delay, repeat |-> req[c].kind = "every"]
  <2>1. k \in TaskType /\ k.id = req[c].id /\ Pending(c)
    BY <1>6, TimerAssumption DEF AddTimerTask, TypeOK, Pending, ReqType, TaskType
  <2>2. TypeOK'
    BY <1>6, <2>1, Nothing DEF AddTimerTask, TypeOK
  <2>3. Late' /\ Popped'
    BY <1>6 DEF AddTimerTask, Late, Popped, InLoop
  <2>4. TimersOfAName'
    <3>1. CASE tasks' = tasks
      BY <1>6, <3>1 DEF AddTimerTask, TimersOfAName, Timers
    <3>2. CASE tasks' = tasks \cup {k} /\ \A m \in tasks : m.name # k.name
      <4>1. Timers' \subseteq Timers \cup {k} /\ bRun' = bRun /\ tpc' = tpc /\ cur' = cur
        BY <1>6, <3>2 DEF AddTimerTask, Timers
      <4>2. \A m \in Timers : m.name = k.name => m = cur
        BY <3>2 DEF Timers
      <4>3. cur \in Timers => ~bRun
        BY DEF Timers, Popped, Late, InLoop, NoTask
      <4> HIDE DEF k
      <4> QED
        BY <4>1, <4>2, <4>3 DEF TimersOfAName
    <3> QED
      BY <1>6, <3>1, <3>2, <2>1 DEF AddTimerTask
  <2>5. \A d \in Clients : Pending(d)' => Pending(d) /\ req'[d] = req[d] /\ d # c
    BY <1>6 DEF AddTimerTask, Pending, TypeOK, NoReq
  <2>6. \A m \in (tasks \cup {cur})' : m = k \/ m \in tasks \cup {cur}
    BY <1>6 DEF AddTimerTask
  <2>7. serial' = serial
    BY <1>6 DEF AddTimerTask
  <2>8. Distinct'
    BY <2>1, <2>5, <2>6, <2>7 DEF Distinct, TypeOK
  <2> QED
    BY <2>2, <2>3, <2>4, <2>8
<1>7. ASSUME NEW n \in Names, TimerCancel(n) PROVE TimerInv'
  <2>1. Timers' = Timers /\ (bRun' => bRun)
    BY <1>7 DEF TimerCancel, Timers, client
  <2>2. TimersOfAName'
    BY <2>1, TimersFrom
  <2> QED
    BY <1>7, <2>2 DEF TimerCancel, TypeOK, Late, Popped, Distinct, Pending, InLoop, client
<1>8. CASE Stop
  <2>1. Timers' = Timers /\ (bRun' => bRun)
    BY <1>8 DEF Stop, Timers, client
  <2>2. TimersOfAName'
    BY <2>1, TimersFrom
  <2> QED
    BY <1>8, <2>2 DEF Stop, TypeOK, Late, Popped, Distinct, Pending, InLoop, client
<1>9. CASE Destruct
  <2>1. Timers' = Timers /\ (bRun' => bRun)
    BY <1>9 DEF Destruct, Timers, client
  <2>2. TimersOfAName'
    BY <2>1, TimersFrom
  <2> QED
    BY <1>9, <2>2 DEF Destruct, TypeOK, Late, Popped, Distinct, Pending, InLoop, client
<1>10. CASE Tick
  <2>1. cur.at \in Nat
    BY DEF TypeOK, TaskType
  <2>2. TypeOK' /\ Popped'
    BY <1>10, <2>1, TimerAssumption DEF Tick, TypeOK, Popped, client
  <2> QED
    BY <1>10, <2>2 DEF Tick, Late, Distinct, Pending, TimersOfAName, Timers, InLoop, client
<1>11. CASE ThreadStart
  <2>1. NextTrigger(tasks) \subseteq 0..(2 * MaxTime) \cup {Forever}
    BY DEF NextTrigger, First, TypeOK, TaskType
  <2> QED
    BY <1>11, <2>1 DEF ThreadStart, TypeOK, Late, Popped, Distinct, Pending, TimersOfAName, Timers, InLoop, client
<1>12. CASE Wake
  <2>1. CASE bRun
    BY <1>12, <2>1 DEF Wake, Late, InLoop
  <2>2. CASE ~bRun
    <3>1. PopOrWait(tasks)
      BY <1>12, <2>2 DEF Wake
    <3>2. TimersOfAName'
      <4>1. \A k \in tasks' \cup {cur'} : k = NoTask \/ \E l \in tasks : l.id = k.id /\ l.name = k.name
        BY <2>2, <3>1, PopOrWaitInv DEF TypeOK
      <4> QED
        BY <1>12, <4>1, TimersFrom DEF Wake, Timers, NoTask
    <3> QED
      BY <1>12, <2>2, <3>1, <3>2, PopOrWaitInv DEF Wake, TypeOK, Late, Popped, Distinct, Pending, InLoop,
         client, NoTask
  <2> QED
    BY <2>1, <2>2 DEF TypeOK
<1>13. CASE CheckCancel
  <2>1. Timers' = Timers /\ (bRun' => bRun)
    BY <1>13 DEF CheckCancel, Timers, client
  <2>2. TimersOfAName'
    BY <2>1, TimersFrom
  <2> QED
    BY <1>13, <2>2 DEF CheckCancel, TypeOK, Late, Popped, Distinct, Pending, InLoop, client
<1>14. CASE RunTimerTask
  <2>1. Timers' = Timers /\ (bRun' => bRun)
    BY <1>14 DEF RunTimerTask, Timers, client
  <2>2. TimersOfAName'
    BY <2>1, TimersFrom
  <2> QED
    BY <1>14, <2>2 DEF RunTimerTask, TypeOK, Late, Popped, Distinct, Pending, InLoop, client
<1>15. CASE Requeue
  <2>1. ~bRun
    BY <1>15 DEF Requeue, Late, InLoop
  <2> DEFINE S == IF tpc = "ran" /\ cur.repeat /\ ~bRun
                  THEN tasks \cup {[cur EXCEPT !.at = cur.at + cur.ival]} ELSE tasks
  <2>2. PopOrWait(S) /\ UNCHANGED <<bRun, cancels, now, client, started, exiting>>
    BY <1>15 DEF Requeue
  <2>3. cur.at + cur.ival \in 0..(2 * MaxTime)
    BY TimerAssumption DEF TypeOK, TaskType, Popped
  <2>4. /\ S \in SUBSET TaskType
        /\ \A l \in S : \E k \in tasks \cup {cur} : k.id = l.id /\ k.name = l.name
    BY <2>3 DEF TypeOK, TaskType
  <2> HIDE DEF S
  <2>5. \A k \in tasks' \cup {cur'} : k = NoTask \/ \E l \in tasks \cup {cur} : l.id = k.id /\ l.name = k.name
    BY <2>1, <2>2, <2>4, PopOrWaitInv
  <2>6. /\ tasks' \subseteq TaskType /\ cur' \in TaskType
        /\ wakeAt' \in 0..(2 * MaxTime) \cup {Forever}
        /\ tpc' \in {"dispatch", "wait"}
        /\ tpc' = "wait" => cur' = NoTask
        /\ cur'.at <= now
    BY <2>1, <2>2, <2>4, PopOrWaitInv
  <2>7. TypeOK'
    BY <2>2, <2>6 DEF TypeOK, client
  <2>8. Late' /\ Popped'
    BY <2>1, <2>2, <2>6 DEF Late, Popped
  <2>10. TimersOfAName'
    BY <2>2, <2>5, TimersFrom DEF Timers, NoTask
  <2>9. Distinct'
    BY <2>2, <2>5 DEF Distinct, Pending, TypeOK, client, NoTask
  <2> QED
    BY <2>7, <2>8, <2>9, <2>10
<1>16. CASE UNCHANGED vars
  BY <1>16 DEF vars, TypeOK, Late, Popped, Distinct, Pending, TimersOfAName, Timers, InLoop
<1> QED
  BY <1>2, <1>3, <1>4, <1>5, <1>6, <1>7, <1>8, <1>9, <1>10, <1>11, <1>12, <1>13, <1>14, <1>15, <1>16
     DEF Next, TimerThread

LEMMA TimerInvariant == Spec => []TimerInv
BY TimerInit, TimerStep, PTL DEF Spec

-----------------------------------------------------------------------------
\* The queue, the task in hand and what clients ask for keep their shape.
THEOREM TimerTypeCorrect == Spec => []TypeOK
BY TimerInvariant, PTL DEF TimerInv

\* Requests can share a name over the time a popped task is away, and never
\* three of them, nor two in a running pool: for any clients and names.
THEOREM TimersOfANameBounded == Spec => []TimersOfAName
BY TimerInvariant, PTL DEF TimerInv

\* runTask tests the flag for the timer thread too, and who is in its loop has
\* found the pool stopped.
THEOREM TimerNoneAfterStop == Spec => NoTimerAfterStop
<1>1. ASSUME TimerInv, [Next]_vars, NEW k \in tasks \cup {cur}, k.id \in started' \ started
      PROVE  bRun
  <2>1. CASE \E c \in Clients : Spawn(c)
    <3> PICK c \in Clients : Spawn(c)
      BY <2>1
    <3>1. Pending(c) /\ k.id = req[c].id
      BY <1>1 DEF Spawn, Pending
    <3> QED
      BY <1>1, <3>1 DEF TimerInv, Distinct
  <2>2. CASE RunTimerTask
    BY <1>1, <2>2 DEF RunTimerTask
  <2>3. CASE started' = started
    BY <1>1, <2>3
  <2> QED
    BY <1>1, <2>1, <2>2, <2>3 DEF Next, TimerThread, RunTask, RunAfter, RunEvery, Ask, AddTimerTask,
       TimerCancel, Stop, Destruct, Tick, ThreadStart, Wake, CheckCancel, Requeue, vars
<1>2. TimerInv /\ [Next]_vars =>
        [\A k \in tasks \cup {cur} : k.id \in started' \ started => bRun]_vars
  BY <1>1
<1> QED
  BY <1>2, TimerInvariant, PTL DEF NoTimerAfterStop, Spec

\* A periodic task goes from the queue to the timer thread and back.
THEOREM TimerPeriodicKept == Spec => PeriodicIsKept
<1>1. ASSUME TimerInv, [Next]_vars, NEW k \in tasks \cup {cur}, k.repeat, k.name \notin cancels,
             tpc # "canceled"
      PROVE  \E l \in tasks' \cup {cur'} : l.id = k.id
  <2>1. CASE Wake
    <3>1. ~bRun /\ PopOrWait(tasks) /\ cur = NoTask
      BY <1>1, <2>1 DEF Wake, TimerInv, Late, Popped, InLoop
    <3>2. k \in tasks
      BY <1>1, <3>1 DEF NoTask
    <3>3. TypeOK /\ tasks \in SUBSET TaskType
      BY <1>1 DEF TimerInv, TypeOK
    <3> QED
      BY <3>1, <3>2, <3>3, PopOrWaitInv
  <2>2. CASE Requeue
    <3> DEFINE back == [cur EXCEPT !.at = cur.at + cur.ival]
               S    == IF tpc = "ran" /\ cur.repeat /\ ~bRun THEN tasks \cup {back} ELSE tasks
    <3>1. ~bRun /\ tpc = "ran" /\ PopOrWait(S)
      BY <1>1, <2>2 DEF Requeue, TimerInv, Late, InLoop
    <3>2. TypeOK /\ Popped
      BY <1>1 DEF TimerInv
    <3>3. cur.at + cur.ival \in 0..(2 * MaxTime)
      BY <3>2, TimerAssumption DEF TypeOK, TaskType, Popped
    <3>4. back \in TaskType /\ back.id = cur.id /\ S \in SUBSET TaskType
      BY <3>2, <3>3 DEF TypeOK, TaskType
    <3>5. \E l \in S : l.id = k.id
      BY <1>1, <3>1, <3>4
    <3> HIDE DEF S
    <3> QED
      BY <3>1, <3>2, <3>4, <3>5, PopOrWaitInv
  <2>3. CASE tasks \subseteq tasks' /\ cur' = cur
    BY <1>1, <2>3
  <2> QED
    BY <1>1, <2>1, <2>2, <2>3 DEF Next, TimerThread, RunTask, RunAfter, RunEvery, Ask, Spawn,
       AddTimerTask, TimerCancel, Stop, Destruct, Tick, ThreadStart, CheckCancel, RunTimerTask, vars
<1>2. TimerInv /\ [Next]_vars =>
        [\A k \in tasks \cup {cur} :
            k.repeat /\ k.name \notin cancels /\ tpc # "canceled"
              => \E l \in tasks' \cup {cur'} : l.id = k.id]_vars
  BY <1>1
<1> QED
  BY <1>2, TimerInvariant, PTL DEF PeriodicIsKept, Spec

\* No step leads out of the loop, because none sets the flag again.
THEOREM TimerLateNeverEnds == Spec => LateThreadNeverEnds
<1>1. ASSUME TimerInv, [Next]_vars, InLoop
      PROVE  InLoop'
  <2>1. ~bRun /\ TypeOK
    BY <1>1 DEF TimerInv, Late
  <2>2. CASE Wake \/ Requeue
    BY <2>1, <2>2 DEF Wake, Requeue, PopOrWait, InLoop
  <2>3. CASE CheckCancel \/ RunTimerTask
    BY <2>3 DEF CheckCancel, RunTimerTask, InLoop
  <2>4. CASE tpc' = tpc
    BY <1>1, <2>4 DEF InLoop
  <2> QED
    BY <1>1, <2>2, <2>3, <2>4 DEF Next, TimerThread, RunTask, RunAfter, RunEvery, Ask, Spawn,
       AddTimerTask, TimerCancel, Stop, Destruct, Tick, ThreadStart, InLoop, vars
<1>2. TimerInv /\ [Next]_vars => [InLoop => InLoop']_vars
  BY <1>1
<1> QED
  BY <1>2, TimerInvariant, PTL DEF LateThreadNeverEnds, Spec

-----------------------------------------------------------------------------
(* The registry of running tasks, for any number of threads, tasks and      *)
(* watchers and any limits.  Until a getter swaps in a stale successor, the *)
(* pool of watchers never lends a watcher twice: not when the registry is   *)
(* cleared under running tasks, nor when a handler removes an entry whose   *)
(* acquire has not returned, nor when several threads are in getObject.     *)

Active == {"register", "connect", "setFuture", "return"}

\* A thread holds a watcher exactly between getObject and the end of acquire.
LocalWatcher ==
  \A t \in Threads : /\ watcher[t] # None <=> pc[t] \in Active
                     /\ pc[t] # "idle" => task[t] \in Tasks

\* A thread registers its watcher only once.
Unregistered == \A t \in Threads : pc[t] = "register" => watcher[t] \notin InRegistry

\* The event thread handles a watcher while it is not idle.
EventWatcher == /\ epc # "idle" => ew \in Watchers
                /\ epc = "future" => eid \in Tasks

OwnerInv == SnifferTypeOK /\ LocalWatcher /\ EventWatcher /\ (~damaged => Unregistered /\ OneOwner)

\* Every watcher starts in the pool and nobody holds one.
LEMMA OwnerInit == SnifferInit => OwnerInv
<1> SUFFICES ASSUME SnifferInit PROVE OwnerInv
  OBVIOUS
<1> USE SnifferAssumption DEF SnifferInit
<1>1. SnifferTypeOK
  BY DEF SnifferTypeOK
<1>2. LocalWatcher /\ Unregistered
  BY DEF LocalWatcher, Unregistered, Active, InRegistry, Registered
<1>3. EventWatcher
  BY DEF EventWatcher
<1>4. OneOwner
  BY DEF OneOwner, Local, InRegistry, Registered
<1> QED  BY <1>1, <1>2, <1>3, <1>4 DEF OwnerInv

\* What the end of the last references does to the pool.
LEMMA PutBackTypes ==
  ASSUME SnifferTypeOK, NEW S \in SUBSET Watchers, PutBack(S)
  PROVE  /\ free' \subseteq Watchers /\ posted' \subseteq Watchers
         /\ head' \in [Threads -> {"kept", "popped", "reused"}]
         /\ conn' \in [Watchers -> SUBSET Tasks]
         /\ watches' \in [Watchers -> Tasks \cup {None}]
         /\ dangling' \in BOOLEAN
<1> PICK D \in SUBSET S :
      /\ free' = free \cup (S \ D)
      /\ head' = IF S \ D = {} THEN head
                 ELSE [t \in Threads |-> IF head[t] = "popped" THEN "reused" ELSE head[t]]
      /\ conn' = [w \in Watchers |-> IF w \in D THEN {} ELSE conn[w]]
      /\ watches' = [w \in Watchers |-> IF w \in D THEN None ELSE watches[w]]
      /\ posted' = posted \ D
      /\ dangling' = (dangling \/ (epc # "idle" /\ ew \in D))
  BY DEF PutBack
<1>1. dangling' \in BOOLEAN
  BY Zenon DEF SnifferTypeOK
<1>2. head' \in [Threads -> {"kept", "popped", "reused"}]
  BY DEF SnifferTypeOK
<1> QED
  BY <1>1, <1>2 DEF SnifferTypeOK

\* No step of a caller, a task or the event loop lends a watcher twice.
LEMMA OwnerStep == OwnerInv /\ [SnifferNext]_snifferVars => OwnerInv'
<1> SUFFICES ASSUME OwnerInv, [SnifferNext]_snifferVars PROVE OwnerInv'
  OBVIOUS
<1> USE SnifferAssumption DEF OwnerInv, Active, Local, InRegistry, Registered, Goto, Lend, PopHead,
        acquiring, event, history, pool
<1>0. CASE UNCHANGED snifferVars
  BY <1>0 DEF snifferVars, SnifferTypeOK, LocalWatcher, EventWatcher, Unregistered, OneOwner
<1>1. ASSUME NEW t \in Threads, Launch(t) PROVE OwnerInv'
  <2>1. SnifferTypeOK'
    BY <1>1 DEF Launch, SnifferTypeOK, LocalWatcher, EventWatcher
  <2>2. LocalWatcher' /\ (~damaged' => Unregistered')
    BY <1>1 DEF Launch, SnifferTypeOK, LocalWatcher, Unregistered, OneOwner
  <2>3. EventWatcher'
    BY <1>1 DEF Launch, SnifferTypeOK, EventWatcher
  <2>4. ASSUME ~damaged' PROVE OneOwner'
    BY <1>1, <2>4 DEF Launch, SnifferTypeOK, LocalWatcher, Unregistered, OneOwner
  <2> QED
    BY <2>1, <2>2, <2>3, <2>4
<1>2. ASSUME NEW t \in Threads, LoadHead(t) PROVE OwnerInv'
  <2>1. SnifferTypeOK'
    BY <1>2 DEF LoadHead, SnifferTypeOK, LocalWatcher, EventWatcher
  <2>2. LocalWatcher' /\ (~damaged' => Unregistered')
    BY <1>2 DEF LoadHead, SnifferTypeOK, LocalWatcher, Unregistered, OneOwner
  <2>3. EventWatcher'
    BY <1>2 DEF LoadHead, SnifferTypeOK, EventWatcher
  <2>4. ASSUME ~damaged' PROVE OneOwner'
    BY <1>2, <2>4 DEF LoadHead, SnifferTypeOK, LocalWatcher, Unregistered, OneOwner
  <2> QED
    BY <2>1, <2>2, <2>3, <2>4
<1>3. ASSUME NEW t \in Threads, Build(t) PROVE OwnerInv'
  <2>1. SnifferTypeOK'
    BY <1>3 DEF Build, SnifferTypeOK, LocalWatcher, EventWatcher, Existing
  <2>2. LocalWatcher' /\ (~damaged' => Unregistered')
    BY <1>3 DEF Build, SnifferTypeOK, LocalWatcher, Unregistered, OneOwner, Existing
  <2>3. EventWatcher'
    BY <1>3 DEF Build, SnifferTypeOK, EventWatcher
  <2>4. ASSUME ~damaged' PROVE OneOwner'
    BY <1>3, <2>4 DEF Build, SnifferTypeOK, LocalWatcher, Unregistered, OneOwner, Existing
  <2> QED
    BY <2>1, <2>2, <2>3, <2>4
<1>4. ASSUME NEW t \in Threads, Swap(t) PROVE OwnerInv'
  <2>1. SnifferTypeOK'
    BY <1>4 DEF Swap, SnifferTypeOK, LocalWatcher, EventWatcher
  <2>2. LocalWatcher' /\ (~damaged' => Unregistered')
    BY <1>4 DEF Swap, SnifferTypeOK, LocalWatcher, Unregistered, OneOwner
  <2>3. EventWatcher'
    BY <1>4 DEF Swap, SnifferTypeOK, EventWatcher
  <2>4. ASSUME ~damaged' PROVE OneOwner'
    BY <1>4, <2>4 DEF Swap, SnifferTypeOK, LocalWatcher, Unregistered, OneOwner
  <2> QED
    BY <2>1, <2>2, <2>3, <2>4
<1>5. ASSUME NEW t \in Threads, SwapFails(t) PROVE OwnerInv'
  <2>1. SnifferTypeOK'
    BY <1>5 DEF SwapFails, SnifferTypeOK, LocalWatcher, EventWatcher
  <2>2. LocalWatcher' /\ (~damaged' => Unregistered')
    BY <1>5 DEF SwapFails, SnifferTypeOK, LocalWatcher, Unregistered, OneOwner
  <2>3. EventWatcher'
    BY <1>5 DEF SwapFails, SnifferTypeOK, EventWatcher
  <2>4. ASSUME ~damaged' PROVE OneOwner'
    BY <1>5, <2>4 DEF SwapFails, SnifferTypeOK, LocalWatcher, Unregistered, OneOwner
  <2> QED
    BY <2>1, <2>2, <2>3, <2>4
<1>6. ASSUME NEW t \in Threads, SwapStale(t) PROVE OwnerInv'
  <2>1. SnifferTypeOK'
    BY <1>6 DEF SwapStale, SnifferTypeOK, LocalWatcher, EventWatcher
  <2>2. LocalWatcher' /\ (~damaged' => Unregistered')
    BY <1>6 DEF SwapStale, SnifferTypeOK, LocalWatcher, Unregistered, OneOwner
  <2>3. EventWatcher'
    BY <1>6 DEF SwapStale, SnifferTypeOK, EventWatcher
  <2>4. ASSUME ~damaged' PROVE OneOwner'
    BY <1>6, <2>4 DEF SwapStale, SnifferTypeOK, LocalWatcher, Unregistered, OneOwner
  <2> QED
    BY <2>1, <2>2, <2>3, <2>4
<1>7. ASSUME NEW t \in Threads, Register(t) PROVE OwnerInv'
  <2>0. CASE UNCHANGED <<free, head, conn, watches, posted, dangling>>
    <3>1. alive' \in [Tasks -> Watchers \cup {None}] /\ (cleared' = TRUE \/ cleared' = cleared)
      BY <1>7 DEF Register, SnifferTypeOK
    <3>2. SnifferTypeOK'
      BY <1>7, <2>0, <3>1 DEF Register, SnifferTypeOK
    <3> QED
      BY <1>7, <2>0, <3>2 DEF Register, SnifferTypeOK, LocalWatcher, Unregistered, OneOwner, EventWatcher
  <2> DEFINE S == InRegistry \ Local
  <2>1. CASE PutBack(S) /\ alive' = [k \in Tasks |-> None] /\ cleared' = TRUE
    <3>1. S \in SUBSET Watchers
      BY <2>1, <1>7 DEF Register, SnifferTypeOK, LocalWatcher
    <3>2. PutBack(S)
      BY <2>1
    <3> HIDE DEF S
    <3>3. SnifferTypeOK'
      BY <1>7, <2>1, <3>1, <3>2, PutBackTypes DEF Register, SnifferTypeOK, LocalWatcher, EventWatcher
    <3>4. free' \subseteq free \cup S
      BY <3>2 DEF PutBack
    <3> USE DEF S
    <3>5. LocalWatcher' /\ (~damaged' => Unregistered')
      BY <1>7, <2>1 DEF Register, SnifferTypeOK, LocalWatcher, Unregistered, OneOwner
    <3>6. ASSUME ~damaged' PROVE OneOwner'
      BY <1>7, <2>1, <3>4, <3>6 DEF Register, SnifferTypeOK, LocalWatcher, Unregistered, OneOwner
    <3>7. EventWatcher'
      BY <1>7 DEF Register, SnifferTypeOK, EventWatcher
    <3> QED
      BY <3>3, <3>5, <3>6, <3>7
  <2> QED
    BY <1>7, <2>0, <2>1 DEF Register
<1>8. ASSUME NEW t \in Threads, Connect(t) PROVE OwnerInv'
  <2>1. SnifferTypeOK'
    BY <1>8 DEF Connect, SnifferTypeOK, LocalWatcher, EventWatcher
  <2>2. LocalWatcher' /\ (~damaged' => Unregistered')
    BY <1>8 DEF Connect, SnifferTypeOK, LocalWatcher, Unregistered, OneOwner
  <2>3. EventWatcher'
    BY <1>8 DEF Connect, SnifferTypeOK, EventWatcher
  <2>4. ASSUME ~damaged' PROVE OneOwner'
    BY <1>8, <2>4 DEF Connect, SnifferTypeOK, LocalWatcher, Unregistered, OneOwner
  <2> QED
    BY <2>1, <2>2, <2>3, <2>4
<1>9. ASSUME NEW t \in Threads, SetFuture(t) PROVE OwnerInv'
  <2>1. SnifferTypeOK'
    BY <1>9 DEF SetFuture, SnifferTypeOK, LocalWatcher, EventWatcher
  <2>2. LocalWatcher' /\ (~damaged' => Unregistered')
    BY <1>9 DEF SetFuture, SnifferTypeOK, LocalWatcher, Unregistered, OneOwner
  <2>3. EventWatcher'
    BY <1>9 DEF SetFuture, SnifferTypeOK, EventWatcher
  <2>4. ASSUME ~damaged' PROVE OneOwner'
    BY <1>9, <2>4 DEF SetFuture, SnifferTypeOK, LocalWatcher, Unregistered, OneOwner
  <2> QED
    BY <2>1, <2>2, <2>3, <2>4
<1>10. ASSUME NEW t \in Threads, Return(t) PROVE OwnerInv'
  <2> DEFINE S == {watcher[t]} \ (InRegistry \cup {watcher[u] : u \in Threads \ {t}})
  <2>1. CASE PutBack(S)
    <3>1. S \in SUBSET Watchers
      BY <2>1, <1>10 DEF Return, SnifferTypeOK, LocalWatcher
    <3>2. PutBack(S)
      BY <2>1
    <3> HIDE DEF S
    <3>3. SnifferTypeOK'
      BY <1>10, <2>1, <3>1, <3>2, PutBackTypes DEF Return, SnifferTypeOK, LocalWatcher, EventWatcher
    <3>4. free' \subseteq free \cup S
      BY <3>2 DEF PutBack
    <3> USE DEF S
    <3>5. LocalWatcher' /\ (~damaged' => Unregistered')
      BY <1>10, <2>1 DEF Return, SnifferTypeOK, LocalWatcher, Unregistered, OneOwner
    <3>6. ASSUME ~damaged' PROVE OneOwner'
      BY <1>10, <2>1, <3>4, <3>6 DEF Return, SnifferTypeOK, LocalWatcher, Unregistered, OneOwner
    <3>7. EventWatcher'
      BY <1>10 DEF Return, SnifferTypeOK, EventWatcher
    <3> QED
      BY <3>3, <3>5, <3>6, <3>7
  <2> QED
    BY <1>10, <2>1 DEF Return
<1>11. ASSUME NEW k \in Tasks, Finish(k) PROVE OwnerInv'
  <2>1. SnifferTypeOK'
    BY <1>11 DEF Finish, SnifferTypeOK, LocalWatcher, EventWatcher
  <2>2. LocalWatcher' /\ (~damaged' => Unregistered')
    BY <1>11 DEF Finish, SnifferTypeOK, LocalWatcher, Unregistered, OneOwner
  <2>3. EventWatcher'
    BY <1>11 DEF Finish, SnifferTypeOK, EventWatcher
  <2>4. ASSUME ~damaged' PROVE OneOwner'
    BY <1>11, <2>4 DEF Finish, SnifferTypeOK, LocalWatcher, Unregistered, OneOwner
  <2> QED
    BY <2>1, <2>2, <2>3, <2>4
<1>12. ASSUME Dequeue PROVE OwnerInv'
  <2>1. SnifferTypeOK'
    BY <1>12 DEF Dequeue, SnifferTypeOK, LocalWatcher, EventWatcher
  <2>2. LocalWatcher' /\ (~damaged' => Unregistered')
    BY <1>12 DEF Dequeue, SnifferTypeOK, LocalWatcher, Unregistered, OneOwner
  <2>3. EventWatcher'
    BY <1>12 DEF Dequeue, SnifferTypeOK, EventWatcher
  <2>4. ASSUME ~damaged' PROVE OneOwner'
    BY <1>12, <2>4 DEF Dequeue, SnifferTypeOK, LocalWatcher, Unregistered, OneOwner
  <2> QED
    BY <2>1, <2>2, <2>3, <2>4
<1>13. ASSUME EmitNobody PROVE OwnerInv'
  <2>1. SnifferTypeOK'
    BY <1>13 DEF EmitNobody, SnifferTypeOK, LocalWatcher, EventWatcher
  <2>2. LocalWatcher' /\ (~damaged' => Unregistered')
    BY <1>13 DEF EmitNobody, SnifferTypeOK, LocalWatcher, Unregistered, OneOwner
  <2>3. EventWatcher'
    BY <1>13 DEF EmitNobody, SnifferTypeOK, EventWatcher
  <2>4. ASSUME ~damaged' PROVE OneOwner'
    BY <1>13, <2>4 DEF EmitNobody, SnifferTypeOK, LocalWatcher, Unregistered, OneOwner
  <2> QED
    BY <2>1, <2>2, <2>3, <2>4
<1>14. ASSUME RemoveTask PROVE OwnerInv'
  <2> DEFINE S == {alive[eid']} \ (Local \cup {alive[j] : j \in Registered \ {eid'}})
  <2>1. CASE PutBack(S) /\ eid' \in Tasks /\ alive[eid'] # None
    <3>1. S \in SUBSET Watchers
      BY <2>1, <1>14 DEF RemoveTask, SnifferTypeOK, LocalWatcher
    <3>2. PutBack(S)
      BY <2>1
    <3> HIDE DEF S
    <3>3. SnifferTypeOK'
      BY <1>14, <2>1, <3>1, <3>2, PutBackTypes DEF RemoveTask, SnifferTypeOK, LocalWatcher, EventWatcher
    <3>4. free' \subseteq free \cup S
      BY <3>2 DEF PutBack
    <3> USE DEF S
    <3>5. LocalWatcher' /\ (~damaged' => Unregistered')
      BY <1>14, <2>1 DEF RemoveTask, SnifferTypeOK, LocalWatcher, Unregistered, OneOwner
    <3>6. ASSUME ~damaged' PROVE OneOwner'
      BY <1>14, <2>1, <3>4, <3>6 DEF RemoveTask, SnifferTypeOK, LocalWatcher, Unregistered, OneOwner
    <3>7. EventWatcher'
      BY <1>14 DEF RemoveTask, SnifferTypeOK, EventWatcher
    <3> QED
      BY <3>3, <3>5, <3>6, <3>7
  <2>2. CASE UNCHANGED <<alive, free, head, conn, watches, posted, dangling>>
    <3>1. notFound' \subseteq Tasks /\ eid' \in Tasks
      BY <1>14 DEF RemoveTask, SnifferTypeOK, EventWatcher
    <3>2. UNCHANGED <<alive, free, watcher, pc, task, damaged, ew>> /\ epc' = "future"
      BY <1>14, <2>2 DEF RemoveTask
    <3>3. SnifferTypeOK'
      BY <1>14, <2>2, <3>1 DEF RemoveTask, SnifferTypeOK
    <3> QED
      BY <1>14, <3>1, <3>2, <3>3 DEF RemoveTask, LocalWatcher, EventWatcher, Unregistered, OneOwner
  <2>3. eid' \in Tasks
    BY <1>14 DEF RemoveTask, SnifferTypeOK, EventWatcher
  <2>4. CASE alive[eid'] # None
    BY <1>14, <2>1, <2>3, <2>4 DEF RemoveTask
  <2>5. CASE alive[eid'] = None
    BY <1>14, <2>2, <2>5 DEF RemoveTask
  <2> QED
    BY <2>4, <2>5
<1>15. ASSUME ReadFuture PROVE OwnerInv'
  <2>1. SnifferTypeOK'
    BY <1>15 DEF ReadFuture, SnifferTypeOK, LocalWatcher, EventWatcher
  <2>2. LocalWatcher' /\ (~damaged' => Unregistered')
    BY <1>15 DEF ReadFuture, SnifferTypeOK, LocalWatcher, Unregistered, OneOwner
  <2>3. EventWatcher'
    BY <1>15 DEF ReadFuture, SnifferTypeOK, EventWatcher
  <2>4. ASSUME ~damaged' PROVE OneOwner'
    BY <1>15, <2>4 DEF ReadFuture, SnifferTypeOK, LocalWatcher, Unregistered, OneOwner
  <2> QED
    BY <2>1, <2>2, <2>3, <2>4
<1> QED
  BY <1>0, <1>1, <1>2, <1>3, <1>4, <1>5, <1>6, <1>7, <1>8, <1>9, <1>10, <1>11, <1>12, <1>13, <1>14, <1>15 DEF SnifferNext, Acquire, GetWatcher, EventThread

-----------------------------------------------------------------------------
(* The registry.  Until it is cleared or the pool damaged, an entry, the    *)
(* watcher it refers to, the handler that is connected and the future that  *)
(* is watched belong to one task, from the connection until the handler has *)
(* run.                                                                     *)

Preparing == {"register", "connect", "setFuture"}
Getting   == {"get", "build", "swap"}

\* The event thread has taken the finished event of w and not emitted it.
Emitting(w) == epc = "emit" /\ ew = w

\* The future w was given has finished, or w was given none.
NotWaiting(w) == watches[w] # None => future[watches[w]] = "done"

\* A future is started once, by one thread.
TasksApart ==
  /\ \A k \in Tasks : future[k] = "new" =>
        alive[k] = None /\ (\A w \in Watchers : watches[w] # k) /\ (\A t \in Threads : task[t] # k)
  /\ \A t, u \in Threads : task[t] # None /\ task[t] = task[u] => t = u
  /\ \A t \in Threads : pc[t] = "idle" => task[t] = None

\* What acquire has done for its task, step by step.
Acquired ==
  \A t \in Threads :
    /\ pc[t] \in {"register"} \cup Getting => alive[task[t]] = None
    /\ pc[t] \in Getting \cup Preparing => \A w \in Watchers : watches[w] # task[t]
    /\ pc[t] \in Preparing => /\ watcher[t] \notin posted /\ ~Emitting(watcher[t])
                              /\ NotWaiting(watcher[t])
    /\ pc[t] \in {"register", "connect"} => conn[watcher[t]] = {}
    /\ pc[t] \in {"setFuture", "return"} => conn[watcher[t]] = {task[t]}
    /\ pc[t] \in {"connect", "setFuture"} => alive[task[t]] = watcher[t]
    /\ pc[t] = "return" => /\ watches[watcher[t]] = task[t]
                           /\ alive[task[t]] = watcher[t] \/ future[task[t]] = "done"

\* No event is on its way for a parked watcher.
ParkedQuiet == \A w \in free : w \notin posted /\ ~Emitting(w) /\ NotWaiting(w)

\* An event on its way finds the entry of the task that finished.
EventHasEntry ==
  /\ \A w \in Watchers : w \in posted \/ Emitting(w) =>
        /\ watches[w] \in Tasks /\ future[watches[w]] = "done"
        /\ alive[watches[w]] = w /\ conn[w] = {watches[w]}
  /\ epc = "emit" => ew \notin posted

\* An entry waits for its own future, once acquire has set it.
EntryWaits ==
  /\ \A k \in Tasks : alive[k] # None =>
        \/ \E t \in Threads : task[t] = k /\ watcher[t] = alive[k] /\ pc[t] \in {"connect", "setFuture"}
        \/ watches[alive[k]] = k /\ conn[alive[k]] = {k}
  /\ \A w \in Watchers : watches[w] # None /\ future[watches[w]] = "running" => alive[watches[w]] = w

EntryInv == ~cleared /\ ~damaged => /\ notFound = {} /\ TasksApart /\ Acquired /\ ParkedQuiet
                                    /\ EventHasEntry /\ EntryWaits


\* Nothing is running, registered or on its way at the start.
LEMMA EntryInit == SnifferInit => EntryInv
  BY SnifferAssumption DEF SnifferInit, EntryInv, TasksApart, Acquired, ParkedQuiet, EventHasEntry, EntryWaits,
     Emitting, NotWaiting, Preparing, Getting

\* No step loses the entry of a running task before the registry is cleared.
LEMMA EntryStep == OwnerInv /\ OwnerInv' /\ EntryInv /\ [SnifferNext]_snifferVars => EntryInv'
<1> SUFFICES ASSUME OwnerInv, OwnerInv', EntryInv, [SnifferNext]_snifferVars, ~cleared', ~damaged'
             PROVE  notFound' = {} /\ TasksApart' /\ Acquired' /\ ParkedQuiet' /\ EventHasEntry' /\ EntryWaits'
  BY DEF EntryInv
<1> DEFINE Goal == notFound' = {} /\ TasksApart' /\ Acquired' /\ ParkedQuiet' /\ EventHasEntry' /\ EntryWaits'
<1>a. ~cleared /\ ~damaged
  BY DEF SnifferNext, Acquire, GetWatcher, EventThread, Launch, LoadHead, Build, Swap, SwapFails, SwapStale, Register,
         Connect, SetFuture, Return, Finish, Dequeue, EmitNobody, RemoveTask, ReadFuture, snifferVars, history, pool,
         OwnerInv, SnifferTypeOK
<1>b. notFound = {} /\ TasksApart /\ Acquired /\ ParkedQuiet /\ EventHasEntry /\ EntryWaits
  BY <1>a DEF EntryInv
<1>c. SnifferTypeOK /\ SnifferTypeOK' /\ LocalWatcher /\ EventWatcher /\ Unregistered /\ OneOwner
  BY <1>a DEF OwnerInv
<1> USE SnifferAssumption DEF Active, Local, InRegistry, Registered, Goto, Preparing, Getting, Emitting, NotWaiting,
        acquiring, event, history, pool, Lend, PopHead
<1>0. CASE UNCHANGED snifferVars
  BY <1>0, <1>b DEF snifferVars, TasksApart, Acquired, ParkedQuiet, EventHasEntry, EntryWaits
<1>1. ASSUME NEW t \in Threads, Launch(t) PROVE Goal
  <2>0. notFound' = {}
    BY <1>b, <1>c, <1>1 DEF Launch, SnifferTypeOK, EventWatcher, EventHasEntry
  <2>1. TasksApart'
    BY <1>b, <1>c, <1>1 DEF Launch, SnifferTypeOK, LocalWatcher, EventWatcher, Unregistered, OneOwner, Existing,
       TasksApart, Acquired, ParkedQuiet, EventHasEntry, EntryWaits
  <2>2. Acquired'
    BY <1>b, <1>c, <1>1 DEF Launch, SnifferTypeOK, LocalWatcher, EventWatcher, Unregistered, OneOwner, Existing,
       TasksApart, Acquired, ParkedQuiet, EventHasEntry, EntryWaits
  <2>3. ParkedQuiet'
    BY <1>b, <1>c, <1>1 DEF Launch, SnifferTypeOK, LocalWatcher, EventWatcher, Unregistered, OneOwner, Existing,
       TasksApart, Acquired, ParkedQuiet, EventHasEntry, EntryWaits
  <2>4. EventHasEntry'
    BY <1>b, <1>c, <1>1 DEF Launch, SnifferTypeOK, LocalWatcher, EventWatcher, Unregistered, OneOwner, Existing,
       TasksApart, Acquired, ParkedQuiet, EventHasEntry, EntryWaits
  <2>5. EntryWaits'
    BY <1>b, <1>c, <1>1 DEF Launch, SnifferTypeOK, LocalWatcher, EventWatcher, Unregistered, OneOwner, Existing,
       TasksApart, Acquired, ParkedQuiet, EventHasEntry, EntryWaits
  <2> QED
    BY <2>0, <2>1, <2>2, <2>3, <2>4, <2>5
<1>2. ASSUME NEW t \in Threads, LoadHead(t) PROVE Goal
  <2>0. notFound' = {}
    BY <1>b, <1>c, <1>2 DEF LoadHead, SnifferTypeOK, EventWatcher, EventHasEntry
  <2>1. TasksApart'
    BY <1>b, <1>c, <1>2 DEF LoadHead, SnifferTypeOK, LocalWatcher, EventWatcher, Unregistered, OneOwner, Existing,
       TasksApart, Acquired, ParkedQuiet, EventHasEntry, EntryWaits
  <2>2. Acquired'
    BY <1>b, <1>c, <1>2 DEF LoadHead, SnifferTypeOK, LocalWatcher, EventWatcher, Unregistered, OneOwner, Existing,
       TasksApart, Acquired, ParkedQuiet, EventHasEntry, EntryWaits
  <2>3. ParkedQuiet'
    BY <1>b, <1>c, <1>2 DEF LoadHead, SnifferTypeOK, LocalWatcher, EventWatcher, Unregistered, OneOwner, Existing,
       TasksApart, Acquired, ParkedQuiet, EventHasEntry, EntryWaits
  <2>4. EventHasEntry'
    BY <1>b, <1>c, <1>2 DEF LoadHead, SnifferTypeOK, LocalWatcher, EventWatcher, Unregistered, OneOwner, Existing,
       TasksApart, Acquired, ParkedQuiet, EventHasEntry, EntryWaits
  <2>5. EntryWaits'
    BY <1>b, <1>c, <1>2 DEF LoadHead, SnifferTypeOK, LocalWatcher, EventWatcher, Unregistered, OneOwner, Existing,
       TasksApart, Acquired, ParkedQuiet, EventHasEntry, EntryWaits
  <2> QED
    BY <2>0, <2>1, <2>2, <2>3, <2>4, <2>5
<1>3. ASSUME NEW t \in Threads, Build(t) PROVE Goal
  <2>0. notFound' = {}
    BY <1>b, <1>c, <1>3 DEF Build, SnifferTypeOK, EventWatcher, EventHasEntry
  <2>1. TasksApart'
    BY <1>b, <1>c, <1>3 DEF Build, SnifferTypeOK, LocalWatcher, EventWatcher, Unregistered, OneOwner, Existing,
       TasksApart, Acquired, ParkedQuiet, EventHasEntry, EntryWaits
  <2>2. Acquired'
    BY <1>b, <1>c, <1>3 DEF Build, SnifferTypeOK, LocalWatcher, EventWatcher, Unregistered, OneOwner, Existing,
       TasksApart, Acquired, ParkedQuiet, EventHasEntry, EntryWaits
  <2>3. ParkedQuiet'
    BY <1>b, <1>c, <1>3 DEF Build, SnifferTypeOK, LocalWatcher, EventWatcher, Unregistered, OneOwner, Existing,
       TasksApart, Acquired, ParkedQuiet, EventHasEntry, EntryWaits
  <2>4. EventHasEntry'
    BY <1>b, <1>c, <1>3 DEF Build, SnifferTypeOK, LocalWatcher, EventWatcher, Unregistered, OneOwner, Existing,
       TasksApart, Acquired, ParkedQuiet, EventHasEntry, EntryWaits
  <2>5. EntryWaits'
    BY <1>b, <1>c, <1>3 DEF Build, SnifferTypeOK, LocalWatcher, EventWatcher, Unregistered, OneOwner, Existing,
       TasksApart, Acquired, ParkedQuiet, EventHasEntry, EntryWaits
  <2> QED
    BY <2>0, <2>1, <2>2, <2>3, <2>4, <2>5
<1>4. ASSUME NEW t \in Threads, Swap(t) PROVE Goal
  <2>0. notFound' = {}
    BY <1>b, <1>c, <1>4 DEF Swap, SnifferTypeOK, EventWatcher, EventHasEntry
  <2>1. TasksApart'
    BY <1>b, <1>c, <1>4 DEF Swap, SnifferTypeOK, LocalWatcher, EventWatcher, Unregistered, OneOwner, Existing,
       TasksApart, Acquired, ParkedQuiet, EventHasEntry, EntryWaits
  <2>2. Acquired'
    BY <1>b, <1>c, <1>4 DEF Swap, SnifferTypeOK, LocalWatcher, EventWatcher, Unregistered, OneOwner, Existing,
       TasksApart, Acquired, ParkedQuiet, EventHasEntry, EntryWaits
  <2>3. ParkedQuiet'
    BY <1>b, <1>c, <1>4 DEF Swap, SnifferTypeOK, LocalWatcher, EventWatcher, Unregistered, OneOwner, Existing,
       TasksApart, Acquired, ParkedQuiet, EventHasEntry, EntryWaits
  <2>4. EventHasEntry'
    BY <1>b, <1>c, <1>4 DEF Swap, SnifferTypeOK, LocalWatcher, EventWatcher, Unregistered, OneOwner, Existing,
       TasksApart, Acquired, ParkedQuiet, EventHasEntry, EntryWaits
  <2>5. EntryWaits'
    BY <1>b, <1>c, <1>4 DEF Swap, SnifferTypeOK, LocalWatcher, EventWatcher, Unregistered, OneOwner, Existing,
       TasksApart, Acquired, ParkedQuiet, EventHasEntry, EntryWaits
  <2> QED
    BY <2>0, <2>1, <2>2, <2>3, <2>4, <2>5
<1>5. ASSUME NEW t \in Threads, SwapFails(t) PROVE Goal
  <2>0. notFound' = {}
    BY <1>b, <1>c, <1>5 DEF SwapFails, SnifferTypeOK, EventWatcher, EventHasEntry
  <2>1. TasksApart'
    BY <1>b, <1>c, <1>5 DEF SwapFails, SnifferTypeOK, LocalWatcher, EventWatcher, Unregistered, OneOwner, Existing,
       TasksApart, Acquired, ParkedQuiet, EventHasEntry, EntryWaits
  <2>2. Acquired'
    BY <1>b, <1>c, <1>5 DEF SwapFails, SnifferTypeOK, LocalWatcher, EventWatcher, Unregistered, OneOwner, Existing,
       TasksApart, Acquired, ParkedQuiet, EventHasEntry, EntryWaits
  <2>3. ParkedQuiet'
    BY <1>b, <1>c, <1>5 DEF SwapFails, SnifferTypeOK, LocalWatcher, EventWatcher, Unregistered, OneOwner, Existing,
       TasksApart, Acquired, ParkedQuiet, EventHasEntry, EntryWaits
  <2>4. EventHasEntry'
    BY <1>b, <1>c, <1>5 DEF SwapFails, SnifferTypeOK, LocalWatcher, EventWatcher, Unregistered, OneOwner, Existing,
       TasksApart, Acquired, ParkedQuiet, EventHasEntry, EntryWaits
  <2>5. EntryWaits'
    BY <1>b, <1>c, <1>5 DEF SwapFails, SnifferTypeOK, LocalWatcher, EventWatcher, Unregistered, OneOwner, Existing,
       TasksApart, Acquired, ParkedQuiet, EventHasEntry, EntryWaits
  <2> QED
    BY <2>0, <2>1, <2>2, <2>3, <2>4, <2>5
<1>6. ASSUME NEW t \in Threads, SwapStale(t) PROVE Goal
  <2>0. notFound' = {}
    BY <1>b, <1>c, <1>6 DEF SwapStale, SnifferTypeOK, EventWatcher, EventHasEntry
  <2>1. TasksApart'
    BY <1>b, <1>c, <1>6 DEF SwapStale, SnifferTypeOK, LocalWatcher, EventWatcher, Unregistered, OneOwner, Existing,
       TasksApart, Acquired, ParkedQuiet, EventHasEntry, EntryWaits
  <2>2. Acquired'
    BY <1>b, <1>c, <1>6 DEF SwapStale, SnifferTypeOK, LocalWatcher, EventWatcher, Unregistered, OneOwner, Existing,
       TasksApart, Acquired, ParkedQuiet, EventHasEntry, EntryWaits
  <2>3. ParkedQuiet'
    BY <1>b, <1>c, <1>6 DEF SwapStale, SnifferTypeOK, LocalWatcher, EventWatcher, Unregistered, OneOwner, Existing,
       TasksApart, Acquired, ParkedQuiet, EventHasEntry, EntryWaits
  <2>4. EventHasEntry'
    BY <1>b, <1>c, <1>6 DEF SwapStale, SnifferTypeOK, LocalWatcher, EventWatcher, Unregistered, OneOwner, Existing,
       TasksApart, Acquired, ParkedQuiet, EventHasEntry, EntryWaits
  <2>5. EntryWaits'
    BY <1>b, <1>c, <1>6 DEF SwapStale, SnifferTypeOK, LocalWatcher, EventWatcher, Unregistered, OneOwner, Existing,
       TasksApart, Acquired, ParkedQuiet, EventHasEntry, EntryWaits
  <2> QED
    BY <2>0, <2>1, <2>2, <2>3, <2>4, <2>5
<1>7. ASSUME NEW t \in Threads, Register(t) PROVE Goal
  <2>0. notFound' = {}
    BY <1>b, <1>c, <1>7 DEF Register, SnifferTypeOK, EventWatcher, EventHasEntry
  <2>1. TasksApart'
    BY <1>b, <1>c, <1>7 DEF Register, SnifferTypeOK, LocalWatcher, EventWatcher, Unregistered, OneOwner, Existing,
       TasksApart, Acquired, ParkedQuiet, EventHasEntry, EntryWaits
  <2>2. Acquired'
    BY <1>b, <1>c, <1>7 DEF Register, SnifferTypeOK, LocalWatcher, EventWatcher, Unregistered, OneOwner, Existing,
       TasksApart, Acquired, ParkedQuiet, EventHasEntry, EntryWaits
  <2>3. ParkedQuiet'
    BY <1>b, <1>c, <1>7 DEF Register, SnifferTypeOK, LocalWatcher, EventWatcher, Unregistered, OneOwner, Existing,
       TasksApart, Acquired, ParkedQuiet, EventHasEntry, EntryWaits
  <2>4. EventHasEntry'
    BY <1>b, <1>c, <1>7 DEF Register, SnifferTypeOK, LocalWatcher, EventWatcher, Unregistered, OneOwner, Existing,
       TasksApart, Acquired, ParkedQuiet, EventHasEntry, EntryWaits
  <2>5. EntryWaits'
    BY <1>b, <1>c, <1>7 DEF Register, SnifferTypeOK, LocalWatcher, EventWatcher, Unregistered, OneOwner, Existing,
       TasksApart, Acquired, ParkedQuiet, EventHasEntry, EntryWaits
  <2> QED
    BY <2>0, <2>1, <2>2, <2>3, <2>4, <2>5
<1>8. ASSUME NEW t \in Threads, Connect(t) PROVE Goal
  <2>0. notFound' = {}
    BY <1>b, <1>c, <1>8 DEF Connect, SnifferTypeOK, EventWatcher, EventHasEntry
  <2>1. TasksApart'
    BY <1>b, <1>c, <1>8 DEF Connect, SnifferTypeOK, LocalWatcher, EventWatcher, Unregistered, OneOwner, Existing,
       TasksApart, Acquired, ParkedQuiet, EventHasEntry, EntryWaits
  <2>2. Acquired'
    BY <1>b, <1>c, <1>8 DEF Connect, SnifferTypeOK, LocalWatcher, EventWatcher, Unregistered, OneOwner, Existing,
       TasksApart, Acquired, ParkedQuiet, EventHasEntry, EntryWaits
  <2>3. ParkedQuiet'
    BY <1>b, <1>c, <1>8 DEF Connect, SnifferTypeOK, LocalWatcher, EventWatcher, Unregistered, OneOwner, Existing,
       TasksApart, Acquired, ParkedQuiet, EventHasEntry, EntryWaits
  <2>4. EventHasEntry'
    BY <1>b, <1>c, <1>8 DEF Connect, SnifferTypeOK, LocalWatcher, EventWatcher, Unregistered, OneOwner, Existing,
       TasksApart, Acquired, ParkedQuiet, EventHasEntry, EntryWaits
  <2>5. EntryWaits'
    BY <1>b, <1>c, <1>8 DEF Connect, SnifferTypeOK, LocalWatcher, EventWatcher, Unregistered, OneOwner, Existing,
       TasksApart, Acquired, ParkedQuiet, EventHasEntry, EntryWaits
  <2> QED
    BY <2>0, <2>1, <2>2, <2>3, <2>4, <2>5
<1>9. ASSUME NEW t \in Threads, SetFuture(t) PROVE Goal
  <2>0. notFound' = {}
    BY <1>b, <1>c, <1>9 DEF SetFuture, SnifferTypeOK, EventWatcher, EventHasEntry
  <2>1. TasksApart'
    BY <1>b, <1>c, <1>9 DEF SetFuture, SnifferTypeOK, LocalWatcher, EventWatcher, Unregistered, OneOwner, Existing,
       TasksApart, Acquired, ParkedQuiet, EventHasEntry, EntryWaits
  <2>2. Acquired'
    BY <1>b, <1>c, <1>9 DEF SetFuture, SnifferTypeOK, LocalWatcher, EventWatcher, Unregistered, OneOwner, Existing,
       TasksApart, Acquired, ParkedQuiet, EventHasEntry, EntryWaits
  <2>3. ParkedQuiet'
    BY <1>b, <1>c, <1>9 DEF SetFuture, SnifferTypeOK, LocalWatcher, EventWatcher, Unregistered, OneOwner, Existing,
       TasksApart, Acquired, ParkedQuiet, EventHasEntry, EntryWaits
  <2>4. EventHasEntry'
    BY <1>b, <1>c, <1>9 DEF SetFuture, SnifferTypeOK, LocalWatcher, EventWatcher, Unregistered, OneOwner, Existing,
       TasksApart, Acquired, ParkedQuiet, EventHasEntry, EntryWaits
  <2>5. EntryWaits'
    BY <1>b, <1>c, <1>9 DEF SetFuture, SnifferTypeOK, LocalWatcher, EventWatcher, Unregistered, OneOwner, Existing,
       TasksApart, Acquired, ParkedQuiet, EventHasEntry, EntryWaits
  <2> QED
    BY <2>0, <2>1, <2>2, <2>3, <2>4, <2>5
<1>10. ASSUME NEW t \in Threads, Return(t) PROVE Goal
  <2>0. notFound' = {}
    BY <1>b, <1>c, <1>10 DEF Return, SnifferTypeOK, EventWatcher, EventHasEntry
  <2>1. TasksApart'
    BY <1>b, <1>c, <1>10 DEF Return, PutBack, SnifferTypeOK, LocalWatcher, EventWatcher, Unregistered, OneOwner, Existing,
       TasksApart, Acquired, ParkedQuiet, EventHasEntry, EntryWaits
  <2>2. Acquired'
    BY <1>b, <1>c, <1>10 DEF Return, PutBack, SnifferTypeOK, LocalWatcher, EventWatcher, Unregistered, OneOwner, Existing,
       TasksApart, Acquired, ParkedQuiet, EventHasEntry, EntryWaits
  <2>3. ParkedQuiet'
    BY <1>b, <1>c, <1>10 DEF Return, PutBack, SnifferTypeOK, LocalWatcher, EventWatcher, Unregistered, OneOwner, Existing,
       TasksApart, Acquired, ParkedQuiet, EventHasEntry, EntryWaits
  <2>4. EventHasEntry'
    BY <1>b, <1>c, <1>10 DEF Return, PutBack, SnifferTypeOK, LocalWatcher, EventWatcher, Unregistered, OneOwner, Existing,
       TasksApart, Acquired, ParkedQuiet, EventHasEntry, EntryWaits
  <2>5. EntryWaits'
    BY <1>b, <1>c, <1>10 DEF Return, PutBack, SnifferTypeOK, LocalWatcher, EventWatcher, Unregistered, OneOwner, Existing,
       TasksApart, Acquired, ParkedQuiet, EventHasEntry, EntryWaits
  <2> QED
    BY <2>0, <2>1, <2>2, <2>3, <2>4, <2>5
<1>11. ASSUME NEW k \in Tasks, Finish(k) PROVE Goal
  <2>0. notFound' = {}
    BY <1>b, <1>c, <1>11 DEF Finish, SnifferTypeOK, EventWatcher, EventHasEntry
  <2>1. TasksApart'
    BY <1>b, <1>c, <1>11 DEF Finish, SnifferTypeOK, LocalWatcher, EventWatcher, Unregistered, OneOwner, Existing,
       TasksApart, Acquired, ParkedQuiet, EventHasEntry, EntryWaits
  <2>2. Acquired'
    BY <1>b, <1>c, <1>11 DEF Finish, SnifferTypeOK, LocalWatcher, EventWatcher, Unregistered, OneOwner, Existing,
       TasksApart, Acquired, ParkedQuiet, EventHasEntry, EntryWaits
  <2>3. ParkedQuiet'
    BY <1>b, <1>c, <1>11 DEF Finish, SnifferTypeOK, LocalWatcher, EventWatcher, Unregistered, OneOwner, Existing,
       TasksApart, Acquired, ParkedQuiet, EventHasEntry, EntryWaits
  <2>4. EventHasEntry'
    BY <1>b, <1>c, <1>11 DEF Finish, SnifferTypeOK, LocalWatcher, EventWatcher, Unregistered, OneOwner, Existing,
       TasksApart, Acquired, ParkedQuiet, EventHasEntry, EntryWaits
  <2>5. EntryWaits'
    BY <1>b, <1>c, <1>11 DEF Finish, SnifferTypeOK, LocalWatcher, EventWatcher, Unregistered, OneOwner, Existing,
       TasksApart, Acquired, ParkedQuiet, EventHasEntry, EntryWaits
  <2> QED
    BY <2>0, <2>1, <2>2, <2>3, <2>4, <2>5
<1>12. ASSUME Dequeue PROVE Goal
  <2>0. notFound' = {}
    BY <1>b, <1>c, <1>12 DEF Dequeue, SnifferTypeOK, EventWatcher, EventHasEntry
  <2>1. TasksApart'
    BY <1>b, <1>c, <1>12 DEF Dequeue, SnifferTypeOK, LocalWatcher, EventWatcher, Unregistered, OneOwner, Existing,
       TasksApart, Acquired, ParkedQuiet, EventHasEntry, EntryWaits
  <2>2. Acquired'
    BY <1>b, <1>c, <1>12 DEF Dequeue, SnifferTypeOK, LocalWatcher, EventWatcher, Unregistered, OneOwner, Existing,
       TasksApart, Acquired, ParkedQuiet, EventHasEntry, EntryWaits
  <2>3. ParkedQuiet'
    BY <1>b, <1>c, <1>12 DEF Dequeue, SnifferTypeOK, LocalWatcher, EventWatcher, Unregistered, OneOwner, Existing,
       TasksApart, Acquired, ParkedQuiet, EventHasEntry, EntryWaits
  <2>4. EventHasEntry'
    BY <1>b, <1>c, <1>12 DEF Dequeue, SnifferTypeOK, LocalWatcher, EventWatcher, Unregistered, OneOwner, Existing,
       TasksApart, Acquired, ParkedQuiet, EventHasEntry, EntryWaits
  <2>5. EntryWaits'
    BY <1>b, <1>c, <1>12 DEF Dequeue, SnifferTypeOK, LocalWatcher, EventWatcher, Unregistered, OneOwner, Existing,
       TasksApart, Acquired, ParkedQuiet, EventHasEntry, EntryWaits
  <2> QED
    BY <2>0, <2>1, <2>2, <2>3, <2>4, <2>5
<1>13. ASSUME EmitNobody PROVE Goal
  <2>0. notFound' = {}
    BY <1>b, <1>c, <1>13 DEF EmitNobody, SnifferTypeOK, EventWatcher, EventHasEntry
  <2>1. TasksApart'
    BY <1>b, <1>c, <1>13 DEF EmitNobody, SnifferTypeOK, LocalWatcher, EventWatcher, Unregistered, OneOwner, Existing,
       TasksApart, Acquired, ParkedQuiet, EventHasEntry, EntryWaits
  <2>2. Acquired'
    BY <1>b, <1>c, <1>13 DEF EmitNobody, SnifferTypeOK, LocalWatcher, EventWatcher, Unregistered, OneOwner, Existing,
       TasksApart, Acquired, ParkedQuiet, EventHasEntry, EntryWaits
  <2>3. ParkedQuiet'
    BY <1>b, <1>c, <1>13 DEF EmitNobody, SnifferTypeOK, LocalWatcher, EventWatcher, Unregistered, OneOwner, Existing,
       TasksApart, Acquired, ParkedQuiet, EventHasEntry, EntryWaits
  <2>4. EventHasEntry'
    BY <1>b, <1>c, <1>13 DEF EmitNobody, SnifferTypeOK, LocalWatcher, EventWatcher, Unregistered, OneOwner, Existing,
       TasksApart, Acquired, ParkedQuiet, EventHasEntry, EntryWaits
  <2>5. EntryWaits'
    BY <1>b, <1>c, <1>13 DEF EmitNobody, SnifferTypeOK, LocalWatcher, EventWatcher, Unregistered, OneOwner, Existing,
       TasksApart, Acquired, ParkedQuiet, EventHasEntry, EntryWaits
  <2> QED
    BY <2>0, <2>1, <2>2, <2>3, <2>4, <2>5
<1>14. ASSUME RemoveTask PROVE Goal
  <2>0. notFound' = {}
    BY <1>b, <1>c, <1>14 DEF RemoveTask, SnifferTypeOK, EventWatcher, EventHasEntry
  <2> DEFINE j == watches[ew]
  <2>a. /\ j \in Tasks /\ future[j] = "done" /\ alive[j] = ew /\ conn[ew] = {j} /\ epc = "emit"
        /\ ew \in Watchers /\ ew \notin posted /\ ew \notin free /\ ew # None
    <3>1. epc = "emit" /\ ew \in Watchers /\ ew # None
      BY <1>c, <1>14 DEF RemoveTask, EventWatcher
    <3>2. /\ j \in Tasks /\ future[j] = "done" /\ alive[j] = ew /\ conn[ew] = {j} /\ ew \notin posted
      BY <1>b, <3>1 DEF EventHasEntry
    <3>3. ew \in InRegistry
      BY <3>1, <3>2
    <3> QED
      BY <1>c, <3>1, <3>2, <3>3 DEF OneOwner
  <2>b. PICK D \in SUBSET {ew} :
          /\ D \cap Local = {} /\ free' \subseteq (free \cup {ew}) \ D /\ free' \cap Local = {}
          /\ conn' = [w \in Watchers |-> IF w \in D THEN {} ELSE conn[w]]
          /\ watches' = [w \in Watchers |-> IF w \in D THEN None ELSE watches[w]]
          /\ posted' = posted \ D
    <3>1. \E D \in SUBSET ({ew} \ (Local \cup {alive[i] : i \in Registered \ {j}})) :
            /\ free' = free \cup (({ew} \ (Local \cup {alive[i] : i \in Registered \ {j}})) \ D)
            /\ conn' = [w \in Watchers |-> IF w \in D THEN {} ELSE conn[w]]
            /\ watches' = [w \in Watchers |-> IF w \in D THEN None ELSE watches[w]]
            /\ posted' = posted \ D
      BY <1>14, <2>a DEF RemoveTask, PutBack
    <3>2. free \cap Local = {}
      BY <1>c DEF OneOwner
    <3> QED
      BY <3>1, <3>2, <2>a
  <2>c. alive' = [alive EXCEPT ![j] = None] /\ epc' = "future" /\ UNCHANGED <<future, pc, task, watcher, ew>>
    BY <1>14, <2>a DEF RemoveTask
  <2>1. TasksApart'
    BY <1>b, <1>c, <2>a, <2>b, <2>c DEF SnifferTypeOK, LocalWatcher, Unregistered, OneOwner,
       TasksApart, Acquired, ParkedQuiet, EventHasEntry, EntryWaits
  <2>2. Acquired'
    BY <1>b, <1>c, <2>a, <2>b, <2>c DEF SnifferTypeOK, LocalWatcher, Unregistered, OneOwner,
       TasksApart, Acquired, ParkedQuiet, EventHasEntry, EntryWaits
  <2>3. ParkedQuiet'
    BY <1>b, <1>c, <2>a, <2>b, <2>c DEF SnifferTypeOK, LocalWatcher, Unregistered, OneOwner,
       TasksApart, Acquired, ParkedQuiet, EventHasEntry, EntryWaits
  <2>4. EventHasEntry'
    BY <1>b, <1>c, <2>a, <2>b, <2>c DEF SnifferTypeOK, LocalWatcher, Unregistered, OneOwner,
       TasksApart, Acquired, ParkedQuiet, EventHasEntry, EntryWaits
  <2>5. EntryWaits'
    BY <1>b, <1>c, <2>a, <2>b, <2>c DEF SnifferTypeOK, LocalWatcher, Unregistered, OneOwner,
       TasksApart, Acquired, ParkedQuiet, EventHasEntry, EntryWaits
  <2> QED
    BY <2>0, <2>1, <2>2, <2>3, <2>4, <2>5
<1>15. ASSUME ReadFuture PROVE Goal
  <2>0. notFound' = {}
    BY <1>b, <1>c, <1>15 DEF ReadFuture, SnifferTypeOK, EventWatcher, EventHasEntry
  <2>1. TasksApart'
    BY <1>b, <1>c, <1>15 DEF ReadFuture, SnifferTypeOK, LocalWatcher, EventWatcher, Unregistered, OneOwner, Existing,
       TasksApart, Acquired, ParkedQuiet, EventHasEntry, EntryWaits
  <2>2. Acquired'
    BY <1>b, <1>c, <1>15 DEF ReadFuture, SnifferTypeOK, LocalWatcher, EventWatcher, Unregistered, OneOwner, Existing,
       TasksApart, Acquired, ParkedQuiet, EventHasEntry, EntryWaits
  <2>3. ParkedQuiet'
    BY <1>b, <1>c, <1>15 DEF ReadFuture, SnifferTypeOK, LocalWatcher, EventWatcher, Unregistered, OneOwner, Existing,
       TasksApart, Acquired, ParkedQuiet, EventHasEntry, EntryWaits
  <2>4. EventHasEntry'
    BY <1>b, <1>c, <1>15 DEF ReadFuture, SnifferTypeOK, LocalWatcher, EventWatcher, Unregistered, OneOwner, Existing,
       TasksApart, Acquired, ParkedQuiet, EventHasEntry, EntryWaits
  <2>5. EntryWaits'
    BY <1>b, <1>c, <1>15 DEF ReadFuture, SnifferTypeOK, LocalWatcher, EventWatcher, Unregistered, OneOwner, Existing,
       TasksApart, Acquired, ParkedQuiet, EventHasEntry, EntryWaits
  <2> QED
    BY <2>0, <2>1, <2>2, <2>3, <2>4, <2>5
<1> QED
  BY <1>0, <1>1, <1>2, <1>3, <1>4, <1>5, <1>6, <1>7, <1>8, <1>9, <1>10, <1>11, <1>12, <1>13, <1>14, <1>15 DEF SnifferNext, Acquire, GetWatcher, EventThread

-----------------------------------------------------------------------------
(* The limits of the registry and of the pool.                             *)

\* Threads that have seen the pool empty and build a watcher, and those that
\* hold one.
Building == {t \in Threads : pc[t] = "build"}
Holding  == {t \in Threads : pc[t] \in Active}

\* The registry is a finite table below its limit between two calls.
BelowLimit == IsFiniteSet(Registered) /\ RegistryBounded

\* The watchers there are, with those about to be built, are no more than the
\* registry and the threads can hold.
EnoughWatchers == /\ IsFiniteSet(Existing)
                  /\ Cardinality(Existing) + Cardinality(Building) < MaxAlive + Cardinality(Threads)

PoolInv == BelowLimit /\ (~damaged => EnoughWatchers /\ DestroyedWhenFull)

\* One more entry reaches the limit and clears the registry, or stays below it.
LEMMA LimitStep == OwnerInv /\ BelowLimit /\ [SnifferNext]_snifferVars => BelowLimit'
<1> SUFFICES ASSUME OwnerInv, BelowLimit, [SnifferNext]_snifferVars PROVE BelowLimit'
  OBVIOUS
<1> USE SnifferAssumption DEF BelowLimit, RegistryBounded
<1>1. CASE \E t \in Threads : Register(t)
  <2>1. PICK t \in Threads : Register(t)
    BY <1>1
  <2> DEFINE added == [alive EXCEPT ![task[t]] = watcher[t]]
             Added == {k \in Tasks : added[k] # None}
  <2>2. CASE Cardinality(Added) >= MaxAlive
    <3>1. Registered' = {}
      BY <2>1, <2>2 DEF Register, Registered
    <3> QED
      BY <3>1, FS_EmptySet
  <2>3. CASE ~(Cardinality(Added) >= MaxAlive)
    <3>1. Registered' = Added
      BY <2>1, <2>3 DEF Register, Registered
    <3>2. Added \subseteq Registered \cup {task[t]}
      BY DEF Registered
    <3>3. IsFiniteSet(Added)
      BY <3>2, FS_AddElement, FS_Subset
    <3>4. Cardinality(Added) \in Nat
      BY <3>3, FS_CardinalityType
    <3> HIDE DEF Added
    <3> QED
      BY <3>1, <3>3, <3>4, <2>3
  <2> QED
    BY <2>2, <2>3
<1>2. CASE ~(\E t \in Threads : Register(t))
  <2>1. Registered' \subseteq Registered
    BY <1>2 DEF SnifferNext, Acquire, GetWatcher, EventThread, Launch, LoadHead, Build, Swap, SwapFails, SwapStale,
       Connect, SetFuture, Return, Finish, Dequeue, EmitNobody, RemoveTask, ReadFuture, snifferVars, acquiring,
       event, history, pool, Registered, OwnerInv, SnifferTypeOK
  <2>2. IsFiniteSet(Registered') /\ Cardinality(Registered') <= Cardinality(Registered)
    BY <2>1, FS_Subset
  <2>3. Cardinality(Registered') \in Nat /\ Cardinality(Registered) \in Nat
    BY <2>2, FS_CardinalityType
  <2> QED
    BY <2>2, <2>3
<1> QED
  BY <1>1, <1>2

\* What threads and the registry hold is no more than they are.
LEMMA HeldWatchers ==
  ASSUME OwnerInv, BelowLimit
  PROVE  /\ IsFiniteSet(Local) /\ IsFiniteSet(InRegistry) /\ IsFiniteSet(Local \cup InRegistry)
         /\ IsFiniteSet(Holding) /\ IsFiniteSet(Building)
         /\ Cardinality(Local \cup InRegistry) + Cardinality(Building)
              < MaxAlive + Cardinality(Holding) + Cardinality(Building)
<1>1. IsFiniteSet(Holding) /\ IsFiniteSet(Building)
  BY SnifferAssumption, FS_Subset DEF Holding, Building
<1>2. IsFiniteSet(Local) /\ Cardinality(Local) <= Cardinality(Holding)
  <2> DEFINE f == [t \in Holding |-> watcher[t]]
  <2>1. f \in Surjection(Holding, Local)
    BY DEF Surjection, Holding, Local, OwnerInv, LocalWatcher
  <2> QED
    BY <1>1, <2>1, FS_Surjection
<1>3. IsFiniteSet(InRegistry) /\ Cardinality(InRegistry) <= Cardinality(Registered)
  <2> DEFINE f == [k \in Registered |-> alive[k]]
  <2>1. f \in Surjection(Registered, InRegistry)
    BY DEF Surjection, InRegistry
  <2> QED
    BY <2>1, FS_Surjection DEF BelowLimit
<1>4. IsFiniteSet(Local \cup InRegistry)
      /\ Cardinality(Local \cup InRegistry) = Cardinality(Local) + Cardinality(InRegistry) - Cardinality(Local \cap InRegistry)
  BY <1>2, <1>3, FS_Union
<1>5. IsFiniteSet(Local \cap InRegistry)
  BY <1>2, FS_Subset
<1>6. /\ Cardinality(Local \cup InRegistry) \in Nat /\ Cardinality(Local) \in Nat /\ Cardinality(InRegistry) \in Nat
      /\ Cardinality(Local \cap InRegistry) \in Nat /\ Cardinality(Registered) \in Nat
      /\ Cardinality(Holding) \in Nat /\ Cardinality(Building) \in Nat
  BY <1>1, <1>2, <1>3, <1>4, <1>5, FS_CardinalityType DEF BelowLimit
<1> QED
  BY <1>1, <1>2, <1>3, <1>4, <1>6, SnifferAssumption DEF BelowLimit, RegistryBounded

\* Watchers are built for threads that saw the pool empty.
LEMMA EnoughStep ==
  ASSUME OwnerInv, OwnerInv', BelowLimit, EnoughWatchers, ~damaged, ~damaged', [SnifferNext]_snifferVars
  PROVE  EnoughWatchers'
<1> USE SnifferAssumption DEF EnoughWatchers, Goto, Lend, acquiring, event, history, pool
<1>a. SnifferTypeOK /\ OneOwner /\ LocalWatcher /\ EventWatcher /\ LocalWatcher'
  BY DEF OwnerInv
<1>b. IsFiniteSet(Building) /\ Cardinality(Building) \in Nat /\ Cardinality(Existing) \in Nat
      /\ Cardinality(Threads) \in Nat
  BY HeldWatchers, FS_CardinalityType
<1>1. ASSUME NEW t \in Threads, LoadHead(t), free = {} PROVE EnoughWatchers'
  <2>1. Existing' = Existing /\ Existing = Local \cup InRegistry /\ pc' = [pc EXCEPT ![t] = "build"]
    BY <1>1 DEF LoadHead, Existing, Local, InRegistry, Registered
  <2>2. Building' = Building \cup {t} /\ t \notin Building /\ t \notin Holding /\ pc[t] = "get"
    BY <1>1, <1>a, <2>1 DEF LoadHead, Building, Holding, Active, SnifferTypeOK
  <2>3. IsFiniteSet(Building') /\ Cardinality(Building') = Cardinality(Building) + 1
    BY <1>b, <2>2, FS_AddElement
  <2> DEFINE Both == Holding \cup (Building \cup {t})
  <2>4. Both \subseteq Threads /\ Holding \cap (Building \cup {t}) = {}
    BY <2>2 DEF Holding, Building, Active
  <2>5. IsFiniteSet(Holding) /\ Cardinality(Both) = Cardinality(Holding) + Cardinality(Building')
    <3>1. IsFiniteSet(Holding)
      BY HeldWatchers
    <3>2. Cardinality(Both) = Cardinality(Holding) + Cardinality(Building \cup {t})
                              - Cardinality(Holding \cap (Building \cup {t}))
      BY <3>1, <2>2, <2>3, FS_Union
    <3>3. Cardinality(Holding \cap (Building \cup {t})) = 0
      BY <2>4, FS_EmptySet
    <3>4. Cardinality(Holding) \in Nat /\ Cardinality(Building') \in Nat
      BY <3>1, <2>3, FS_CardinalityType
    <3> QED
      BY <3>1, <3>2, <3>3, <3>4, <2>2
  <2>6. Cardinality(Both) <= Cardinality(Threads)
    BY <2>4, FS_Subset
  <2>7. Cardinality(Local \cup InRegistry) < MaxAlive + Cardinality(Holding)
    <3>1. Cardinality(Local \cup InRegistry) \in Nat /\ Cardinality(Holding) \in Nat
      BY <2>1, <2>5, <1>b, FS_CardinalityType
    <3> QED
      BY <3>1, <1>b, HeldWatchers
  <2>8. Cardinality(Holding) \in Nat /\ Cardinality(Existing) \in Nat /\ Cardinality(Building') \in Nat
    BY <1>b, <2>3, <2>5, FS_CardinalityType
  <2> HIDE DEF Both
  <2> QED
    BY <1>b, <2>1, <2>3, <2>5, <2>6, <2>7, <2>8
<1>2. ASSUME NEW t \in Threads, Build(t) PROVE EnoughWatchers'
  <2>1. PICK w \in Watchers : watcher' = [watcher EXCEPT ![t] = w]
    BY <1>2 DEF Build
  <2>2. Existing' \subseteq Existing \cup {w}
    BY <1>2, <2>1, <1>a DEF Build, Existing, Local, InRegistry, Registered, SnifferTypeOK
  <2>3. Building' = Building \ {t} /\ t \in Building
    BY <1>2, <1>a DEF Build, Building, SnifferTypeOK
  <2>4. Cardinality(Building') = Cardinality(Building) - 1
    BY <1>b, <2>3, FS_RemoveElement
  <2>5. IsFiniteSet(Existing \cup {w}) /\ Cardinality(Existing \cup {w}) <= Cardinality(Existing) + 1
    <3>1. IsFiniteSet(Existing)
      OBVIOUS
    <3>2. /\ IsFiniteSet(Existing \cup {w})
          /\ Cardinality(Existing \cup {w}) = IF w \in Existing THEN Cardinality(Existing) ELSE Cardinality(Existing) + 1
      BY <3>1, FS_AddElement
    <3> QED
      BY <1>b, <3>2
  <2>6. IsFiniteSet(Existing') /\ Cardinality(Existing') <= Cardinality(Existing \cup {w})
    BY <2>2, <2>5, FS_Subset
  <2>7. Cardinality(Existing') \in Nat /\ Cardinality(Existing \cup {w}) \in Nat
    BY <2>5, <2>6, FS_CardinalityType
  <2> QED
    BY <1>b, <2>4, <2>5, <2>6, <2>7
<1>3. ASSUME Existing' \subseteq Existing, Building' \subseteq Building PROVE EnoughWatchers'
  <2>1. IsFiniteSet(Existing') /\ Cardinality(Existing') <= Cardinality(Existing)
    BY <1>3, FS_Subset
  <2>2. IsFiniteSet(Building') /\ Cardinality(Building') <= Cardinality(Building)
    BY <1>3, <1>b, FS_Subset
  <2>3. Cardinality(Existing') \in Nat /\ Cardinality(Building') \in Nat
    BY <2>1, <2>2, FS_CardinalityType
  <2> QED
    BY <1>b, <2>1, <2>2, <2>3
<1>4. CASE \E t \in Threads : Register(t) \/ Return(t)
  <2>1. PICK t \in Threads : Register(t) \/ Return(t)
    BY <1>4
  <2>2. Existing' \subseteq Existing
    <3>1. watcher[t] \in Local
      BY <2>1, <1>a DEF Register, Return, Local, LocalWatcher, Active
    <3>2. CASE Register(t)
      <4>1. free' \subseteq free \cup InRegistry
        BY <3>2 DEF Register, PutBack
      <4>2. InRegistry' \subseteq InRegistry \cup {watcher[t]}
        BY <3>2, <1>a DEF Register, InRegistry, Registered, SnifferTypeOK
      <4>3. Local' = Local
        BY <3>2 DEF Register, Local
      <4> QED
        BY <3>1, <4>1, <4>2, <4>3 DEF Existing
    <3>3. CASE Return(t)
      <4>1. free' \subseteq free \cup {watcher[t]}
        BY <3>3 DEF Return, PutBack
      <4>2. Local' \subseteq Local /\ InRegistry' = InRegistry
        BY <3>3, <1>a DEF Return, Local, InRegistry, Registered, SnifferTypeOK
      <4> QED
        BY <3>1, <4>1, <4>2 DEF Existing
    <3> QED
      BY <2>1, <3>2, <3>3
  <2>3. Building' \subseteq Building
    BY <2>1, <1>a DEF Register, Return, Building, SnifferTypeOK
  <2> QED
    BY <2>2, <2>3, <1>3
<1>5. CASE RemoveTask
  <2>1. Building' \subseteq Building
    BY <1>5 DEF RemoveTask, Building
  <2>2. Existing' \subseteq Existing
    <3>1. free' \subseteq free \cup InRegistry
      <4>1. PICK k \in conn[ew] : \/ alive[k] # None /\ free' \subseteq free \cup {alive[k]}
                                 \/ free' = free
        BY <1>5 DEF RemoveTask, PutBack
      <4>2. k \in Tasks
        BY <1>5, <1>a DEF RemoveTask, SnifferTypeOK, EventWatcher
      <4> QED
        BY <4>1, <4>2 DEF InRegistry, Registered
    <3>2. InRegistry' \subseteq InRegistry
      BY <1>5, <1>a DEF RemoveTask, InRegistry, Registered, SnifferTypeOK
    <3>3. Local' = Local
      BY <1>5 DEF RemoveTask, Local
    <3> QED
      BY <3>1, <3>2, <3>3 DEF Existing
  <2> QED
    BY <2>1, <2>2, <1>3
<1>6. CASE \E t \in Threads : Swap(t) \/ Connect(t) \/ SetFuture(t) \/ SwapFails(t) \/ Launch(t) \/ SwapStale(t)
                               \/ (LoadHead(t) /\ free # {})
  <2>1. PICK t \in Threads : Swap(t) \/ Connect(t) \/ SetFuture(t) \/ SwapFails(t) \/ Launch(t) \/ SwapStale(t)
                              \/ (LoadHead(t) /\ free # {})
    BY <1>6
  <2>2. Existing' \subseteq Existing
    BY <2>1, <1>a DEF Swap, Connect, SetFuture, SwapFails, Launch, SwapStale, LoadHead, Existing, Local, InRegistry, Registered,
       SnifferTypeOK
  <2>3. Building' \subseteq Building
    BY <2>1, <1>a DEF Swap, Connect, SetFuture, SwapFails, Launch, SwapStale, LoadHead, Building, SnifferTypeOK
  <2> QED
    BY <2>2, <2>3, <1>3
<1>7. CASE (\E k \in Tasks : Finish(k)) \/ Dequeue \/ EmitNobody \/ ReadFuture \/ UNCHANGED snifferVars
  <2>1. Existing' = Existing /\ Building' = Building
    BY <1>7 DEF Finish, Dequeue, EmitNobody, ReadFuture, snifferVars, Existing, Local, InRegistry, Registered, Building
  <2> QED
    BY <2>1, <1>3
<1> QED
  BY <1>1, <1>2, <1>4, <1>5, <1>6, <1>7 DEF SnifferNext, Acquire, GetWatcher, EventThread

\* Watchers that were got and are not registered yet: the pool may still count
\* them.
Taking == {t \in Threads : pc[t] = "register"}
Taken  == {watcher[t] : t \in Taking}

\* The counter is never more than the watchers there are.
LEMMA CountedExist ==
  ASSUME OwnerInv, ~damaged, IsFiniteSet(Existing), NEW S \in SUBSET Existing, S \cap (free \cup Taken) = {},
         NEW E, IsFiniteSet(E), free \cup S \cup Taken \subseteq E
  PROVE  Counted + Cardinality(S) <= Cardinality(E)
<1>1. OneOwner /\ SnifferTypeOK /\ LocalWatcher
  BY DEF OwnerInv
<1>2. IsFiniteSet(free) /\ IsFiniteSet(S) /\ IsFiniteSet(Taking)
  BY SnifferAssumption, FS_Subset DEF Existing, Taking
<1>3. IsFiniteSet(Taken) /\ Cardinality(Taken) = Cardinality(Taking)
  <2> DEFINE f == [t \in Taking |-> watcher[t]]
  <2>1. f \in Surjection(Taking, Taken) /\ f \in Injection(Taking, Taken)
    BY <1>1 DEF Surjection, Injection, IsInjective, Taking, Taken, OneOwner, LocalWatcher, Active
  <2> QED
    BY <1>2, <2>1, FS_Surjection
<1>4. free \cap S = {} /\ (free \cup S) \cap Taken = {}
  BY <1>1, SnifferAssumption DEF OneOwner, Local, Taken, Taking, LocalWatcher, Active
<1>5. Cardinality(free \cup S) = Cardinality(free) + Cardinality(S) - Cardinality(free \cap S) /\ IsFiniteSet(free \cup S)
  BY <1>2, FS_Union
<1>6. /\ Cardinality((free \cup S) \cup Taken) = Cardinality(free \cup S) + Cardinality(Taken) - Cardinality((free \cup S) \cap Taken)
      /\ IsFiniteSet((free \cup S) \cup Taken)
  BY <1>3, <1>5, FS_Union
<1>7. Cardinality(free \cap S) = 0 /\ Cardinality((free \cup S) \cap Taken) = 0
  BY <1>4, FS_EmptySet
<1>8. Cardinality((free \cup S) \cup Taken) <= Cardinality(E)
  BY FS_Subset
<1>9. /\ Cardinality(free) \in Nat /\ Cardinality(S) \in Nat /\ Cardinality(Taken) \in Nat /\ Cardinality(E) \in Nat
      /\ Cardinality(free \cup S) \in Nat
  BY <1>2, <1>3, <1>5, FS_CardinalityType
<1> QED
  BY <1>3, <1>5, <1>6, <1>7, <1>8, <1>9 DEF Counted, Taking

\* What PutBack destroys leaves as many watchers as the pool keeps.
LEMMA PutBackLeaves ==
  ASSUME OwnerInv, ~damaged, IsFiniteSet(Existing), IsFiniteSet(Existing'), DestroyedWhenFull,
         NEW S \in SUBSET Existing, S \cap (free \cup Taken) = {}, PutBack(S),
         Existing \ S \subseteq Existing', free' \subseteq Existing', Taken \subseteq Existing'
  PROVE  DestroyedWhenFull'
<1> PICK D \in SUBSET S :
      /\ D # {} => Counted + Cardinality(S \ D) >= MaxFree
      /\ free' = free \cup (S \ D)
      /\ dangling' = (dangling \/ (epc # "idle" /\ ew \in D))
  BY DEF PutBack
<1>1. CASE D = {}
  <2>1. (dangling' => dangling) /\ Existing \subseteq Existing'
    BY <1>1
  <2>2. Cardinality(Existing) <= Cardinality(Existing') /\ Cardinality(Existing) \in Nat /\ Cardinality(Existing') \in Nat
    BY <2>1, FS_Subset, FS_CardinalityType
  <2> QED
    BY <2>1, <2>2, SnifferAssumption DEF DestroyedWhenFull
<1>2. CASE D # {}
  <2>1. /\ S \ D \in SUBSET Existing /\ (S \ D) \cap (free \cup Taken) = {}
        /\ free \cup (S \ D) \cup Taken \subseteq Existing'
    OBVIOUS
  <2>2. Counted + Cardinality(S \ D) <= Cardinality(Existing')
    BY <2>1, CountedExist
  <2>3. Counted + Cardinality(S \ D) >= MaxFree
    BY <1>2
  <2>4. IsFiniteSet(S \ D) /\ IsFiniteSet(free) /\ IsFiniteSet({t \in Threads : pc[t] = "register"})
    BY SnifferAssumption, FS_Subset DEF Existing
  <2>5. Counted \in Nat /\ Cardinality(S \ D) \in Nat /\ Cardinality(Existing') \in Nat
    BY <2>4, FS_CardinalityType DEF Counted
  <2> QED
    BY <2>2, <2>3, <2>5, SnifferAssumption DEF DestroyedWhenFull
<1> QED
  BY <1>1, <1>2

\* A task is started once, by one thread, and has no entry before its thread
\* registers it.
OneStart ==
  /\ \A k \in Tasks : future[k] = "new" => alive[k] = None /\ (\A t \in Threads : task[t] # k)
  /\ \A t, u \in Threads : task[t] # None /\ task[t] = task[u] => t = u
  /\ \A t \in Threads : /\ pc[t] = "idle" => task[t] = None
                        /\ pc[t] \in {"register"} \cup Getting => alive[task[t]] = None

LEMMA OneStartStep == OwnerInv /\ OneStart /\ [SnifferNext]_snifferVars => OneStart'
<1> SUFFICES ASSUME OwnerInv, OneStart, [SnifferNext]_snifferVars PROVE OneStart'
  OBVIOUS
<1> USE SnifferAssumption DEF OneStart, Goto, Lend, Getting, Active, acquiring, event, history, pool
<1>a. SnifferTypeOK /\ LocalWatcher /\ EventWatcher
  BY DEF OwnerInv
<1>1. CASE \E t \in Threads : Launch(t)
  BY <1>1, <1>a DEF Launch, SnifferTypeOK, LocalWatcher
<1>2. CASE \E t \in Threads : GetWatcher(t)
  BY <1>2, <1>a DEF GetWatcher, LoadHead, Build, Swap, SwapFails, SwapStale, SnifferTypeOK, LocalWatcher
<1>3. CASE \E t \in Threads : Register(t)
  <2>1. PICK t \in Threads : Register(t)
    BY <1>3
  <2>2. /\ pc' = [pc EXCEPT ![t] = "connect"] /\ UNCHANGED <<future, task>>
        /\ alive' = [k \in Tasks |-> None] \/ alive' = [alive EXCEPT ![task[t]] = watcher[t]]
        /\ pc[t] = "register" /\ task[t] \in Tasks /\ task[t] # None
    BY <2>1, <1>a DEF Register, LocalWatcher
  <2>3. future[task[t]] # "new"
    BY <2>2
  <2>4. \A k \in Tasks : alive'[k] = None \/ alive'[k] = alive[k] \/ k = task[t]
    BY <2>2, <1>a DEF SnifferTypeOK
  <2>5. \A u \in Threads : u # t => pc'[u] = pc[u]
    BY <2>2, <1>a DEF SnifferTypeOK
  <2>6. pc'[t] = "connect"
    BY <2>2, <1>a DEF SnifferTypeOK
  <2>7. \A u \in Threads : pc'[u] \in {"register"} \cup Getting => alive'[task'[u]] = None
    <3> SUFFICES ASSUME NEW u \in Threads, pc'[u] \in {"register"} \cup Getting PROVE alive'[task[u]] = None
      BY <2>2
    <3>1. u # t /\ pc[u] \in {"register"} \cup Getting
      BY <2>5, <2>6
    <3>2. task[u] \in Tasks /\ alive[task[u]] = None
      BY <3>1, <1>a DEF LocalWatcher
    <3>3. task[u] # task[t]
      BY <3>1, <3>2
    <3> QED
      BY <2>4, <3>2, <3>3
  <2>8. \A k \in Tasks : future'[k] = "new" => alive'[k] = None /\ (\A u \in Threads : task'[u] # k)
    BY <2>2, <2>3, <2>4
  <2> QED
    BY <2>2, <2>5, <2>6, <2>7, <2>8
<1>4. CASE \E t \in Threads : Connect(t) \/ SetFuture(t) \/ Return(t)
  BY <1>4, <1>a DEF Connect, SetFuture, Return, SnifferTypeOK, LocalWatcher
<1>5. CASE (\E k \in Tasks : Finish(k)) \/ Dequeue \/ EmitNobody \/ ReadFuture \/ UNCHANGED snifferVars
  BY <1>5, <1>a DEF Finish, Dequeue, EmitNobody, ReadFuture, snifferVars, SnifferTypeOK
<1>6. CASE RemoveTask
  <2>1. UNCHANGED <<future, task, pc>> /\ (alive' = alive \/ \E k \in conn[ew] : alive' = [alive EXCEPT ![k] = None])
    BY <1>6 DEF RemoveTask
  <2> QED
    BY <2>1, <1>a DEF SnifferTypeOK, LocalWatcher
<1> QED
  BY <1>1, <1>2, <1>3, <1>4, <1>5, <1>6 DEF SnifferNext, Acquire, EventThread

LEMMA DestroyedStep ==
  ASSUME OwnerInv, OwnerInv', OneStart, IsFiniteSet(Existing), IsFiniteSet(Existing'), DestroyedWhenFull,
         ~damaged, ~damaged', [SnifferNext]_snifferVars
  PROVE  DestroyedWhenFull'
<1> USE SnifferAssumption DEF Goto, Lend, acquiring, event, history, pool
<1>a. SnifferTypeOK /\ OneOwner /\ LocalWatcher /\ EventWatcher /\ LocalWatcher'
  BY DEF OwnerInv
<1>1. ASSUME dangling' => dangling, Existing \subseteq Existing' PROVE DestroyedWhenFull'
  <2>1. Cardinality(Existing) <= Cardinality(Existing') /\ Cardinality(Existing) \in Nat /\ Cardinality(Existing') \in Nat
    BY <1>1, FS_Subset, FS_CardinalityType
  <2> QED
    BY <1>1, <2>1 DEF DestroyedWhenFull
<1>2. ASSUME NEW t \in Threads, Register(t) PROVE DestroyedWhenFull'
  <2>0. Local' = Local /\ watcher[t] \in Local
    BY <1>2, <1>a DEF Register, Local, LocalWatcher, Active
  <2>1. CASE alive' = [alive EXCEPT ![task[t]] = watcher[t]] /\ UNCHANGED <<free, dangling>>
    <3>1. alive[task[t]] = None
      BY <1>2 DEF OneStart, Register
    <3> QED
      BY <2>0, <2>1, <3>1, <1>1, <1>a DEF Existing, InRegistry, Registered, SnifferTypeOK, LocalWatcher
  <2>2. CASE PutBack(InRegistry \ Local) /\ alive' = [k \in Tasks |-> None]
    <3> DEFINE S == InRegistry \ Local
    <3>1. S \subseteq Existing /\ S \cap (free \cup Taken) = {} /\ Taken \subseteq Local
      BY <1>a DEF Existing, OneOwner, Taken, Taking, Local, LocalWatcher, Active
    <3>2. Existing \ S \subseteq Existing'
      BY <2>0, <2>2 DEF Existing, PutBack
    <3>3. free' \subseteq Existing' /\ Taken \subseteq Existing'
      BY <2>0, <3>1 DEF Existing
    <3>4. PutBack(S)
      BY <2>2
    <3> HIDE DEF S
    <3> QED
      BY <3>1, <3>2, <3>3, <3>4, PutBackLeaves
  <2> QED
    BY <1>2, <2>1, <2>2 DEF Register
<1>3. ASSUME NEW t \in Threads, Return(t) PROVE DestroyedWhenFull'
  <2> DEFINE S == {watcher[t]} \ (InRegistry \cup {watcher[u] : u \in Threads \ {t}})
  <2>1. PutBack(S) /\ InRegistry' = InRegistry /\ watcher' = [watcher EXCEPT ![t] = None] /\ pc[t] = "return"
    BY <1>3 DEF Return, InRegistry, Registered
  <2>2. S \subseteq Existing /\ S \cap (free \cup Taken) = {}
    BY <2>1, <1>a DEF Existing, OneOwner, Taken, Taking, Local, LocalWatcher, Active
  <2>3. Local \ {watcher[t]} \subseteq Local' /\ Taken \subseteq Local'
    BY <2>1, <1>a DEF Local, Taken, Taking, SnifferTypeOK, LocalWatcher, Active
  <2>4. free \subseteq free'
    BY <2>1 DEF PutBack
  <2>5. watcher[t] \in S \/ watcher[t] \in InRegistry \/ watcher[t] \in Local'
    BY <2>1, <1>a DEF Local, SnifferTypeOK, LocalWatcher, Active
  <2>6. Existing \ S \subseteq Existing' /\ free' \subseteq Existing' /\ Taken \subseteq Existing'
    BY <2>1, <2>3, <2>4, <2>5 DEF Existing
  <2>7. PutBack(S)
    BY <2>1
  <2> HIDE DEF S
  <2> QED
    BY <2>2, <2>6, <2>7, PutBackLeaves
<1>4. CASE RemoveTask
  <2>1. PICK k \in conn[ew] : IF alive[k] # None
                              THEN /\ alive' = [alive EXCEPT ![k] = None]
                                   /\ PutBack({alive[k]} \ (Local \cup {alive[j] : j \in Registered \ {k}}))
                              ELSE UNCHANGED <<alive, free, dangling>>
    BY <1>4 DEF RemoveTask
  <2>2. k \in Tasks /\ Local' = Local
    BY <1>4, <1>a DEF RemoveTask, SnifferTypeOK, EventWatcher, Local
  <2>3. CASE alive[k] = None
    BY <2>1, <2>2, <2>3, <1>1 DEF Existing, InRegistry, Registered
  <2>4. CASE alive[k] # None
    <3> DEFINE S == {alive[k]} \ (Local \cup {alive[j] : j \in Registered \ {k}})
    <3>1. k \in Registered
      BY <2>2, <2>4 DEF Registered
    <3>2. S \subseteq Existing /\ S \cap (free \cup Taken) = {} /\ Taken \subseteq Local
      BY <3>1, <1>a DEF Existing, InRegistry, OneOwner, Taken, Taking, Local, LocalWatcher, Active
    <3>3. PutBack(S) /\ free \subseteq free' /\ alive' = [alive EXCEPT ![k] = None]
      BY <2>1, <2>4 DEF PutBack
    <3>4. InRegistry' = {alive[j] : j \in Registered \ {k}}
      BY <3>3, <2>2, <1>a DEF InRegistry, Registered, SnifferTypeOK
    <3>5. InRegistry \subseteq {alive[k]} \cup InRegistry'
      BY <3>4 DEF InRegistry
    <3>6. Existing \ S \subseteq Existing' /\ free' \subseteq Existing' /\ Taken \subseteq Existing'
      BY <2>2, <3>2, <3>3, <3>4, <3>5 DEF Existing
    <3>7. PutBack(S)
      BY <3>3
    <3> HIDE DEF S
    <3> QED
      BY <3>2, <3>6, <3>7, PutBackLeaves
  <2> QED
    BY <2>3, <2>4
<1>5. CASE EmitNobody \/ ReadFuture
  BY <1>5 DEF EmitNobody, ReadFuture, DestroyedWhenFull
<1>6. ASSUME NEW t \in Threads, Swap(t) PROVE DestroyedWhenFull'
  <2>1. PICK w \in free : watcher' = [watcher EXCEPT ![t] = w] /\ free' = free \ {w}
    BY <1>6 DEF Swap
  <2>2. watcher[t] = None /\ w \in Local'
    BY <1>6, <2>1, <1>a DEF Swap, Local, SnifferTypeOK, LocalWatcher, Active
  <2>3. Local \subseteq Local' /\ InRegistry' = InRegistry /\ dangling' = dangling
    BY <1>6, <2>1, <2>2, <1>a DEF Swap, Local, InRegistry, Registered, SnifferTypeOK
  <2> QED
    BY <1>1, <2>1, <2>2, <2>3 DEF Existing
<1>7. ASSUME NEW t \in Threads, Build(t) PROVE DestroyedWhenFull'
  <2>1. PICK w \in Watchers : watcher' = [watcher EXCEPT ![t] = w]
    BY <1>7 DEF Build
  <2>2. watcher[t] = None
    BY <1>7, <1>a DEF Build, LocalWatcher, Active
  <2>3. Local \subseteq Local' /\ InRegistry' = InRegistry /\ dangling' = dangling /\ free' = free
    BY <1>7, <2>1, <2>2, <1>a DEF Build, Local, InRegistry, Registered, SnifferTypeOK
  <2> QED
    BY <1>1, <2>3 DEF Existing
<1>8. CASE (\E t \in Threads : Launch(t) \/ LoadHead(t) \/ SwapFails(t) \/ Connect(t) \/ SetFuture(t))
           \/ (\E k \in Tasks : Finish(k)) \/ Dequeue \/ UNCHANGED snifferVars
  <2>1. Existing' = Existing /\ dangling' = dangling
    BY <1>8 DEF Launch, LoadHead, SwapFails, Connect, SetFuture, Finish, Dequeue, snifferVars, Existing, Local, InRegistry,
       Registered
  <2> QED
    BY <1>1, <2>1
<1>9. ASSUME NEW t \in Threads, SwapStale(t) PROVE FALSE
  BY <1>9 DEF SwapStale
<1> QED
  BY <1>2, <1>3, <1>4, <1>5, <1>6, <1>7, <1>8, <1>9 DEF SnifferNext, Acquire, GetWatcher, EventThread

-----------------------------------------------------------------------------
LEMMA PoolInit == SnifferInit => PoolInv
<1> SUFFICES ASSUME SnifferInit PROVE PoolInv
  OBVIOUS
<1>1. Registered = {} /\ Existing = {} /\ Building = {} /\ dangling = FALSE
  BY DEF SnifferInit, Registered, Existing, Local, InRegistry, Building
<1>2. Cardinality(Threads) \in Nat
  BY SnifferAssumption, FS_CardinalityType
<1> QED
  BY <1>1, <1>2, FS_EmptySet, SnifferAssumption DEF PoolInv, BelowLimit, RegistryBounded, EnoughWatchers, DestroyedWhenFull

LEMMA PoolStep == OwnerInv /\ OwnerInv' /\ OneStart /\ PoolInv /\ [SnifferNext]_snifferVars => PoolInv'
<1> SUFFICES ASSUME OwnerInv, OwnerInv', OneStart, PoolInv, [SnifferNext]_snifferVars PROVE PoolInv'
  OBVIOUS
<1>1. BelowLimit'
  BY LimitStep DEF PoolInv
<1>2. ASSUME ~damaged' PROVE EnoughWatchers' /\ DestroyedWhenFull'
  <2>1. ~damaged
    BY <1>2 DEF SnifferNext, Acquire, GetWatcher, EventThread, Launch, LoadHead, Build, Swap, SwapFails, SwapStale,
       Register, Connect, SetFuture, Return, Finish, Dequeue, EmitNobody, RemoveTask, ReadFuture, snifferVars,
       pool
  <2>2. BelowLimit /\ EnoughWatchers /\ DestroyedWhenFull
    BY <2>1 DEF PoolInv
  <2>3. EnoughWatchers'
    BY <1>2, <2>1, <2>2, EnoughStep
  <2> QED
    BY <1>2, <2>1, <2>2, <2>3, DestroyedStep DEF EnoughWatchers
<1> QED
  BY <1>1, <1>2 DEF PoolInv

LEMMA SnifferInvariant == SnifferSpec => [](OwnerInv /\ OneStart /\ PoolInv /\ EntryInv)
<1>1. SnifferInit => OwnerInv /\ OneStart /\ PoolInv /\ EntryInv
  <2>1. SnifferInit => OneStart
    BY SnifferAssumption DEF SnifferInit, OneStart, Getting
  <2> QED
    BY <2>1, OwnerInit, PoolInit, EntryInit
<1>2. OwnerInv /\ OneStart /\ PoolInv /\ EntryInv /\ [SnifferNext]_snifferVars => (OwnerInv /\ OneStart /\ PoolInv /\ EntryInv)'
  BY OwnerStep, OneStartStep, PoolStep, EntryStep
<1> QED
  BY <1>1, <1>2, PTL DEF SnifferSpec

\* Every variable keeps its type.
THEOREM SnifferTypeCorrect == SnifferSpec => []SnifferTypeOK
<1>1. OwnerInv => SnifferTypeOK
  BY DEF OwnerInv
<1> QED
  BY SnifferInvariant, <1>1, PTL

\* The registry, its clearing, the finished handlers, the getters and the pool
\* never disagree about who owns a watcher, until a getter swaps in a stale
\* successor; and none is destroyed under its handler but by a full pool.
THEOREM SnifferOneOwner == SnifferSpec => []WatcherHasOneOwner
<1>1. OwnerInv /\ PoolInv => WatcherHasOneOwner
  BY DEF OwnerInv, PoolInv, WatcherHasOneOwner
<1> QED
  BY SnifferInvariant, <1>1, PTL

\* The registry stays below its limit and, until it is cleared or the pool is
\* damaged, lists every running task: no removal misses its entry and no entry
\* goes early.  The watchers are bounded by the limit and the threads.
THEOREM SnifferRegistrySound == SnifferSpec => []RegistrySound
<1>1. OwnerInv /\ EntryInv => EntryUntilFinished
  <2> SUFFICES ASSUME OwnerInv, EntryInv, ~cleared, ~damaged PROVE EntryUntilFinished
    BY DEF EntryUntilFinished
  <2>1. Acquired /\ EntryWaits /\ notFound = {} /\ SnifferTypeOK /\ LocalWatcher
    BY DEF EntryInv, OwnerInv
  <2> QED
    BY <2>1, SnifferAssumption DEF EntryUntilFinished, Acquired, EntryWaits, SnifferTypeOK, LocalWatcher, Registered, Active
<1>2. OwnerInv /\ PoolInv => RegistryBounded /\ WatchersBounded
  <2> SUFFICES ASSUME OwnerInv, PoolInv, ~damaged
               PROVE  Cardinality(Existing) < MaxAlive + Cardinality(Threads)
    BY DEF PoolInv, BelowLimit, WatchersBounded
  <2>1. EnoughWatchers /\ BelowLimit
    BY DEF PoolInv
  <2>2. IsFiniteSet(Building)
    BY <2>1, HeldWatchers
  <2>3. Cardinality(Existing) \in Nat /\ Cardinality(Building) \in Nat /\ Cardinality(Threads) \in Nat
    BY <2>1, <2>2, SnifferAssumption, FS_CardinalityType DEF EnoughWatchers
  <2> QED
    BY <2>1, <2>3, SnifferAssumption DEF EnoughWatchers
<1>3. OwnerInv /\ PoolInv /\ EntryInv => RegistrySound
  BY <1>1, <1>2 DEF RegistrySound
<1> QED
  BY SnifferInvariant, <1>3, PTL

-----------------------------------------------------------------------------
(* The recorder with the cache: whatever the camera, the controller and the *)
(* failures do, one recording leaves at most one frame to the next.         *)

Collecting == {"initEncoder", "initMuxer", "encodePre", "wait"}

\* The sequences hold frames the camera has delivered; a frame that is being
\* pushed is one.
SaverFrames == /\ \A s \in {pre, post, preFrames, postFrames, left, video} : s \in Seq(1..MaxFrames)
               /\ frame \in 0..MaxFrames
               /\ ppc # "idle" => frame \in 1..MaxFrames

\* m_isBeforeRecording is set exactly while the save thread collects.
FlagWhileCollecting == isBefore <=> spc \in Collecting

\* When the cache is not in use, a frame on its way finds it empty.
Drained == spc \notin Collecting \cup {"encodePost"} =>
             Len(post) <= 1 /\ (ppc = "post" => post = <<>>)

\* After its first frame the cache follows the camera: its last frame is the
\* latest, or the one before while the latest is being pushed.
Follows(s) == \A i \in 2..(Len(s) - 1) : s[i + 1] = s[i] + 1
CacheFollows ==
  spc \in Collecting =>
    /\ Follows(post)
    /\ Len(post) >= 2 => post[Len(post)] = IF ppc = "idle" THEN frame ELSE frame - 1

\* A video that is about to begin is one of those the bound allows.
MayBegin == cpc = "start" => begun < MaxRecordings

SaverInv == /\ SaverTypeOK /\ SaverFrames /\ OneAnswer /\ MayBegin
            /\ FlagWhileCollecting /\ Drained /\ CacheFollows /\ Follows(postFrames)

LEMMA SaverSeqs ==
  ASSUME NEW S, NEW s \in Seq(S)
  PROVE  /\ FramesOf(s) \subseteq S
         /\ \A x \in S : Append(s, x) \in Seq(S)
         /\ s # <<>> => /\ Tail(s) \in Seq(S) /\ Head(s) \in S /\ Len(s) > 0
                        /\ Len(Tail(s)) = Len(s) - 1
<1>1. FramesOf(s) \subseteq S
  BY DEF FramesOf
<1>2. \A x \in S : Append(s, x) \in Seq(S)
  OBVIOUS
<1>3. ASSUME s # <<>>
      PROVE  /\ Tail(s) \in Seq(S) /\ Head(s) \in S /\ Len(s) > 0 /\ Len(Tail(s)) = Len(s) - 1
  BY <1>3
<1> QED
  BY <1>1, <1>2, <1>3

LEMMA SaverStart == SaverInit => SaverInv
<1> SUFFICES ASSUME SaverInit PROVE SaverInv
  OBVIOUS
<1> USE VideoAssumption DEF SaverInit
<1>1. <<>> \in Seq(1..MaxFrames) /\ Len(<<>>) = 0
  OBVIOUS
<1>2. SaverFrames
  BY <1>1 DEF SaverFrames
<1>3. SaverTypeOK
  <2>1. FramesOf(<<>>) = {}
    BY DEF FramesOf
  <2>2. \A s \in {pre, post, preFrames, postFrames, left, video} : FramesOf(s) \subseteq 1..MaxFrames
    BY <2>1
  <2>3. /\ frame \in 0..MaxFrames /\ ppc \in {"idle", "pre", "second", "post"}
    OBVIOUS
  <2>5. Len(pre) <= CacheLimit
    BY <1>1
  <2>6. {recording, isPre, isBefore, encoder, muxer} \subseteq BOOLEAN
    OBVIOUS
  <2>4. begun \in 0..MaxRecordings /\ answered \in 0..begun
    OBVIOUS
  <2> QED
    BY <2>2, <2>3, <2>4, <2>5, <2>6 DEF SaverTypeOK
<1>4. MayBegin /\ OneAnswer /\ FlagWhileCollecting /\ Drained /\ CacheFollows /\ Follows(postFrames)
  BY <1>1 DEF MayBegin, OneAnswer, FlagWhileCollecting, Drained, CacheFollows, Follows, Collecting
<1> QED
  BY <1>2, <1>3, <1>4 DEF SaverInv

\* No step gives a sequence anything but frames.
LEMMA SaverFramesStep == SaverInv /\ SaverNext => SaverFrames'
<1> SUFFICES ASSUME SaverInv, SaverNext PROVE SaverFrames'
  OBVIOUS
<1> DEFINE F == Seq(1..MaxFrames)
<1>a. /\ pre \in F /\ post \in F /\ preFrames \in F /\ postFrames \in F /\ left \in F /\ video \in F
      /\ frame \in 0..MaxFrames /\ (ppc # "idle" => frame \in 1..MaxFrames)
      /\ MaxFrames \in Nat /\ CacheLimit \in Nat \ {0}
  BY VideoAssumption DEF SaverInv, SaverFrames
<1>b. <<>> \in F
  OBVIOUS
<1> SUFFICES /\ pre' \in F /\ post' \in F /\ preFrames' \in F /\ postFrames' \in F /\ left' \in F
             /\ video' \in F
             /\ frame' \in 0..MaxFrames /\ (ppc' # "idle" => frame' \in 1..MaxFrames)
  BY DEF SaverFrames
<1>c. \A s \in F : /\ \A x \in 1..MaxFrames : Append(s, x) \in F
                   /\ s # <<>> => Tail(s) \in F /\ Head(s) \in 1..MaxFrames
  <2> SUFFICES ASSUME NEW s \in F
               PROVE  /\ \A x \in 1..MaxFrames : Append(s, x) \in F
                      /\ s # <<>> => Tail(s) \in F /\ Head(s) \in 1..MaxFrames
    OBVIOUS
  <2> QED
    BY SaverSeqs
<1> HIDE DEF F
<1>1. CASE Push
  BY <1>1, <1>a DEF Push, flags, file, copies, counts
<1>2. CASE PushPre
  <2>1. pre' \in F
    <3>1. CASE Len(pre) < CacheLimit
      BY <1>2, <3>1, <1>a, <1>c DEF PushPre
    <3>2. CASE ~(Len(pre) < CacheLimit)
      <4>1. pre # <<>>
        BY <3>2, <1>a
      <4> QED
        BY <1>2, <3>2, <4>1, <1>a, <1>c DEF PushPre
    <3> QED
      BY <3>1, <3>2
  <2> QED
    BY <1>2, <2>1, <1>a DEF PushPre, flags, file, copies, counts
<1>3. CASE ReadBefore
  BY <1>3, <1>a DEF ReadBefore, flags, file, copies, counts
<1>4. CASE PushPost
  BY <1>4, <1>a, <1>c DEF PushPost, flags, file, copies, counts
<1>5. CASE Controller
  BY <1>5, <1>a, <1>b DEF Controller, StartRecord, SpawnSaver, StopRecord, StopEncoder, StopMuxer, Join,
     camera, flags, file, copies, counts
<1>6. CASE EncodePre \/ EncodePost
  BY <1>6, <1>a, <1>c DEF EncodePre, EncodePost, Encode, camera, flags, file, copies, counts
<1>7. CASE InitEncoder \/ InitMuxer \/ Crash
  BY <1>7, <1>a, <1>b DEF InitEncoder, InitMuxer, Crash, Abandon, camera, flags, file, copies, counts
<1>8. CASE SetPre \/ CopyPre \/ PreDone \/ CopyPost \/ ClearPost
  BY <1>8, <1>a, <1>b DEF SetPre, CopyPre, PreDone, CopyPost, ClearPost, camera, flags, file, copies, counts
<1>9. CASE EndEncode \/ Finished \/ RecordDone \/ Callback
  BY <1>9, <1>a DEF EndEncode, Finished, RecordDone, Callback, camera, flags, file, copies, counts
<1> QED
  BY <1>1, <1>2, <1>3, <1>4, <1>5, <1>6, <1>7, <1>8, <1>9 DEF SaverNext, Camera, SaveThread

\* The length of the first cache, the flags, the labels and the counts.
LEMMA SaverCountsStep == SaverInv /\ SaverNext =>
  /\ Len(pre') <= CacheLimit
  /\ {recording', isPre', isBefore', encoder', muxer'} \subseteq BOOLEAN
  /\ ppc' \in {"idle", "pre", "second", "post"}
  /\ cpc' \in {"idle", "start", "endEncode", "finish", "join"}
  /\ spc' \in {"none", "begin", "locked", "initEncoder", "initMuxer", "encodePre", "wait",
               "encodePost", "endEncode", "finish", "done", "callback", "ended"}
  /\ begun' \in 0..MaxRecordings /\ answered' \in 0..begun' /\ OneAnswer' /\ MayBegin'
<1> SUFFICES ASSUME SaverInv, SaverNext
    PROVE /\ Len(pre') <= CacheLimit
          /\ {recording', isPre', isBefore', encoder', muxer'} \subseteq BOOLEAN
          /\ ppc' \in {"idle", "pre", "second", "post"}
          /\ cpc' \in {"idle", "start", "endEncode", "finish", "join"}
          /\ spc' \in {"none", "begin", "locked", "initEncoder", "initMuxer", "encodePre", "wait",
                       "encodePost", "endEncode", "finish", "done", "callback", "ended"}
          /\ begun' \in 0..MaxRecordings /\ answered' \in 0..begun' /\ OneAnswer' /\ MayBegin'
  OBVIOUS
<1> USE DEF SaverNext, Camera, Controller, SaveThread, Push, PushPre, ReadBefore, PushPost, StartRecord,
       SpawnSaver, StopRecord, StopEncoder, StopMuxer, Join, SetPre, CopyPre, InitEncoder, InitMuxer,
       Abandon, Encode, EncodePre, PreDone, CopyPost, EncodePost, ClearPost, EndEncode, Finished,
       RecordDone, Crash, Callback, camera, flags, file, copies, counts
<1>1. Len(pre') <= CacheLimit
  <2>1. /\ pre \in Seq(1..MaxFrames) /\ Len(pre) <= CacheLimit /\ CacheLimit \in Nat \ {0}
    BY VideoAssumption DEF SaverInv, SaverFrames, SaverTypeOK
  <2>2. CASE PushPre
    <3>1. CASE Len(pre) < CacheLimit
      BY <2>1, <2>2, <3>1
    <3>2. CASE ~(Len(pre) < CacheLimit)
      <4>1. pre # <<>> /\ pre' = Append(Tail(pre), frame)
        BY <2>1, <2>2, <3>2
      <4> QED
        BY <2>1, <4>1
    <3> QED
      BY <3>1, <3>2
  <2>3. CASE pre' = pre
    BY <2>1, <2>3
  <2> QED
    BY <2>2, <2>3
<1>2. {recording', isPre', isBefore', encoder', muxer'} \subseteq BOOLEAN
  <2>1. {recording, isPre, isBefore, encoder, muxer} \subseteq BOOLEAN
    BY DEF SaverInv, SaverTypeOK
  <2> QED
    BY <2>1, Zenon
<1>3. /\ ppc' \in {"idle", "pre", "second", "post"}
      /\ cpc' \in {"idle", "start", "endEncode", "finish", "join"}
      /\ spc' \in {"none", "begin", "locked", "initEncoder", "initMuxer", "encodePre", "wait",
                   "encodePost", "endEncode", "finish", "done", "callback", "ended"}
  BY DEF SaverInv, SaverTypeOK
<1>4. begun' \in 0..MaxRecordings /\ answered' \in 0..begun' /\ OneAnswer' /\ MayBegin'
  <2>1. /\ begun \in 0..MaxRecordings /\ answered \in 0..begun /\ MaxRecordings \in Nat
        /\ OneAnswer /\ MayBegin
    BY VideoAssumption DEF SaverInv, SaverTypeOK
  <2> QED
    BY <2>1 DEF OneAnswer, MayBegin
<1> QED
  BY <1>1, <1>2, <1>3, <1>4

\* The second cache.
LEMMA SaverCacheStep == SaverInv /\ SaverNext =>
  FlagWhileCollecting' /\ Drained' /\ CacheFollows' /\ Follows(postFrames)'
<1> SUFFICES ASSUME SaverInv, SaverNext
             PROVE  FlagWhileCollecting' /\ Drained' /\ CacheFollows' /\ Follows(postFrames)'
  OBVIOUS
<1> USE DEF Collecting
<1>a. /\ post \in Seq(1..MaxFrames) /\ postFrames \in Seq(1..MaxFrames) /\ frame \in Nat
      /\ MaxFrames \in Nat
  BY VideoAssumption DEF SaverInv, SaverFrames
<1>b. FlagWhileCollecting /\ Drained /\ CacheFollows /\ Follows(postFrames)
      /\ isBefore \in BOOLEAN
      /\ ppc \in {"idle", "pre", "second", "post"}
  BY DEF SaverInv, SaverTypeOK
<1>c. Follows(<<>>) /\ Len(<<>>) = 0
  BY DEF Follows
<1>1. CASE Push
  <2>1. /\ ppc = "idle" /\ ppc' # "idle" /\ ppc' # "post" /\ frame' = frame + 1
        /\ UNCHANGED <<post, isBefore, spc, postFrames>>
    BY <1>1 DEF Push, flags, file, copies, counts
  <2> QED
    BY <2>1, <1>a, <1>b DEF FlagWhileCollecting, Drained, CacheFollows, Follows
<1>2. CASE PushPre
  <2>1. /\ ppc = "pre" /\ ppc' = "second"
        /\ UNCHANGED <<frame, post, isBefore, spc, postFrames>>
    BY <1>2 DEF PushPre, flags, file, copies, counts
  <2> QED
    BY <2>1, <1>a, <1>b DEF FlagWhileCollecting, Drained, CacheFollows, Follows
<1>3. CASE ReadBefore
  <2>1. /\ ppc = "second" /\ ppc' = IF isBefore THEN "post" ELSE "idle"
        /\ UNCHANGED <<frame, post, isBefore, spc, postFrames>>
    BY <1>3 DEF ReadBefore, flags, file, copies, counts
  <2>2. CASE isBefore
    BY <2>1, <2>2, <1>a, <1>b DEF FlagWhileCollecting, Drained, CacheFollows, Follows
  <2>3. CASE ~isBefore
    BY <2>1, <2>3, <1>a, <1>b DEF FlagWhileCollecting, Drained, CacheFollows, Follows
  <2> QED
    BY <2>2, <2>3
<1>4. CASE PushPost
  <2>1. /\ ppc = "post" /\ ppc' = "idle" /\ post' = Append(post, frame)
        /\ UNCHANGED <<frame, isBefore, spc, postFrames>>
    BY <1>4 DEF PushPost, flags, file, copies, counts
  <2>2. /\ Len(post') = Len(post) + 1 /\ Len(post) \in Nat
        /\ post'[Len(post) + 1] = frame
        /\ \A i \in 1..Len(post) : post'[i] = post[i]
    BY <2>1, <1>a
  <2>3. FlagWhileCollecting'
    BY <2>1, <1>b DEF FlagWhileCollecting
  <2>4. Drained'
    BY <2>1, <2>2, <1>a, <1>b DEF Drained
  <2>5. CacheFollows'
    <3> SUFFICES ASSUME spc \in Collecting
                 PROVE  Follows(post') /\ (Len(post') >= 2 => post'[Len(post')] = frame)
      BY <2>1 DEF CacheFollows, Follows
    <3>1. Follows(post) /\ (Len(post) >= 2 => post[Len(post)] = frame - 1)
      BY <2>1, <1>b DEF CacheFollows
    <3> HIDE DEF Collecting
    <3>2. ASSUME NEW i \in 2..(Len(post') - 1)
          PROVE  post'[i + 1] = post'[i] + 1
      <4>1. CASE i = Len(post)
        BY <4>1, <3>1, <2>2, <1>a
      <4>2. CASE i # Len(post)
        <5>1. i \in 2..(Len(post) - 1) /\ i \in 1..Len(post) /\ i + 1 \in 1..Len(post)
          BY <4>2, <2>2
        <5> QED
          BY <5>1, <3>1, <2>2 DEF Follows
      <4> QED
        BY <4>1, <4>2
    <3>3. post'[Len(post')] = frame
      BY <2>2
    <3> QED
      BY <3>2, <3>3 DEF Follows
  <2>6. Follows(postFrames)'
    BY <2>1, <1>b DEF Follows
  <2> QED
    BY <2>3, <2>4, <2>5, <2>6
<1>5. CASE Controller
  <2>1. /\ UNCHANGED <<frame, ppc, post, isBefore, postFrames>>
        /\ \/ spc' = spc
           \/ spc \in {"none", "ended"} /\ spc' \in {"begin", "none"}
    BY <1>5 DEF Controller, StartRecord, SpawnSaver, StopRecord, StopEncoder, StopMuxer, Join,
       camera, flags, file, copies, counts
  <2> QED
    BY <2>1, <1>a, <1>b DEF FlagWhileCollecting, Drained, CacheFollows, Follows
<1>6. CASE CopyPre
  <2>1. /\ spc = "locked" /\ spc' = "initEncoder" /\ isBefore' = TRUE /\ postFrames' = <<>>
        /\ UNCHANGED <<frame, ppc, post>>
    BY <1>6 DEF CopyPre, camera
  <2>2. Len(post) <= 1 /\ Len(post) \in Nat
    BY <2>1, <1>a, <1>b DEF Drained
  <2> QED
    BY <2>1, <2>2, <1>c DEF FlagWhileCollecting, Drained, CacheFollows, Follows
<1>7. CASE InitEncoder \/ InitMuxer \/ Crash
  <2>1. /\ UNCHANGED <<frame, ppc, postFrames>>
        /\ \/ /\ spc \in {"initEncoder", "initMuxer"} /\ spc' \in {"initMuxer", "encodePre"}
              /\ UNCHANGED <<post, isBefore>>
           \/ spc' = "callback" /\ isBefore' = FALSE /\ post' = <<>>
    BY <1>7 DEF InitEncoder, InitMuxer, Crash, Abandon, camera, flags, file, copies, counts
  <2> QED
    BY <2>1, <1>b, <1>c DEF FlagWhileCollecting, Drained, CacheFollows, Follows
<1>8. CASE EncodePre \/ PreDone \/ EncodePost
  <2>1. /\ UNCHANGED <<frame, ppc, postFrames, post, isBefore>>
        /\ \/ spc' = spc
           \/ spc = "encodePre" /\ spc' = "wait"
    BY <1>8 DEF EncodePre, PreDone, EncodePost, camera, flags, file, copies, counts
  <2> QED
    BY <2>1, <1>b DEF FlagWhileCollecting, Drained, CacheFollows, Follows
<1>9. CASE CopyPost
  <2>1. /\ spc = "wait" /\ spc' = "encodePost" /\ isBefore' = FALSE /\ postFrames' = post
        /\ UNCHANGED <<frame, ppc, post>>
    BY <1>9 DEF CopyPost, camera
  <2> QED
    BY <2>1, <1>b DEF FlagWhileCollecting, Drained, CacheFollows, Follows
<1>10. CASE ClearPost
  <2>1. /\ spc = "encodePost" /\ spc' = "endEncode" /\ post' = <<>>
        /\ UNCHANGED <<frame, ppc, isBefore, postFrames>>
    BY <1>10 DEF ClearPost, camera, flags, copies
  <2> QED
    BY <2>1, <1>b, <1>c DEF FlagWhileCollecting, Drained, CacheFollows, Follows
<1>11. CASE SetPre \/ EndEncode \/ Finished \/ RecordDone \/ Callback
  <2>1. /\ UNCHANGED <<frame, ppc, postFrames, post, isBefore>>
        /\ spc \in {"begin", "endEncode", "finish", "done", "callback"}
        /\ spc' \in {"locked", "finish", "done", "callback", "ended"}
    BY <1>11 DEF SetPre, EndEncode, Finished, RecordDone, Callback, camera, flags, copies
  <2> QED
    BY <2>1, <1>b DEF FlagWhileCollecting, Drained, CacheFollows, Follows
<1> QED
  BY <1>1, <1>2, <1>3, <1>4, <1>5, <1>6, <1>7, <1>8, <1>9, <1>10, <1>11 DEF SaverNext, Camera, SaveThread

LEMMA SaverInvariant == SaverSpec => []SaverInv
<1>1. ASSUME SaverInv, SaverNext PROVE SaverInv'
  <2>1. SaverFrames'
    BY <1>1, SaverFramesStep
  <2>2. \A s \in {pre', post', preFrames', postFrames', left', video'} : FramesOf(s) \subseteq 1..MaxFrames
    BY <2>1, SaverSeqs DEF SaverFrames
  <2>3. SaverTypeOK'
    BY <1>1, <2>1, <2>2, SaverCountsStep DEF SaverTypeOK, SaverFrames
  <2> QED
    BY <1>1, <2>1, <2>3, SaverCountsStep, SaverCacheStep DEF SaverInv
<1>2. SaverInv /\ UNCHANGED saverVars => SaverInv'
  <2> SUFFICES ASSUME SaverInv, UNCHANGED saverVars PROVE SaverInv'
    OBVIOUS
  <2>1. SaverTypeOK'
    BY DEF saverVars, SaverInv, SaverTypeOK
  <2>2. SaverFrames' /\ OneAnswer' /\ MayBegin'
    BY DEF saverVars, SaverInv, SaverFrames, OneAnswer, MayBegin
  <2>3. FlagWhileCollecting' /\ Drained' /\ CacheFollows' /\ Follows(postFrames)'
    BY DEF saverVars, SaverInv, FlagWhileCollecting, Drained, CacheFollows, Follows
  <2> QED
    BY <2>1, <2>2, <2>3 DEF SaverInv
<1> QED
  BY <1>1, <1>2, SaverStart, PTL DEF SaverSpec

\* Every variable of the recorder keeps its type and the first cache its limit.
THEOREM SaverTypeCorrect == SaverSpec => []SaverTypeOK
<1>1. SaverInv => SaverTypeOK
  BY DEF SaverInv
<1> QED
  BY <1>1, SaverInvariant, PTL

\* One recording leaves at most one frame to the next, loses none while it
\* encodes, and is answered once.
THEOREM SaverRecordingsApart == SaverSpec => []RecordingsApart
<1>1. SaverInv => RecordingsApart
  <2> SUFFICES ASSUME SaverInv PROVE RecordingsApart
    OBVIOUS
  <2>1. PostCacheDrained
    BY DEF SaverInv, Drained, Collecting, PostCacheDrained
  <2>2. PostIsContiguous
    BY DEF SaverInv, Follows, PostIsContiguous
  <2> QED
    BY <2>1, <2>2 DEF SaverInv, RecordingsApart
<1> QED
  BY <1>1, SaverInvariant, PTL
=============================================================================
