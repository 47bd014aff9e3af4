--------------------------- MODULE ConcurrentPool ---------------------------
(***************************************************************************)
(* kits/common/thread_pool/ConcurrentPool.h: immediate tasks, delayed and   *)
(* periodic timer tasks, the timer thread and the stop flag.                *)
(*                                                                          *)
(* The tests of m_bRun are kept as they are written: m_bRun starts as TRUE, *)
(* stop() clears it, and the timer thread loops `while (!m_bRun)`.  Clients *)
(* test the flag and act on it in two steps.  mtxTimer_ is held by the      *)
(* timer thread from the end of a wait to the unlock of line 238 and from   *)
(* line 257 to the next wait: each stretch is one action.                   *)
(***************************************************************************)
EXTENDS Integers, FiniteSets

CONSTANTS Clients,   \* threads that call the pool
          Names,     \* timer names
          Delays,    \* delays and periods clients ask for, in ticks
          MaxTime,   \* bound: the clock stops here, and no timer is due later
          MaxTasks   \* bound: number of requests

ASSUME TimerAssumption == /\ Delays \subseteq Nat /\ MaxTime \in Nat /\ MaxTasks \in Nat
                          /\ Names \cap (1..MaxTasks) = {}

VARIABLES bRun,     \* m_bRun
          tasks,    \* tasks_: a set of timer tasks, each with its serial number
          cancels,  \* cancels_
          now,      \* steady_clock
          tpc,      \* where the timer thread is
          wakeAt,   \* the time its wait_until ends, Forever for wait
          cur,      \* the task it popped and the time it read then
          req,      \* what each client is asking for, once past its test of m_bRun
          serial,   \* number of requests made
          started,  \* requests whose function was handed to QtConcurrent
          exiting   \* the static pool is being destroyed: join of the timer thread

vars == <<bRun, tasks, cancels, now, tpc, wakeAt, cur, req, serial, started, exiting>>
client == <<req, serial>>

Forever == MaxTime + 1
NoTask  == [id |-> 0, name |-> 0, at |-> 0, ival |-> 0, repeat |-> FALSE]
NoReq   == [kind |-> "none", id |-> 0, name |-> 0, delay |-> 0]

Init == /\ bRun = TRUE
        /\ tasks = {} /\ cancels = {}
        /\ now = 0
        /\ tpc = "start" /\ wakeAt = Forever /\ cur = NoTask
        /\ req = [c \in Clients |-> NoReq] /\ serial = 0
        /\ started = {}
        /\ exiting = FALSE

-----------------------------------------------------------------------------
(* Clients.                                                                *)

Ask(c, kind, name, delay) ==
  /\ req[c] = NoReq /\ serial < MaxTasks /\ now + delay <= MaxTime
  /\ bRun
  /\ serial' = serial + 1
  /\ req' = [req EXCEPT ![c] = [kind |-> kind, id |-> serial + 1, name |-> name, delay |-> delay]]
  /\ UNCHANGED <<bRun, tasks, cancels, now, tpc, wakeAt, cur, started, exiting>>

\* runTask, and runAfter with a delay of 0, which calls it: runTask tests the
\* flag again.  A stopped pool refuses every request and changes nothing.
RunTask(c) == Ask(c, "now", 0, 0)

\* An anonymous timer is named by its serial number.
RunAfter(c) == \E d \in Delays : Ask(c, IF d = 0 THEN "now" ELSE "after", serial + 1, d)

RunEvery(c) == \E n \in Names, d \in Delays \ {0} : Ask(c, "every", n, d)

\* QtConcurrent::run, after the test of m_bRun.
Spawn(c) == /\ req[c].kind = "now"
            /\ started' = started \cup {req[c].id}
            /\ req' = [req EXCEPT ![c] = NoReq]
            /\ UNCHANGED <<bRun, tasks, cancels, now, tpc, wakeAt, cur, serial, exiting>>

\* Mutant of AddTimerTask: a second timer of the same name is accepted.
AddTimerTaskAnyName(c) ==
  /\ req[c].kind \in {"after", "every"}
  /\ tasks' = tasks \cup {[id |-> req[c].id, name |-> req[c].name, at |-> now + req[c].delay,
                           ival |-> req[c].delay, repeat |-> req[c].kind = "every"]}
  /\ req' = [req EXCEPT ![c] = NoReq]
  /\ UNCHANGED <<bRun, cancels, now, tpc, wakeAt, cur, serial, started, exiting>>

\* addTimerTask under mtxTimer_; a name that is already queued is refused.
AddTimerTask(c) ==
  /\ req[c].kind \in {"after", "every"}
  /\ now + req[c].delay <= MaxTime
  /\ IF \E k \in tasks : k.name = req[c].name
     THEN UNCHANGED tasks
     ELSE tasks' = tasks \cup {[id |-> req[c].id, name |-> req[c].name, at |-> now + req[c].delay,
                                ival |-> req[c].delay, repeat |-> req[c].kind = "every"]}
  /\ req' = [req EXCEPT ![c] = NoReq]
  /\ UNCHANGED <<bRun, cancels, now, tpc, wakeAt, cur, serial, started, exiting>>

TimerCancel(n) == /\ cancels' = cancels \cup {n}
                  /\ UNCHANGED <<bRun, tasks, now, tpc, wakeAt, cur, client, started, exiting>>

Stop == /\ bRun' = FALSE
        /\ UNCHANGED <<tasks, cancels, now, tpc, wakeAt, cur, client, started, exiting>>

\* ~ConcurrentPool at the end of the program: notify_one, then join.
Destruct == /\ ~exiting /\ ~bRun
            /\ exiting' = TRUE
            /\ UNCHANGED <<bRun, tasks, cancels, now, tpc, wakeAt, cur, client, started>>

Tick == /\ now < MaxTime
        /\ now' = now + 1
        /\ UNCHANGED <<bRun, tasks, cancels, tpc, wakeAt, cur, client, started, exiting>>

-----------------------------------------------------------------------------
(* The timer thread.                                                       *)

\* The order of the multiset: earliest first.
First(S) == {k \in S : \A l \in S : k.at <= l.at}
NextTrigger(S) == IF S = {} THEN {Forever} ELSE {k.at : k \in First(S)}

\* The inner loop: pop a task that is due and unlock, or go round the outer
\* loop and wait for the first task of S.
PopOrWait(S) ==
  \/ \E k \in First(S) : /\ k.at <= now
                         /\ tasks' = S \ {k}
                         /\ cur' = [k EXCEPT !.at = now]
                         /\ tpc' = "dispatch"
                         /\ UNCHANGED wakeAt
  \/ /\ \A k \in S : k.at > now
     /\ tasks' = S
     /\ cur' = NoTask
     /\ tpc' = IF bRun THEN "exited" ELSE "wait"
     /\ wakeAt' \in NextTrigger(S)

\* Mutant of ThreadStart: the loop runs while the pool runs.
ThreadStartWhileRunning == /\ tpc = "start"
                           /\ IF ~bRun
                              THEN tpc' = "exited" /\ UNCHANGED wakeAt
                              ELSE tpc' = "wait" /\ wakeAt' \in NextTrigger(tasks)
                           /\ UNCHANGED <<bRun, tasks, cancels, now, cur, client, started, exiting>>

\* The first test of `while (!m_bRun)`.
ThreadStart == /\ tpc = "start"
               /\ IF bRun
                  THEN tpc' = "exited" /\ UNCHANGED wakeAt
                  ELSE tpc' = "wait" /\ wakeAt' \in NextTrigger(tasks)
               /\ UNCHANGED <<bRun, tasks, cancels, now, cur, client, started, exiting>>

\* wait or wait_until returns: the time is over or the predicate holds.
\* Every change of tasks_ notifies, so the predicate is the guard.
Wake == /\ tpc = "wait"
        /\ \/ bRun
           \/ wakeAt = Forever /\ tasks # {}
           \/ wakeAt # Forever /\ (now >= wakeAt \/ tasks = {} \/ \E t \in NextTrigger(tasks) : t < wakeAt)
        /\ IF bRun
           THEN tpc' = "exited" /\ UNCHANGED <<tasks, cur, wakeAt>>
           ELSE PopOrWait(tasks)
        /\ UNCHANGED <<bRun, cancels, now, client, started, exiting>>

\* A cancellation is consumed by the next popped task of that name.
CheckCancel == /\ tpc = "dispatch"
               /\ cancels' = cancels \ {cur.name}
               /\ tpc' = IF cur.name \in cancels THEN "canceled" ELSE "run"
               /\ UNCHANGED <<bRun, tasks, now, wakeAt, cur, client, started, exiting>>

\* Mutant of RunTimerTask: the flag is not tested.
RunTimerTaskAlways == /\ tpc = "run"
                      /\ started' = started \cup {cur.id}
                      /\ tpc' = "ran"
                      /\ UNCHANGED <<bRun, tasks, cancels, now, wakeAt, cur, client, exiting>>

\* runTask(task.task): it does nothing once the pool is stopped.
RunTimerTask == /\ tpc = "run"
                /\ started' = IF bRun THEN started \cup {cur.id} ELSE started
                /\ tpc' = "ran"
                /\ UNCHANGED <<bRun, tasks, cancels, now, wakeAt, cur, client, exiting>>

\* Mutant of Requeue: a periodic task is put back when the pool runs.
RequeueWhileRunning == /\ tpc \in {"ran", "canceled"}
                       /\ PopOrWait(IF tpc = "ran" /\ cur.repeat /\ bRun
                                    THEN tasks \cup {[cur EXCEPT !.at = cur.at + cur.ival]}
                                    ELSE tasks)
                       /\ UNCHANGED <<bRun, cancels, now, client, started, exiting>>

\* Lock again, put a periodic task back, go on with the inner loop.  (A task
\* that would be due after the end of time is due at the end of time.)
Requeue == /\ tpc \in {"ran", "canceled"}
           /\ PopOrWait(IF tpc = "ran" /\ cur.repeat /\ ~bRun
                        THEN tasks \cup {[cur EXCEPT !.at = cur.at + cur.ival]}
                        ELSE tasks)
           /\ UNCHANGED <<bRun, cancels, now, client, started, exiting>>

TimerThread == ThreadStart \/ Wake \/ CheckCancel \/ RunTimerTask \/ Requeue

-----------------------------------------------------------------------------
Next == \/ \E c \in Clients : RunTask(c) \/ RunAfter(c) \/ RunEvery(c) \/ Spawn(c) \/ AddTimerTask(c)
        \/ \E n \in Names : TimerCancel(n)
        \/ Stop \/ Destruct \/ Tick
        \/ TimerThread

Spec == Init /\ [][Next]_vars

\* Time passes, the timer thread is scheduled, and a client that has passed its
\* test of m_bRun goes on.
FairSpec == /\ Spec
            /\ WF_vars(Tick) /\ WF_vars(TimerThread)
            /\ \A c \in Clients : WF_vars(Spawn(c) \/ AddTimerTask(c))

-----------------------------------------------------------------------------
InLoop == tpc \notin {"start", "exited"}

TaskType == [id : 0..MaxTasks, name : Names \cup (0..MaxTasks), at : 0..(2 * MaxTime),
             ival : 0..MaxTime, repeat : BOOLEAN]
ReqType  == [kind : {"none", "now", "after", "every"}, id : 0..MaxTasks,
             name : Names \cup (0..MaxTasks), delay : 0..MaxTime]

\* The shape of the state.
TypeOK == /\ bRun \in BOOLEAN /\ exiting \in BOOLEAN
          /\ tasks \subseteq TaskType /\ cur \in TaskType
          /\ cancels \subseteq Names
          /\ now \in 0..MaxTime /\ wakeAt \in 0..(2 * MaxTime) \cup {Forever}
          /\ tpc \in {"start", "wait", "dispatch", "run", "ran", "canceled", "exited"}
          /\ req \in [Clients -> ReqType] /\ serial \in 0..MaxTasks
          /\ started \subseteq 1..MaxTasks

\* The timers there are: queued, or in the hands of the timer thread.
Timers == {k \in tasks \cup {cur} : k.id # 0}

\* addTimerTask refuses a name that is queued (line 187), but not the name of
\* the task that the timer thread has popped and puts back later (line 261)
\* without a test.  So two timers can have one name, and cancel stops one of
\* them; never three, and never two in a pool that runs: the second comes from
\* a call that tested m_bRun before stop(), and meets a late timer thread.
TimersOfAName ==
  /\ \A j, k, l \in Timers : j.name = k.name /\ k.name = l.name
                               => j.id = k.id \/ k.id = l.id \/ j.id = l.id
  /\ \A k, l \in Timers : k.name = l.name /\ k.id # l.id => ~bRun

\* No timer function starts once the pool is stopped, even when the timer
\* thread was late for its first test and is working through a queue of due
\* tasks.
NoTimerAfterStop == [][\A k \in tasks \cup {cur} :
                          k.id \in started' \ started => bRun]_vars

\* An accepted periodic timer that nobody cancels is queued, or in the hands of
\* the timer thread, until the end.
PeriodicIsKept == [][\A k \in tasks \cup {cur} :
                        k.repeat /\ k.name \notin cancels /\ tpc # "canceled"
                          => \E l \in tasks' \cup {cur'} : l.id = k.id]_vars

\* Once the timer thread has found the pool stopped at its first test it waits
\* for a flag that nobody sets again: it never ends, and the join in the
\* destructor (line 74) never returns.
LateThreadNeverEnds == [][InLoop => InLoop']_vars

\* The comments of lines 53-54: runAfter executes the function after the delay.
\* A delayed task accepted by a running pool is started unless the pool is
\* stopped.
RunAfterRuns == \A i \in 1..MaxTasks :
                  (\E k \in tasks : k.id = i) ~> (i \in started \/ ~bRun)
=============================================================================
