-------------------------- MODULE ConcurrentSniffer --------------------------
(***************************************************************************)
(* kits/common/thread_pool/ConcurrentSniffer.h: every task started by       *)
(* ConcurrentPool::runTask gets a QFutureWatcher from an object pool and an *)
(* entry in aliveTasks_; the watcher's finished signal removes the entry.   *)
(* When the registry reaches its limit it is logged and cleared.            *)
(*                                                                          *)
(* A watcher goes back to the pool when its last shared_ptr is dropped: the *)
(* registry's, or the local one of acquire; a full pool destroys it.  The   *)
(* finished handler keeps a raw pointer.  The signal is emitted by the      *)
(* event thread that owns the watchers; Qt posts it when the watched future *)
(* finishes.  There is one acquire per task, so a task stands for its id.   *)
(*                                                                          *)
(* Any thread calls acquire, so several are in getObject of the lock-free   *)
(* pool at once, which ObjectPool.tla shows to break.  A getter loads the   *)
(* head in one step and swaps it in a later one.  If the node it loaded was *)
(* popped (and deleted) meanwhile, its swap fails; if a node was allocated  *)
(* since, perhaps at that address, its swap may succeed and set the head to *)
(* a stale successor: the pool is damaged.  (Which node another getter      *)
(* popped is not told apart: any pop counts.  A damaged pool may also give  *)
(* null pointers or crash; nothing is claimed of it.)                       *)
(***************************************************************************)
EXTENDS Integers, FiniteSets

CONSTANTS Threads,   \* threads that call runTask
          Tasks,     \* futures: the ids 1, 2, ... that nextId_ gives them
          Watchers,  \* FutureWatcherInfo objects the heap can hold
          MaxAlive,  \* maxAliveCount_
          MaxFree,   \* m_maxCount of the pool
          None

ASSUME SnifferAssumption == /\ MaxAlive \in Nat \ {0} /\ MaxFree \in Nat
                            /\ IsFiniteSet(Threads) /\ Tasks \subseteq Nat
                            /\ None \notin Tasks \cup Watchers

VARIABLES future,   \* state of each task
          pc, task, watcher,   \* each thread inside acquire, its future and its local obj
          alive,    \* aliveTasks_: the watcher registered under an id
          free,     \* pool_: watchers parked in the object pool
          head,     \* what became of the node a getter loaded as the head
          conn,     \* ids whose handler is connected to a watcher's finished signal
          watches,  \* the future a watcher was given by setFuture
          posted,   \* watchers with a finished event in the event thread's queue
          epc, ew, eid,        \* the event thread, the watcher and id it is handling
          dangling, \* the watcher it is handling was destroyed meanwhile
          damaged,  \* history: a swap with a stale successor succeeded
          cleared,  \* history: the registry was cleared
          notFound  \* history: ids whose removal found no entry

acquiring == <<pc, task, watcher>>
pool      == <<free, head, damaged>>
event     == <<epc, ew, eid>>
history   == <<cleared, notFound>>
snifferVars == <<future, pc, task, watcher, alive, free, head, conn, watches, posted, epc, ew, eid,
                 dangling, damaged, cleared, notFound>>

SnifferInit == /\ future = [k \in Tasks |-> "new"]
               /\ pc = [t \in Threads |-> "idle"]
               /\ task = [t \in Threads |-> None]
               /\ watcher = [t \in Threads |-> None]
               /\ alive = [k \in Tasks |-> None]
               /\ free = {}
               /\ head = [t \in Threads |-> "kept"]
               /\ conn = [w \in Watchers |-> {}]
               /\ watches = [w \in Watchers |-> None]
               /\ posted = {}
               /\ epc = "idle" /\ ew = None /\ eid = None
               /\ dangling = FALSE /\ damaged = FALSE
               /\ cleared = FALSE /\ notFound = {}

Goto(t, label) == pc' = [pc EXCEPT ![t] = label]

Registered == {k \in Tasks : alive[k] # None}
Local      == {watcher[t] : t \in Threads} \ {None}
InRegistry == {alive[k] : k \in Registered}
Existing   == free \cup Local \cup InRegistry

-----------------------------------------------------------------------------
(* The pool.                                                               *)

\* The counter is decremented after the swap: who has just been given a
\* watcher may still be counted.
Counted == Cardinality(free) + Cardinality({t \in Threads : pc[t] = "register"})

\* The last references to the watchers of S go: each is parked, or destroyed
\* when the counter says that the pool is full.  A parked watcher gets a new
\* node, perhaps at the address of one that was popped; a destroyed one leaves
\* its future, its connections and its posted events.
PutBack(S) ==
  \E D \in SUBSET S :
    /\ D # {} => Counted + Cardinality(S \ D) >= MaxFree
    /\ free' = free \cup (S \ D)
    /\ head' = IF S \ D = {} THEN head
               ELSE [t \in Threads |-> IF head[t] = "popped" THEN "reused" ELSE head[t]]
    /\ conn' = [w \in Watchers |-> IF w \in D THEN {} ELSE conn[w]]
    /\ watches' = [w \in Watchers |-> IF w \in D THEN None ELSE watches[w]]
    /\ posted' = posted \ D
    /\ dangling' = (dangling \/ (epc # "idle" /\ ew \in D))

\* acquire goes on with the watcher it was given, disconnected by the reset
\* function.
Lend(t, w) == /\ watcher' = [watcher EXCEPT ![t] = w]
              /\ conn' = [conn EXCEPT ![w] = {}]
              /\ Goto(t, "register")

\* A successful swap: the nodes other getters have loaded may be gone.
PopHead(t) == head' = [u \in Threads |-> IF u = t THEN "kept"
                                        ELSE IF pc[u] = "swap" /\ head[u] = "kept" THEN "popped"
                                        ELSE head[u]]

-----------------------------------------------------------------------------
(* runTask: QtConcurrent::run, then acquire.  Ids are given in order.      *)

Launch(t) == /\ pc[t] = "idle"
             /\ \E k \in Tasks : /\ future[k] = "new" /\ \A j \in Tasks : j < k => future[j] # "new"
                                 /\ future' = [future EXCEPT ![k] = "running"]
                                 /\ task' = [task EXCEPT ![t] = k]
             /\ Goto(t, "get")
             /\ UNCHANGED <<watcher, alive, pool, conn, watches, posted, event, dangling, history>>

\* popNode loads the head; an empty pool makes getObject build a watcher.
LoadHead(t) == /\ pc[t] = "get"
               /\ Goto(t, IF free = {} THEN "build" ELSE "swap")
               /\ UNCHANGED <<future, task, watcher, alive, pool, conn, watches, posted, event, dangling, history>>

Build(t) == /\ pc[t] = "build"
            /\ \E w \in Watchers \ Existing : /\ Lend(t, w)
                                             /\ watches' = [watches EXCEPT ![w] = None]
                                             /\ posted' = posted \ {w}
            /\ UNCHANGED <<future, task, alive, pool, event, dangling, history>>

\* Mutant of Swap: a watcher that is lent stays in the pool.
SwapKept(t) ==
  /\ pc[t] = "swap" /\ head[t] = "kept"
  /\ \E w \in free : Lend(t, w)
  /\ UNCHANGED <<future, task, alive, pool, watches, posted, event, dangling, history>>

\* Mutant of Swap: the reset function does not disconnect.
SwapConnected(t) ==
  /\ pc[t] = "swap" /\ head[t] = "kept"
  /\ \E w \in free : /\ watcher' = [watcher EXCEPT ![t] = w]
                     /\ free' = free \ {w}
  /\ Goto(t, "register") /\ PopHead(t)
  /\ UNCHANGED <<future, task, alive, conn, watches, posted, event, dangling, damaged, history>>

\* The compare-and-swap of popNode with a head that is still in the pool.
Swap(t) ==
  /\ pc[t] = "swap" /\ head[t] = "kept"
  /\ \E w \in free : Lend(t, w) /\ free' = free \ {w}
  /\ PopHead(t)
  /\ UNCHANGED <<future, task, alive, watches, posted, event, dangling, damaged, history>>

\* The head is another node: load it again.
SwapFails(t) ==
  /\ pc[t] = "swap" /\ head[t] # "kept"
  /\ head' = [head EXCEPT ![t] = "kept"]
  /\ Goto(t, "get")
  /\ UNCHANGED <<future, task, watcher, alive, free, conn, watches, posted, event, dangling, damaged, history>>

\* The head is another node at the same address: the swap succeeds and leaves
\* the successor that the deleted node had.  Whatever the pool then refers to,
\* lent watchers or none, it gives to later getters.
SwapStale(t) ==
  /\ pc[t] = "swap" /\ head[t] = "reused"
  /\ \E w \in free : Lend(t, w)
  /\ free' \in SUBSET Watchers
  /\ PopHead(t)
  /\ damaged' = TRUE
  /\ UNCHANGED <<future, task, alive, watches, posted, event, dangling, history>>

\* aliveTask under mtxAlive_.  At the limit logTasks clears the registry, its
\* references go, and the watchers that no acquire holds return to the pool.
Register(t) ==
  LET added == [alive EXCEPT ![task[t]] = watcher[t]]
      full  == Cardinality({k \in Tasks : added[k] # None}) >= MaxAlive
  IN /\ pc[t] = "register"
     /\ IF full
        THEN /\ alive' = [k \in Tasks |-> None]
             /\ PutBack(InRegistry \ Local)
             /\ cleared' = TRUE
        ELSE /\ alive' = added
             /\ UNCHANGED <<free, head, conn, watches, posted, dangling, cleared>>
     /\ Goto(t, "connect")
     /\ UNCHANGED <<future, task, watcher, damaged, event, notFound>>

Connect(t) == /\ pc[t] = "connect"
              /\ conn' = [conn EXCEPT ![watcher[t]] = @ \cup {task[t]}]
              /\ Goto(t, "setFuture")
              /\ UNCHANGED <<future, task, watcher, alive, pool, watches, posted, event, dangling, history>>

\* setFuture leaves the former future, whose pending event Qt removes; a
\* future that has finished already posts its event at once.
SetFuture(t) ==
  LET w == watcher[t]
  IN /\ pc[t] = "setFuture"
     /\ watches' = [watches EXCEPT ![w] = task[t]]
     /\ posted' = IF future[task[t]] = "done" THEN posted \cup {w} ELSE posted \ {w}
     /\ Goto(t, "return")
     /\ UNCHANGED <<future, task, watcher, alive, pool, conn, event, dangling, history>>

\* acquire returns and drops its shared_ptr.
Return(t) == /\ pc[t] = "return"
             /\ PutBack({watcher[t]} \ (InRegistry \cup {watcher[u] : u \in Threads \ {t}}))
             /\ watcher' = [watcher EXCEPT ![t] = None]
             /\ task' = [task EXCEPT ![t] = None]
             /\ Goto(t, "idle")
             /\ UNCHANGED <<future, alive, damaged, event, history>>

-----------------------------------------------------------------------------
(* The future and the event thread.                                        *)

Finish(k) == /\ future[k] = "running"
             /\ future' = [future EXCEPT ![k] = "done"]
             /\ posted' = posted \cup {w \in Watchers : watches[w] = k}
             /\ UNCHANGED <<acquiring, alive, pool, conn, watches, event, dangling, history>>

\* The event thread takes a finished event from its queue ...
Dequeue == /\ epc = "idle"
           /\ \E w \in posted : ew' = w /\ posted' = posted \ {w}
           /\ epc' = "emit"
           /\ UNCHANGED <<future, acquiring, alive, pool, conn, watches, eid, dangling, history>>

\* ... and emits the signal: no handler, or removeTask under mtxAlive_.
EmitNobody == /\ epc = "emit" /\ conn[ew] = {}
              /\ epc' = "idle" /\ ew' = None /\ dangling' = FALSE
              /\ UNCHANGED <<future, acquiring, alive, pool, conn, watches, posted, eid, history>>

\* Mutant of RemoveTask: the reference is dropped, the entry stays.
RemoveTaskKeepsEntry ==
  /\ epc = "emit"
  /\ \E k \in conn[ew] :
        /\ eid' = k
        /\ IF alive[k] # None
           THEN PutBack({alive[k]} \ Local) /\ UNCHANGED notFound
           ELSE /\ notFound' = notFound \cup {k}
                /\ UNCHANGED <<free, head, conn, watches, posted, dangling>>
  /\ epc' = "future"
  /\ UNCHANGED <<future, acquiring, alive, damaged, ew, cleared>>

RemoveTask ==
  /\ epc = "emit"
  /\ \E k \in conn[ew] :
        /\ eid' = k
        /\ IF alive[k] # None
           THEN /\ alive' = [alive EXCEPT ![k] = None]
                /\ PutBack({alive[k]} \ (Local \cup {alive[j] : j \in Registered \ {k}}))
                /\ UNCHANGED notFound
           ELSE /\ notFound' = notFound \cup {k}
                /\ UNCHANGED <<alive, free, head, conn, watches, posted, dangling>>
  /\ epc' = "future"
  /\ UNCHANGED <<future, acquiring, damaged, ew, cleared>>

\* The rest of the handler reads watcher->future() through the raw pointer, to
\* log how the future ended: of a watcher that is parked, or lent again, or,
\* when dangling, of memory that was freed.
ReadFuture == /\ epc = "future"
              /\ epc' = "idle" /\ ew' = None /\ eid' = None /\ dangling' = FALSE
              /\ UNCHANGED <<future, acquiring, alive, pool, conn, watches, posted, history>>

EventThread == Dequeue \/ EmitNobody \/ RemoveTask \/ ReadFuture
GetWatcher(t) == LoadHead(t) \/ Build(t) \/ Swap(t) \/ SwapFails(t) \/ SwapStale(t)
Acquire(t) == GetWatcher(t) \/ Register(t) \/ Connect(t) \/ SetFuture(t) \/ Return(t)

SnifferNext == \/ \E t \in Threads : Launch(t) \/ Acquire(t)
               \/ \E k \in Tasks : Finish(k)
               \/ EventThread

SnifferSpec == SnifferInit /\ [][SnifferNext]_snifferVars

\* Threads inside acquire go on, tasks finish, the event thread runs its queue.
SnifferFairSpec == /\ SnifferSpec
                   /\ \A t \in Threads : WF_snifferVars(Acquire(t))
                   /\ \A k \in Tasks : WF_snifferVars(Finish(k))
                   /\ WF_snifferVars(EventThread)

-----------------------------------------------------------------------------
\* The shape of the state.
SnifferTypeOK == /\ future \in [Tasks -> {"new", "running", "done"}]
                 /\ pc \in [Threads -> {"idle", "get", "build", "swap", "register", "connect",
                                        "setFuture", "return"}]
                 /\ task \in [Threads -> Tasks \cup {None}]
                 /\ watcher \in [Threads -> Watchers \cup {None}]
                 /\ alive \in [Tasks -> Watchers \cup {None}]
                 /\ free \subseteq Watchers /\ posted \subseteq Watchers
                 /\ conn \in [Watchers -> SUBSET Tasks]
                 /\ watches \in [Watchers -> Tasks \cup {None}]
                 /\ epc \in {"idle", "emit", "future"}
                 /\ ew \in Watchers \cup {None} /\ eid \in Tasks \cup {None}
                 /\ head \in [Threads -> {"kept", "popped", "reused"}]
                 /\ dangling \in BOOLEAN /\ damaged \in BOOLEAN /\ cleared \in BOOLEAN
                 /\ notFound \subseteq Tasks

\* A watcher is parked, or registered under one id, or held by one acquire
\* (which may have registered it): the pool lends no watcher twice.
OneOwner ==
  /\ free \cap (Local \cup InRegistry) = {}
  /\ \A j, k \in Registered : alive[j] = alive[k] => j = k
  /\ \A t, u \in Threads : watcher[t] # None /\ watcher[t] = watcher[u] => t = u

\* The finished handler reads its watcher after removeTask has dropped the last
\* reference (line 64).  The watcher is destroyed under it only if as many
\* others exist as the pool keeps.
DestroyedWhenFull == dangling => Cardinality(Existing) >= MaxFree

\* Through clears, late removals and overlapping getters, as long as no getter
\* has swapped in a stale successor: a watcher has one owner, and the pool
\* destroys one that is still being read only when it is full.
WatcherHasOneOwner == ~damaged => OneOwner /\ DestroyedWhenFull

\* The registry never reaches its limit between two calls of aliveTask.
RegistryBounded == Cardinality(Registered) < MaxAlive

\* Watchers are built only when the pool is seen empty, so there are never more
\* than the registry and the threads can hold.  A pool that keeps so many
\* destroys none; the code's pool keeps MaxAlive (1024 both), which is enough
\* for one thread.
WatchersBounded == ~damaged => Cardinality(Existing) < MaxAlive + Cardinality(Threads)

\* As long as the registry has not been cleared nor the pool damaged, a task
\* that is running, or finished with its event still to come, keeps its entry,
\* and no removal reports a missing one (line 143).
EntryUntilFinished ==
  ~cleared /\ ~damaged =>
    /\ notFound = {}
    /\ \A t \in Threads : pc[t] \in {"connect", "setFuture", "return"}
          => task[t] \in Registered \/ future[task[t]] = "done"
    /\ \A w \in Watchers : watches[w] # None /\ future[watches[w]] = "running"
          => watches[w] \in Registered

\* The table of running tasks is bounded, and complete until it is cleared.
RegistrySound == RegistryBounded /\ WatchersBounded /\ EntryUntilFinished

\* Every entry leaves the registry: none waits for an event that never comes.
EntryIsRemoved == \A k \in Tasks : k \in Registered ~> k \notin Registered \/ damaged
=============================================================================
