---------------------------- MODULE AppFramework ----------------------------
(***************************************************************************)
(* service/AppFramework.h, AppFrameworkImpl.cpp, AppDeclare.h with          *)
(* kits/common/module_base and kits/common/event_thread: creation, start    *)
(* and shutdown of the modules, and the calls between them.                 *)
(*                                                                          *)
(* Modules are created and started on the main thread and then live on the  *)
(* event thread "eventloop_module".  stop() moves each back to the main     *)
(* thread, through a blocking call to the event thread, stops and destroys  *)
(* it.  A call made by an invoke helper reads m_bRunning and a raw module   *)
(* pointer, and dereferences the pointer later; a notify reads the pointers *)
(* only.  A call made on the thread the module lives on runs the slot at    *)
(* once, inside the caller; from another thread it posts an event, and a    *)
(* synchronous one waits until the slot has returned.                       *)
(***************************************************************************)
EXTENDS Integers, Sequences, FiniteSets

CONSTANTS Modules,   \* module classes named in the configuration
          Workers,   \* other threads that call modules
          MaxCalls,  \* bound: number of invokes and notifies made
          None

FrameworkAssumption == MaxCalls \in Nat /\ None \notin Modules

\* Threads that make calls: the event thread from inside a slot, the main thread
\* from inside the start() of a module or a slot that start() called, and from
\* its own event loop.
CallingThreads == Workers \cup {"main", "module"}
Loops   == {"main", "module"}

VARIABLES phase,      \* how far run() is
          todo,       \* modules the current loop of run() has not handled yet
          plugins,    \* m_plugins
          registered, \* modules in m_notifys and m_invokes, which only grow
          exists,     \* module objects that are not destroyed
          started,    \* modules whose start() has returned
          thread,     \* QObject::thread() of each module
          running,    \* m_bRunning
          mpc, cur,   \* where the main thread is, and the module it handles
          queue,      \* posted events of the two event loops
          frames,     \* slots of modules that run on a loop, the innermost first
          call,       \* what each caller is doing
          calls,      \* number of calls made
          dangling    \* history: callers that dereferenced a destroyed module

vars == <<phase, todo, plugins, registered, exists, started, thread, running, mpc, cur, queue,
          frames, call, calls, dangling>>
tables == <<plugins, registered, exists, started>>

Idle == [kind |-> "idle", to |-> None, rest |-> {}]

Init == /\ phase = "create" /\ todo = Modules
        /\ plugins = {} /\ registered = {} /\ exists = {} /\ started = {}
        /\ thread = [m \in Modules |-> "main"]
        /\ running = FALSE
        /\ mpc = "run" /\ cur = None
        /\ queue = [l \in Loops |-> <<>>]
        /\ frames = [l \in Loops |-> <<>>]
        /\ call = [c \in CallingThreads |-> Idle]
        /\ calls = 0
        /\ dangling = {}

Event(kind, m, from) == [kind |-> kind, mod |-> m, from |-> from]
\* A slot that runs: whom its end releases, and what its caller goes on with.
Frame(m, from, rest) == [mod |-> m, from |-> from, rest |-> rest]
\* The events of s for the modules in ms, in their order (a recursive function
\* instead of SelectSeq, so that proofs can unfold it).
EventsOf(ms, s) ==
  LET upTo[i \in 0..Len(s)] == IF i = 0 THEN <<>>
                               ELSE IF s[i].mod \in ms THEN Append(upTo[i - 1], s[i])
                               ELSE upTo[i - 1]
  IN upTo[Len(s)]

OfModule(m, s)    == EventsOf({m}, s)
NotOfModule(m, s) == EventsOf(Modules \ {m}, s)

\* QObject::moveToThread takes the object's pending events along.
MoveEvents(m, from, to) ==
  [queue EXCEPT ![from] = NotOfModule(m, @), ![to] = @ \o OfModule(m, queue[from])]

-----------------------------------------------------------------------------
(* run(): createModules, startModules, exec.                               *)

\* A module whose init() fails is dropped; the others are registered.
CreateModule(m) ==
  /\ phase = "create" /\ m \in todo
  /\ todo' = todo \ {m}
  /\ \/ /\ plugins' = plugins \cup {m}
        /\ registered' = registered \cup {m}
        /\ exists' = exists \cup {m}
     \/ UNCHANGED <<plugins, registered, exists>>
  /\ UNCHANGED <<phase, started, thread, running, mpc, cur, queue, frames, call, calls, dangling>>

Created == /\ phase = "create" /\ todo = {}
           /\ phase' = "start" /\ todo' = plugins
           /\ UNCHANGED <<tables, thread, running, mpc, cur, queue, frames, call, calls, dangling>>

\* module->start() runs on the main thread; what it returns is ignored.
StartModule(m) ==
  /\ phase = "start" /\ mpc = "run" /\ m \in todo
  /\ mpc' = "starting" /\ cur' = m
  /\ UNCHANGED <<phase, todo, tables, thread, running, queue, frames, call, calls, dangling>>

\* start() has returned; the module is moved from the thread it lives on.
StartedModule ==
  /\ mpc = "starting" /\ frames["main"] = <<>> /\ call["main"] = Idle
  /\ todo' = todo \ {cur}
  /\ started' = started \cup {cur}
  /\ thread' = [thread EXCEPT ![cur] = "module"]
  /\ queue' = MoveEvents(cur, "main", "module")
  /\ mpc' = "run" /\ cur' = None
  /\ UNCHANGED <<phase, plugins, registered, exists, running, frames, call, calls, dangling>>

Exec == /\ phase = "start" /\ mpc = "run" /\ todo = {}
        /\ phase' = "exec" /\ running' = TRUE
        /\ UNCHANGED <<todo, tables, thread, mpc, cur, queue, frames, call, calls, dangling>>

-----------------------------------------------------------------------------
(* aboutToQuit: stop(), then EventThread::stop().                          *)

\* Mutant of Quit: the framework still answers getInvokes while it stops.
QuitRunning == /\ phase = "exec" /\ call["main"] = Idle
               /\ phase' = "stop"
               /\ UNCHANGED <<todo, tables, thread, running, mpc, cur, queue, frames, call, calls, dangling>>

Quit == /\ phase = "exec" /\ call["main"] = Idle
        /\ phase' = "stop" /\ running' = FALSE
        /\ UNCHANGED <<todo, tables, thread, mpc, cur, queue, frames, call, calls, dangling>>

\* Mutant of StopModule: the module is destroyed where it lives.
StopModuleInPlace(m) ==
  /\ phase = "stop" /\ mpc = "run" /\ m \in plugins
  /\ cur' = m /\ mpc' = "moved"
  /\ UNCHANGED <<phase, todo, tables, thread, running, queue, frames, call, calls, dangling>>

\* moveTreeToThread to the main thread: a blocking event to the module's loop.
StopModule(m) ==
  /\ phase = "stop" /\ mpc = "run" /\ m \in plugins
  /\ cur' = m /\ mpc' = "moving"
  /\ queue' = [queue EXCEPT !["module"] = Append(@, Event("move", m, "main"))]
  /\ UNCHANGED <<phase, todo, tables, thread, running, frames, call, calls, dangling>>

\* A destroyed module takes its pending events along; Qt releases the callers
\* that wait for one of them.
Released(m) == {c \in CallingThreads : \E i \in DOMAIN queue[thread[m]] :
                   queue[thread[m]][i].mod = m /\ queue[thread[m]][i].from = c}

\* Mutant of EraseModule: callers that wait for the module are not released.
EraseModuleSilently ==
  /\ mpc = "moved"
  /\ plugins' = plugins \ {cur}
  /\ exists' = exists \ {cur}
  /\ queue' = [queue EXCEPT ![thread[cur]] = NotOfModule(cur, @)]
  /\ mpc' = "run" /\ cur' = None
  /\ UNCHANGED <<phase, todo, registered, started, thread, running, frames, call, calls, dangling>>

\* Mutant of EraseModule: the module stays in m_plugins.
EraseModuleKept ==
  /\ mpc = "moved"
  /\ exists' = exists \ {cur}
  /\ queue' = [queue EXCEPT ![thread[cur]] = NotOfModule(cur, @)]
  /\ call' = [c \in CallingThreads |-> IF c \in Released(cur) THEN Idle ELSE call[c]]
  /\ mpc' = "run" /\ cur' = None
  /\ UNCHANGED <<phase, todo, plugins, registered, started, thread, running, frames, calls, dangling>>

\* Back on the main thread: module->stop(), then the erase destroys it.
EraseModule ==
  /\ mpc = "moved"
  /\ plugins' = plugins \ {cur}
  /\ exists' = exists \ {cur}
  /\ queue' = [queue EXCEPT ![thread[cur]] = NotOfModule(cur, @)]
  /\ call' = [c \in CallingThreads |-> IF c \in Released(cur) THEN Idle ELSE call[c]]
  /\ mpc' = "run" /\ cur' = None
  /\ UNCHANGED <<phase, todo, registered, started, thread, running, frames, calls, dangling>>

\* exec() returns; EventThread::stop() quits the event thread and waits for it.
StopEventThreads == /\ phase = "stop" /\ mpc = "run" /\ plugins = {}
                    /\ frames["module"] = <<>>
                    /\ phase' = "done"
                    /\ UNCHANGED <<todo, tables, thread, running, mpc, cur, queue, frames, call, calls, dangling>>

-----------------------------------------------------------------------------
(* The event thread of the modules.                                        *)

\* It executes the move of moveTreeToThread, and the main thread goes on.
HandleMove ==
  /\ phase # "done" /\ frames["module"] = <<>> /\ queue["module"] # <<>>
  /\ LET e == Head(queue["module"])
     IN /\ e.kind = "move"
        /\ thread' = [thread EXCEPT ![e.mod] = "main"]
        /\ queue' = [queue EXCEPT !["module"] = NotOfModule(e.mod, @),
                                  !["main"] = @ \o OfModule(e.mod, Tail(queue["module"]))]
  /\ mpc' = "moved"
  /\ UNCHANGED <<phase, todo, tables, running, cur, frames, call, calls, dangling>>

HandleCall ==
  /\ phase # "done" /\ frames["module"] = <<>> /\ queue["module"] # <<>>
  /\ LET e == Head(queue["module"])
     IN /\ e.kind = "call"
        /\ frames' = [frames EXCEPT !["module"] = <<Frame(e.mod, e.from, Idle)>>]
  /\ queue' = [queue EXCEPT !["module"] = Tail(@)]
  /\ UNCHANGED <<phase, todo, tables, thread, running, mpc, cur, call, calls, dangling>>

\* The innermost slot returns; its caller goes on, a waiting one with the result.
Handled(l) ==
  /\ frames[l] # <<>> /\ call[l] = Idle
  /\ LET f == Head(frames[l])
     IN call' = [c \in CallingThreads |-> IF c = l THEN f.rest
                                          ELSE IF c = f.from THEN Idle ELSE call[c]]
  /\ frames' = [frames EXCEPT ![l] = Tail(@)]
  /\ UNCHANGED <<phase, todo, tables, thread, running, mpc, cur, queue, calls, dangling>>

EventThread == HandleMove \/ HandleCall \/ Handled("module")

MainThread == \/ \E m \in Modules : CreateModule(m) \/ StartModule(m) \/ StopModule(m)
              \/ Created \/ StartedModule \/ Exec \/ EraseModule \/ StopEventThreads
              \/ Handled("main")

-----------------------------------------------------------------------------
(* Calls: invoke..._A, invoke..._S and invoke<notify> of AppDeclare.h.      *)

\* The program has its workers after main has created the modules.
MayCall(c) == /\ call[c] = Idle /\ calls < MaxCalls /\ phase # "create"
              /\ c = "main" => mpc = "starting" \/ phase = "exec"
              /\ c = "module" => frames["module"] # <<>>

\* getInvokes: nothing unless the framework runs and the slot is registered.
GetInvokes(c) ==
  /\ MayCall(c) /\ running
  /\ \E m \in registered, kind \in {"async", "sync"} :
        call' = [call EXCEPT ![c] = [kind |-> kind, to |-> m, rest |-> {}]]
  /\ calls' = calls + 1
  /\ UNCHANGED <<phase, todo, tables, thread, running, mpc, cur, queue, frames, dangling>>

\* getNotifys: the list of modules, whether the framework runs or not.
GetNotifys(c) ==
  /\ MayCall(c) /\ registered # {}
  /\ call' = [call EXCEPT ![c] = [kind |-> "notify", to |-> None, rest |-> registered]]
  /\ calls' = calls + 1
  /\ UNCHANGED <<phase, todo, tables, thread, running, mpc, cur, queue, frames, dangling>>

\* One call of module m by c, who then goes on with rest, or with posted if the
\* slot runs later.  QMetaMethod::invoke without a connection type, and
\* invokeSync by its own test, run the slot at once on the module's own thread.
\* The posted call of invokeSync is a BlockingQueuedConnection, without timeout.
Send(c, m, from, rest, posted) ==
  \/ /\ m \notin exists
     /\ dangling' = dangling \cup {c}
     /\ call' = [call EXCEPT ![c] = rest]
     /\ UNCHANGED <<queue, frames>>
  \/ /\ m \in exists /\ thread[m] = c
     /\ frames' = [frames EXCEPT ![c] = <<Frame(m, None, rest)>> \o @]
     /\ call' = [call EXCEPT ![c] = Idle]
     /\ UNCHANGED <<queue, dangling>>
  \/ /\ m \in exists /\ thread[m] # c
     /\ queue' = [queue EXCEPT ![thread[m]] = Append(@, Event("call", m, from))]
     /\ call' = [call EXCEPT ![c] = posted]
     /\ UNCHANGED <<frames, dangling>>

Touch(c) ==
  /\ \/ /\ call[c].kind = "async"
        /\ Send(c, call[c].to, None, Idle, Idle)
     \/ /\ call[c].kind = "sync"
        /\ Send(c, call[c].to, c, Idle, [call[c] EXCEPT !.kind = "wait"])
  /\ UNCHANGED <<phase, todo, tables, thread, running, mpc, cur, calls>>

\* What is left of a notify after its call of m.
Left(c, m) == IF call[c].rest = {m} THEN Idle ELSE [call[c] EXCEPT !.rest = @ \ {m}]

\* The loop of a notify calls one module after another.
NotifyOne(c) ==
  /\ call[c].kind = "notify"
  /\ \E m \in call[c].rest : Send(c, m, None, Left(c, m), Left(c, m))
  /\ UNCHANGED <<phase, todo, tables, thread, running, mpc, cur, calls>>

Caller(c) == GetInvokes(c) \/ GetNotifys(c) \/ Touch(c) \/ NotifyOne(c)

-----------------------------------------------------------------------------
Next == \/ MainThread \/ Quit
        \/ EventThread
        \/ \E c \in CallingThreads : Caller(c)

Spec == Init /\ [][Next]_vars

\* Threads are scheduled, slots return, and a call that was begun goes on.
\* Nothing forces the user to quit or a thread to make a call.
FairSpec == /\ Spec
            /\ WF_vars(MainThread) /\ WF_vars(EventThread)
            /\ \A c \in CallingThreads : WF_vars(Touch(c) \/ NotifyOne(c))

-----------------------------------------------------------------------------
Waiting == {c \in CallingThreads : call[c].kind = "wait"}

\* The shape of the state.
TypeOK == /\ phase \in {"create", "start", "exec", "stop", "done"}
          /\ todo \subseteq Modules
          /\ plugins \subseteq registered /\ registered \subseteq Modules
          /\ exists \subseteq registered /\ started \subseteq registered
          /\ thread \in [Modules -> Loops]
          /\ running \in BOOLEAN
          /\ mpc \in {"run", "starting", "moving", "moved"}
          /\ cur \in Modules \cup {None}
          /\ \A c \in CallingThreads : /\ call[c].kind \in {"idle", "async", "sync", "notify", "wait"}
                                /\ call[c].to \in Modules \cup {None}
                                /\ call[c].rest \subseteq Modules
          /\ calls \in 0..MaxCalls
          /\ dangling \subseteq CallingThreads

\* The slots that run on loop l, by their modules.
SlotsOn(l) == {frames[l][i].mod : i \in DOMAIN frames[l]}

\* A slot runs on the thread its module lives on, never on two, and the module
\* is there until the slot has returned.
SlotsAtHome == \A l \in Loops : \A m \in SlotsOn(l) : m \in exists /\ thread[m] = l

\* Before its start() has returned, however early modules and threads notify a
\* module, its slots run only inside the start() of a module, on the main thread
\* (a direct call); what other threads send it waits until it was moved.
EarlySlotsInStart ==
  \A l \in Loops : \A m \in SlotsOn(l) \ started : l = "main" /\ mpc = "starting"

\* A module is destroyed on the main thread, and not while it runs there.
DestroyedAtHome == mpc = "moved" => thread[cur] = "main" /\ frames["main"] = <<>>

\* Where and when the slots of a module run, from its start to its destruction.
SlotsInLife == SlotsAtHome /\ EarlySlotsInStart /\ DestroyedAtHome

\* The event thread never waits for the main thread, which may be waiting for
\* it in moveTreeToThread: a slot that calls a module synchronously finds it on
\* its own thread even while the modules are being moved away.
NoCrossWait == call["module"].kind # "wait"

\* Quitting ends: every module is stopped and destroyed and run() returns.
ShutdownCompletes == phase = "stop" ~> phase = "done"

\* Every synchronous call returns.
SyncCallReturns == \A c \in CallingThreads : c \in Waiting ~> c \notin Waiting

\* AppFramework.h:31: a notify goes to the registered modules, and a module
\* is registered while it exists.
CalledModulesExist == dangling = {}
=============================================================================
