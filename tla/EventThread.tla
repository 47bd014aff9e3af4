----------------------------- MODULE EventThread -----------------------------
(***************************************************************************)
(* kits/common/event_thread/EventThread.h: the table of named event loops.  *)
(* thread(name) looks a loop up under a shared lock and, when it is absent, *)
(* creates one under the unique lock without looking again; emplace keeps   *)
(* the first.  stop() holds the unique lock while it quits the loops and    *)
(* waits for each to end.                                                   *)
(***************************************************************************)
EXTENDS Integers, FiniteSets

CONSTANTS Callers,   \* threads, or handlers, that call thread()
          Names,     \* names of event loops
          Asks,      \* the names each caller asks for
          Home,      \* the loop a caller's handler runs on, None for other threads
          QThreads,  \* QThread objects the heap can hold (bounds the run)
          None

ASSUME EventThreadAssumption == /\ Asks \in [Callers -> SUBSET Names]
                                /\ Home \in [Callers -> Names \cup {None}]
                                /\ None \notin Names \cup QThreads

VARIABLES table,     \* m_mapEvents
          life,      \* state of each QThread
          writer,    \* stop() holds the unique lock
          pc, want,  \* where each caller is and the name it asks for
          got,       \* the thread each caller was given last, by name
          stopping   \* where stop() is

vars == <<table, life, writer, pc, want, got, stopping>>

Init == /\ table = [n \in Names |-> None]
        /\ life = [q \in QThreads |-> "new"]
        /\ writer = FALSE
        /\ pc = [c \in Callers |-> "idle"]
        /\ want = [c \in Callers |-> None]
        /\ got = [c \in Callers |-> [n \in Names |-> None]]
        /\ stopping = "no"

\* A handler runs only on a loop that runs.
CanRun(c) == Home[c] # None =>
               /\ table[Home[c]] # None
               /\ life[table[Home[c]]] = "running"

\* thread(n) is called, and needs the lock.
Ask(c) ==
  /\ pc[c] = "idle" /\ CanRun(c)
  /\ \E n \in Asks[c] : want' = [want EXCEPT ![c] = n]
  /\ pc' = [pc EXCEPT ![c] = "find"]
  /\ UNCHANGED <<table, life, writer, got, stopping>>

\* The lookup under the shared lock.
Find(c) ==
  /\ pc[c] = "find" /\ ~writer
  /\ IF table[want[c]] # None
     THEN /\ got' = [got EXCEPT ![c][want[c]] = table[want[c]]]
          /\ pc' = [pc EXCEPT ![c] = "idle"]
     ELSE /\ pc' = [pc EXCEPT ![c] = "create"]
          /\ UNCHANGED got
  /\ UNCHANGED <<table, life, writer, want, stopping>>

\* Mutant of Create: the new thread replaces the one in the table.
CreateAssign(c) ==
  /\ pc[c] = "create" /\ ~writer
  /\ \E q \in QThreads :
        /\ life[q] = "new"
        /\ table' = [table EXCEPT ![want[c]] = q]
        /\ life' = [p \in QThreads |-> IF p = q THEN "running"
                                       ELSE IF p = table[want[c]] THEN "aborted" ELSE life[p]]
        /\ got' = [got EXCEPT ![c][want[c]] = q]
  /\ pc' = [pc EXCEPT ![c] = "idle"]
  /\ UNCHANGED <<writer, want, stopping>>

\* The creation under the unique lock.  If another caller was faster, emplace
\* inserts nothing and the running new thread is destroyed.
Create(c) ==
  LET n == want[c]
  IN /\ pc[c] = "create" /\ ~writer
     /\ \E q \in QThreads :
           /\ life[q] = "new"
           /\ table' = [table EXCEPT ![n] = IF @ = None THEN q ELSE @]
           /\ life' = [life EXCEPT ![q] = IF table[n] = None THEN "running" ELSE "aborted"]
           /\ got' = [got EXCEPT ![c][n] = table'[n]]
     /\ pc' = [pc EXCEPT ![c] = "idle"]
     /\ UNCHANGED <<writer, want, stopping>>

StopLock == /\ stopping = "no" /\ ~writer
            /\ stopping' = "waiting" /\ writer' = TRUE
            /\ UNCHANGED <<table, life, pc, want, got>>

\* Mutant of StopOne: wait() without quit().
StopOneNoQuit(n) == /\ stopping = "waiting"
                    /\ table[n] # None /\ life[table[n]] = "running"
                    /\ \A c \in Callers : Home[c] = n => pc[c] = "idle"
                    /\ UNCHANGED <<table, life, writer, pc, want, got, stopping>>

\* quit() and wait(): a loop ends when its handler has returned.
StopOne(n) == /\ stopping = "waiting"
              /\ table[n] # None /\ life[table[n]] = "running"
              /\ \A c \in Callers : Home[c] = n => pc[c] = "idle"
              /\ life' = [life EXCEPT ![table[n]] = "finished"]
              /\ UNCHANGED <<table, writer, pc, want, got, stopping>>

\* Mutant of StopClear: the table is cleared before the loops have ended.
StopClearEarly == /\ stopping = "waiting"
                  /\ life' = [q \in QThreads |-> IF \E n \in Names : table[n] = q
                                                 THEN IF life[q] = "running" THEN "aborted" ELSE "deleted"
                                                 ELSE life[q]]
                  /\ table' = [n \in Names |-> None]
                  /\ writer' = FALSE /\ stopping' = "done"
                  /\ UNCHANGED <<pc, want, got>>

\* m_mapEvents.clear() destroys the threads.
StopClear == /\ stopping = "waiting"
             /\ \A n \in Names : table[n] # None => life[table[n]] = "finished"
             /\ life' = [q \in QThreads |-> IF \E n \in Names : table[n] = q THEN "deleted" ELSE life[q]]
             /\ table' = [n \in Names |-> None]
             /\ writer' = FALSE /\ stopping' = "done"
             /\ UNCHANGED <<pc, want, got>>

Stop == StopLock \/ (\E n \in Names : StopOne(n)) \/ StopClear

Next == (\E c \in Callers : Ask(c) \/ Find(c) \/ Create(c)) \/ Stop

Spec == Init /\ [][Next]_vars

\* stop() is called and goes on when it can.
FairSpec == Spec /\ WF_vars(Stop)

-----------------------------------------------------------------------------
\* The shape of the state.
TypeOK == /\ table \in [Names -> QThreads \cup {None}]
          /\ life \in [QThreads -> {"new", "running", "finished", "deleted", "aborted"}]
          /\ writer \in BOOLEAN
          /\ pc \in [Callers -> {"idle", "find", "create"}]
          /\ want \in [Callers -> Names \cup {None}]
          /\ \A c \in Callers : pc[c] # "idle" => want[c] \in Asks[c]
          /\ got \in [Callers -> [Names -> QThreads \cup {None}]]
          /\ stopping \in {"no", "waiting", "done"}

\* All callers of one name work with one event loop: what a caller was given
\* while the table holds a loop of that name is that loop, unless the caller
\* was given it before stop().
OneLoopPerName ==
  \A c \in Callers, n \in Names :
     got[c][n] # None /\ life[got[c][n]] # "deleted" => got[c][n] = table[n]

\* A loop that some caller was given is never destroyed while it runs (Qt ends
\* the program when a running QThread is destroyed).  The second thread of a
\* lost race for a name is: see Create.
NoLoopInUseDestroyed ==
  \A c \in Callers, n \in Names : got[c][n] # None => life[got[c][n]] # "aborted"

\* A handler that is inside thread() while stop() holds the lock and waits for
\* the loop of the handler.
HandlerAsks == writer /\ \E c \in Callers : Home[c] # None /\ pc[c] # "idle"

\* stop() ends (AppFrameworkImpl.cpp:57) unless a handler asks for a loop before
\* its own has ended; then it never does, and nobody gets a loop any more.
StopReturns == /\ stopping = "waiting" ~> stopping = "done" \/ HandlerAsks
               /\ [](HandlerAsks => []HandlerAsks)
=============================================================================
