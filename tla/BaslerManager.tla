--------------------------- MODULE BaslerManager ---------------------------
(***************************************************************************)
(* modules/basler_manager: a thread that makes the cameras, a thread that   *)
(* waits for them, and stop(), which joins the first one with the mutex     *)
(* held that this thread needs.  The second one is not joined.              *)
(*                                                                          *)
(* init() of both classes of cameras calls a method of the camera it has    *)
(* not made (BaslerTrigger.cpp:72, BaslerPatrolIns.cpp:33): with a camera   *)
(* of the configuration attached the process ends there, and a process that *)
(* lives has no camera, so that nothing sets _mb_initialized.               *)
(***************************************************************************)
EXTENDS Naturals

VARIABLES initThread,  \* "pylon", "lock", "list", "unlock" or "ended"
          startThread, \* "none", "top", "test", "wait", "asleep" or "ended"
          _mb_stopped,
          holder,      \* of _m_mutex_init: "none", "init" or "stop"
          stopping,    \* stop(): "no", "lock", "notify", "join", "unlock" or "returned"
          process      \* "runs" or "crashed"

baslerVars == <<initThread, startThread, _mb_stopped, holder, stopping, process>>

\* init() has returned.
Init == /\ initThread = "pylon" /\ startThread = "none" /\ _mb_stopped = FALSE
        /\ holder = "none" /\ stopping = "no" /\ process = "runs"

-----------------------------------------------------------------------------
(* processCameraInitialization.                                             *)

InitThread(from, to) == /\ process = "runs" /\ initThread = from /\ initThread' = to
                        /\ UNCHANGED <<startThread, _mb_stopped, stopping>>

\* Pylon may fail to start.
PylonInitialize == /\ \E to \in {"lock", "ended"} : InitThread("pylon", to)
                   /\ UNCHANGED <<holder, process>>

LockInit == /\ holder = "none" /\ InitThread("lock", "list")
            /\ holder' = "init" /\ UNCHANGED process

\* initCameraList finds no camera of the configuration, or cannot look for them.
ListNone == InitThread("list", "unlock") /\ UNCHANGED <<holder, process>>

\* It finds one.
InitCamera == InitThread("list", "list") /\ process' = "crashed" /\ UNCHANGED holder

UnlockInit == /\ InitThread("unlock", "ended") /\ holder' = "none" /\ UNCHANGED process

-----------------------------------------------------------------------------
(* start() and its thread; the predicate is _mb_stopped.                    *)

StartThread(from, to) == /\ process = "runs" /\ startThread = from /\ startThread' = to
                         /\ UNCHANGED <<initThread, _mb_stopped, holder, process>>

Start == /\ stopping = "no" /\ StartThread("none", "top") /\ UNCHANGED stopping

TestStopped == /\ StartThread("top", IF _mb_stopped THEN "ended" ELSE "wait") /\ UNCHANGED stopping

Sleep == StartThread("wait", "asleep") /\ UNCHANGED stopping

-----------------------------------------------------------------------------
(* stop().                                                                  *)

Stop(from, to) == /\ process = "runs" /\ stopping = from /\ stopping' = to
                  /\ UNCHANGED <<initThread, process>>

StopCalled == Stop("no", "lock") /\ UNCHANGED <<startThread, _mb_stopped, holder>>

LockStop == /\ holder = "none" /\ Stop("lock", "notify") /\ holder' = "stop"
            /\ _mb_stopped' = TRUE /\ UNCHANGED startThread

\* A thread that has read the flag and is not asleep yet misses it.
Notify == /\ Stop("notify", "join")
          /\ startThread' = IF startThread = "asleep" THEN "ended" ELSE startThread
          /\ UNCHANGED <<_mb_stopped, holder>>

JoinInit == /\ initThread = "ended" /\ Stop("join", "unlock")
            /\ UNCHANGED <<startThread, _mb_stopped, holder>>

UnlockStop == /\ Stop("unlock", "returned") /\ holder' = "none"
              /\ UNCHANGED <<startThread, _mb_stopped>>

InitSteps == PylonInitialize \/ LockInit \/ ListNone \/ InitCamera \/ UnlockInit
StopSteps == LockStop \/ Notify \/ JoinInit \/ UnlockStop

Next == InitSteps \/ Start \/ TestStopped \/ Sleep \/ StopCalled \/ StopSteps

\* The threads run, and so does stop() once it is called.
Fairness == WF_baslerVars(InitSteps) /\ WF_baslerVars(StopSteps)

Spec == Init /\ [][Next]_baslerVars /\ Fairness

-----------------------------------------------------------------------------
\* stop() returns, unless it takes the mutex before the thread it joins does:
\* then each waits for the other (BaslerManager.cpp:89, :117).
StopReturnsAfterList ==
  stopping = "lock" ~> \/ stopping = "returned" \/ process = "crashed"
                       \/ stopping = "join" /\ initThread = "lock"
=============================================================================
