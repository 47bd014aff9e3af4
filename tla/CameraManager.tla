--------------------------- MODULE CameraManager ---------------------------
(***************************************************************************)
(* modules/baumer_manager: a thread looks for the driver's system until it  *)
(* has initialised an interface; a second one waits for that, then names    *)
(* and connects the cameras; the driver reports cameras that come and go on *)
(* a thread of its own; stop() joins both threads and closes everything.    *)
(*                                                                          *)
(* None of the map of cameras and the three flags is guarded: an action is  *)
(* one access, or one search.  A lookup that creates a null camera ends the *)
(* process.  What a camera is named and connected to is left out.           *)
(***************************************************************************)
EXTENDS Integers, FiniteSets

CONSTANTS Cameras,      \* those of the configuration
          MaxEvents,    \* bound: cameras plugged in or out
          MaxSearches   \* bound: searches that find no interface

CameraAssumption == {MaxEvents, MaxSearches} \subseteq Nat

VARIABLES plugged,    \* cameras that the driver can open
          events,
          searches,
          system,     \* the system is open and plug events are registered
          m_bInit, m_bStart, m_bStop,
          looker,     \* m_thInit_: "search", "close" or "ended"
          starter,    \* m_thread_start_: "none", "wait", "name" or "ended"
          unnamed,    \* cameras that the starter has not looked up
          naming,     \* the one it has found and is about to name, if any
          m_mapCamera,
          stopping,   \* stop(): "no", "looker", "starter", "clear", "close" or "done"
          crashed

managerVars == <<plugged, events, searches, system, m_bInit, m_bStart, m_bStop, looker,
                 starter, unnamed, naming, m_mapCamera, stopping, crashed>>

Init == /\ plugged \in SUBSET Cameras /\ events = 0 /\ searches = 0
        /\ system = FALSE
        /\ m_bInit = FALSE /\ m_bStart = FALSE /\ m_bStop = FALSE
        /\ looker = "search" /\ starter = "none"
        /\ unnamed = Cameras /\ naming = {}
        /\ m_mapCamera = {}
        /\ stopping = "no" /\ crashed = FALSE

\* searchCamera: one camera that can be opened, or none when it does not start.
SearchCamera(S) == m_mapCamera' \in {m_mapCamera} \cup {m_mapCamera \cup {c} : c \in S}

-----------------------------------------------------------------------------
\* initSystem finds an interface, registers the plug events, and searches.
InitSystem ==
  /\ ~crashed /\ looker = "search" /\ ~system
  /\ system' = TRUE
  /\ UNCHANGED <<plugged, events, searches, m_bInit, m_bStart, m_bStop, looker, starter,
                 unnamed, naming, m_mapCamera, stopping, crashed>>

InitInterface ==
  /\ ~crashed /\ looker = "search" /\ system /\ ~m_bInit
  /\ SearchCamera(plugged \ m_mapCamera)
  /\ m_bInit' = TRUE
  /\ UNCHANGED <<plugged, events, searches, system, m_bStart, m_bStop, looker, starter,
                 unnamed, naming, stopping, crashed>>

\* No interface, or the driver throws: what is open is closed after it.
InitFails ==
  /\ ~crashed /\ looker = "search" /\ ~m_bInit /\ searches < MaxSearches
  /\ searches' = searches + 1 /\ looker' = "close"
  /\ UNCHANGED <<plugged, events, system, m_bInit, m_bStart, m_bStop, starter, unnamed,
                 naming, m_mapCamera, stopping, crashed>>

LookerDeInit ==
  /\ ~crashed /\ looker = "close"
  /\ looker' = "search" /\ system' = FALSE
  /\ UNCHANGED <<plugged, events, searches, m_bInit, m_bStart, m_bStop, starter, unnamed,
                 naming, m_mapCamera, stopping, crashed>>

\* Mutant of LookerEnds: the flag is set and the thread looks on.
LookerEndsNot ==
  /\ ~crashed /\ looker = "search" /\ m_bInit
  /\ m_bStart' = TRUE /\ looker' = looker
  /\ UNCHANGED <<plugged, events, searches, system, m_bInit, m_bStop, starter, unnamed,
                 naming, m_mapCamera, stopping, crashed>>

LookerEnds ==
  /\ ~crashed /\ looker = "search" /\ m_bInit
  /\ m_bStart' = TRUE /\ looker' = "ended"
  /\ UNCHANGED <<plugged, events, searches, system, m_bInit, m_bStop, starter, unnamed,
                 naming, m_mapCamera, stopping, crashed>>

-----------------------------------------------------------------------------
Start == /\ starter = "none" /\ stopping = "no" /\ starter' = "wait"
         /\ UNCHANGED <<plugged, events, searches, system, m_bInit, m_bStart, m_bStop, looker,
                        unnamed, naming, m_mapCamera, stopping, crashed>>

StarterWakes ==
  /\ ~crashed /\ starter = "wait" /\ (m_bStart \/ m_bStop)
  /\ starter' = IF m_bStop THEN "ended" ELSE "name"
  /\ UNCHANGED <<plugged, events, searches, system, m_bInit, m_bStart, m_bStop, looker,
                 unnamed, naming, m_mapCamera, stopping, crashed>>

\* find()
LookUp(c) ==
  /\ ~crashed /\ starter = "name" /\ naming = {} /\ c \in unnamed
  /\ unnamed' = unnamed \ {c}
  /\ naming' = {c} \cap m_mapCamera
  /\ UNCHANGED <<plugged, events, searches, system, m_bInit, m_bStart, m_bStop, looker,
                 starter, m_mapCamera, stopping, crashed>>

\* operator[] creates a null camera if the driver has removed it since.
NameCamera(c) ==
  /\ ~crashed /\ naming = {c}
  /\ naming' = {}
  /\ crashed' = (c \notin m_mapCamera)
  /\ UNCHANGED <<plugged, events, searches, system, m_bInit, m_bStart, m_bStop, looker,
                 starter, unnamed, m_mapCamera, stopping>>

StarterEnds ==
  /\ ~crashed /\ starter = "name" /\ naming = {} /\ unnamed = {}
  /\ starter' = "ended"
  /\ UNCHANGED <<plugged, events, searches, system, m_bInit, m_bStart, m_bStop, looker,
                 unnamed, naming, m_mapCamera, stopping, crashed>>

-----------------------------------------------------------------------------
\* The driver's thread, which calls PnPEventHandler while it is registered.
Unplug(c) ==
  /\ ~crashed /\ c \in plugged /\ events < MaxEvents
  /\ events' = events + 1 /\ plugged' = plugged \ {c}
  /\ m_mapCamera' = IF system THEN m_mapCamera \ {c} ELSE m_mapCamera
  /\ UNCHANGED <<searches, system, m_bInit, m_bStart, m_bStop, looker, starter, unnamed,
                 naming, stopping, crashed>>

Plug(c) ==
  /\ ~crashed /\ c \notin plugged /\ events < MaxEvents
  /\ events' = events + 1 /\ plugged' = plugged \cup {c}
  /\ IF system THEN SearchCamera({c}) ELSE m_mapCamera' = m_mapCamera
  /\ UNCHANGED <<searches, system, m_bInit, m_bStart, m_bStop, looker, starter, unnamed,
                 naming, stopping, crashed>>

-----------------------------------------------------------------------------
Stop ==
  /\ stopping = "no" /\ stopping' = "looker"
  /\ m_bStop' = TRUE
  /\ UNCHANGED <<plugged, events, searches, system, m_bInit, m_bStart, looker, starter,
                 unnamed, naming, m_mapCamera, crashed>>

Join ==
  /\ ~crashed
  /\ \/ stopping = "looker" /\ looker = "ended" /\ stopping' = "starter"
     \/ stopping = "starter" /\ starter \in {"none", "ended"} /\ stopping' = "clear"
  /\ UNCHANGED <<plugged, events, searches, system, m_bInit, m_bStart, m_bStop, looker,
                 starter, unnamed, naming, m_mapCamera, crashed>>

CloseCameras ==
  /\ ~crashed /\ stopping = "clear" /\ stopping' = "close"
  /\ m_mapCamera' = {}
  /\ UNCHANGED <<plugged, events, searches, system, m_bInit, m_bStart, m_bStop, looker,
                 starter, unnamed, naming, crashed>>

DeInit ==
  /\ ~crashed /\ stopping = "close" /\ stopping' = "done"
  /\ system' = FALSE
  /\ UNCHANGED <<plugged, events, searches, m_bInit, m_bStart, m_bStop, looker, starter,
                 unnamed, naming, m_mapCamera, crashed>>

Looker  == InitSystem \/ InitInterface \/ LookerDeInit \/ LookerEnds
Starter == StarterWakes \/ StarterEnds \/ \E c \in Cameras : LookUp(c) \/ NameCamera(c)
Stopper == Join \/ CloseCameras \/ DeInit

Next == \/ Looker \/ InitFails \/ Start \/ Starter \/ Stop \/ Stopper
        \/ \E c \in Cameras : Unplug(c) \/ Plug(c)

-----------------------------------------------------------------------------
\* Once an interface was found stop() returns, whatever the driver reports
\* meanwhile (BaumerManager.cpp:135-152); before that it waits for a thread that
\* does not look at m_bStop (:72-83).
StopReturnsOnceFound == m_bInit /\ m_bStop ~> stopping = "done" \/ crashed
=============================================================================
