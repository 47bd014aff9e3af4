---------------------------- MODULE LocationCtrl ----------------------------
(***************************************************************************)
(* A thread that starts a recording each time the train enters another      *)
(* station.  There are two classes of this name, and a behaviour is about   *)
(* one of them:                                                             *)
(*   user   modules/camera_user/LocationCtrl.cpp, used by CameraUser: the   *)
(*          thread waits without a predicate and keeps the mutex while it   *)
(*          emits                                                           *)
(*   kit    kits/camera/tools/LocationCtrl.cpp, used by BaumerManager and   *)
(*          HikManager: it waits for a predicate, releases the mutex to     *)
(*          emit, and an empty location forgets the station                 *)
(* The thread emits to an object of the module's thread, so its signals are *)
(* queued and handled there in order.  m_str_now_location is written by     *)
(* both threads of the kit without a lock: one after the other here.        *)
(***************************************************************************)
EXTENDS Integers, Sequences

CONSTANTS Stations, NoStation,  \* "" is NoStation
          MaxUpdates            \* bound: locations and tasks told

LocationAssumption == NoStation \notin Stations /\ MaxUpdates \in Nat

VARIABLES variant,
          m_str_new_location, m_str_now_location,
          m_startFlag,
          locator,   \* the thread: "start", "test", "wait", "asleep", "woken",
                     \* "emit", "relock" or "ended"
          newLocation,  \* its copy
          signals,   \* updateLocationSignals emitted and not handled
          caller,    \* the module's thread: "idle", "clear", "notify", or at the end
                     \* "notifyAll", "join" or "ended"
          recording, \* the station of the recording started last, in a sequence
          updates    \* locations told so far

locationVars == <<variant, m_str_new_location, m_str_now_location, m_startFlag, locator,
                  newLocation, signals, caller, recording, updates>>


Init == /\ variant \in {"user", "kit"}
        /\ m_str_new_location = NoStation /\ m_str_now_location = NoStation
        /\ m_startFlag = TRUE /\ locator = "start" /\ newLocation = NoStation
        /\ signals = <<>> /\ caller = "idle" /\ recording = <<>> /\ updates = 0

MutexFree == locator \notin {"test", "wait"}

Woken == IF locator = "asleep" THEN "woken" ELSE locator

-----------------------------------------------------------------------------
(* The module's thread.                                                     *)

\* updateLocation: under the mutex; only CameraUser's class notifies under it.
Update(location) ==
  /\ caller = "idle" /\ MutexFree /\ updates < MaxUpdates
  /\ updates' = updates + 1
  /\ m_str_new_location' = location
  /\ IF variant = "user"
     THEN locator' = Woken /\ caller' = caller
     ELSE /\ caller' = IF location = NoStation THEN "clear" ELSE "notify"
          /\ locator' = locator
  /\ UNCHANGED <<variant, m_str_now_location, m_startFlag, newLocation, signals, recording>>

\* SubtitleChange and onLocation: a message with the name of a station.
OnLocation == \E s \in Stations : Update(s)

\* A task starts: the station is reset, so that the next one is another.
NotifyTask == Update(NoStation)

\* The kit forgets the station, outside the mutex.
ClearNow == /\ caller = "clear" /\ caller' = "idle"
            /\ m_str_now_location' = NoStation
            /\ UNCHANGED <<variant, m_str_new_location, m_startFlag, locator, newLocation,
                           signals, recording, updates>>

Notify == /\ caller = "notify" /\ caller' = "idle"
          /\ locator' = Woken
          /\ UNCHANGED <<variant, m_str_new_location, m_str_now_location, m_startFlag,
                         newLocation, signals, recording, updates>>

\* The queued signal is handled.
OnStartRecord ==
  /\ caller = "idle" /\ signals # <<>>
  /\ recording' = <<Head(signals)>>
  /\ signals' = Tail(signals)
  /\ UNCHANGED <<variant, m_str_new_location, m_str_now_location, m_startFlag, locator,
                 newLocation, caller, updates>>

-----------------------------------------------------------------------------
(* recordByLocation.                                                        *)

Step(from, to) == /\ locator = from /\ locator' = to
                  /\ UNCHANGED <<variant, m_str_new_location, m_startFlag, caller,
                                 recording, updates>>

Lock == Step("start", "test") /\ UNCHANGED <<m_str_now_location, newLocation, signals>>

\* The loop's condition; the kit's predicate lets the thread pass when the
\* station is another.
Test == /\ Step("test", IF ~m_startFlag THEN "ended"
                        ELSE IF variant = "user" \/ m_str_new_location = m_str_now_location
                        THEN "wait" ELSE "emit")
        /\ newLocation' = m_str_new_location
        /\ UNCHANGED <<m_str_now_location, signals>>

\* The mutex is released.
Sleep == Step("wait", "asleep") /\ UNCHANGED <<m_str_now_location, newLocation, signals>>

\* wait() may return without a notification.
Spurious == Step("asleep", "woken") /\ UNCHANGED <<m_str_now_location, newLocation, signals>>

\* CameraUser's class: signal and new station under the mutex.
WokenUser == /\ variant = "user" /\ Step("woken", "test")
             /\ IF m_startFlag /\ m_str_new_location # m_str_now_location
                THEN /\ signals' = Append(signals, m_str_new_location)
                     /\ m_str_now_location' = m_str_new_location
                ELSE UNCHANGED <<signals, m_str_now_location>>
             /\ UNCHANGED newLocation

WokenKit == /\ variant = "kit" /\ Step("woken", "test")
            /\ UNCHANGED <<m_str_now_location, newLocation, signals>>

\* The kit emits without the mutex ...
Emit == /\ Step("emit", "relock")
        /\ signals' = Append(signals, newLocation)
        /\ UNCHANGED <<m_str_now_location, newLocation>>

\* Mutant of Relock: the station of now is taken, not the one emitted.
RelockLatest == /\ Step("relock", "test")
                /\ m_str_now_location' = m_str_new_location
                /\ UNCHANGED <<newLocation, signals>>

\* ... and remembers what it emitted.
Relock == /\ Step("relock", "test")
          /\ m_str_now_location' = newLocation
          /\ UNCHANGED <<newLocation, signals>>

Locator == Lock \/ Test \/ Sleep \/ WokenUser \/ WokenKit \/ Emit \/ Relock

-----------------------------------------------------------------------------
(* ~LocationCtrl.                                                           *)

End(from, to) == /\ caller = from /\ caller' = to
                 /\ UNCHANGED <<variant, m_str_new_location, m_str_now_location, newLocation,
                                signals, recording, updates>>

ClearFlag == /\ End("idle", "notifyAll")
             /\ m_startFlag' = FALSE /\ UNCHANGED locator

\* Mutant of NotifyAll: the thread is joined without a notification.
NotifyNone == /\ End("notifyAll", "join")
              /\ UNCHANGED <<locator, m_startFlag>>

NotifyAll == /\ End("notifyAll", "join")
             /\ locator' = Woken /\ UNCHANGED m_startFlag

Join == /\ locator = "ended" /\ End("join", "ended")
        /\ UNCHANGED <<locator, m_startFlag>>

Next == \/ OnLocation \/ NotifyTask \/ ClearNow \/ Notify \/ OnStartRecord
        \/ Locator \/ Spurious \/ ClearFlag \/ NotifyAll \/ Join

\* The thread runs, and so does the end once it has begun.
Fairness == WF_locationVars(Locator) /\ WF_locationVars(NotifyAll)

Spec == Init /\ [][Next]_locationVars /\ Fairness

-----------------------------------------------------------------------------
AtRest == locator = "asleep" /\ caller = "idle" /\ signals = <<>>

\* When the thread sleeps and its signals are handled, the recording started
\* last is of the station told last, whatever was told while the thread emitted;
\* after a reset it may be of no station.  Only a first station told before
\* CameraUser's thread waits for the first time passes it by
\* (LocationCtrl.cpp:36).
RecordsWhereItIs ==
  AtRest => /\ \/ m_str_now_location = m_str_new_location
               \/ variant = "user" /\ recording = <<>>
            /\ \/ recording = <<m_str_now_location>>
               \/ m_str_now_location = NoStation

\* The end wakes the thread and joins it, unless the thread has read the flag and
\* is not asleep yet: that wakeup is missed, since both classes clear the flag
\* without the mutex (kit LocationCtrl.cpp:11, camera_user LocationCtrl.cpp:10).
LocatorEnds == caller = "notifyAll" /\ locator # "wait" ~> locator = "ended"
=============================================================================
