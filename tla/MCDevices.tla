----------------------------- MODULE MCDevices -----------------------------
(***************************************************************************)
(* Machines which share no state, most of them around the devices, are      *)
(* checked side by side: a behaviour is about one of them, and leaves the   *)
(* others as they were at the start.  The consumers are those of five       *)
(* classes.                                                                 *)
(***************************************************************************)
EXTENDS Consumers

CONSTANTS MaxRequests, Interval, Limit, Cameras, MaxEvents, MaxSearches, c1, c2,
          Scans, Gap, MinPoints, Prealloc, Circle, MaxDiff, Grow, MaxObjects, NoScan,
          Stations, NoStation, MaxUpdates, s1, s2,
          MaxImages, MaxStarts, Delay,
          MaxReplies,
          Tags, NoTag, MaxWire, t1, t2,
          MaxCalls

VARIABLES machine,
          sent, wire, recvArray, waiting, elapsed, nowpulse, interval, kilometer,
          speed, clock, sentAt, missed, exact,
          plugged, events, searches, system, m_bInit, m_bStart, m_bStop, looker,
          starter, unnamed, naming, m_mapCamera, stopping, crashed,
          now, object, before, hash, used, handed, writing, pool, several, regions,
          variant, m_str_new_location, m_str_now_location, m_startFlag, locator,
          newLocation, signals, caller, recording, updates,
          images, m_queue_record, recorder, owner, starting, starts, m_isrecordvideo,
          encoder, inside, context, m_outputstream, m_initialized, failed, headers, trailers,
          requestsPosted, replies, repliesRunning, m_currentReplies, answers, skipped, alive,
          initThread, startThread, _mb_stopped, holder, managerStop, process,
          passed, buffer, requests, readerReplies, tasks, told, merged, erased,
          pageThread, phase, m_isQmlLoaded, engine, made, posted, m_storeCallsFromCpp, invoked,
          shown, direct

P == INSTANCE PulseCounter
C == INSTANCE CameraManager
O == INSTANCE RadarOverrun WITH MaxScans <- MaxObjects, None <- NoScan
L == INSTANCE LocationCtrl
V == INSTANCE SaveVideo
H == INSTANCE HttpClient WITH posted <- requestsPosted, running <- repliesRunning
B == INSTANCE BaslerManager WITH stopping <- managerStop
R == INSTANCE RfidReader WITH replies <- readerReplies
Q == INSTANCE QmlEngine WITH thread <- pageThread

ASSUME DevicesAssumption ==
       /\ P!RequestAssumption /\ C!CameraAssumption /\ O!OverrunAssumption
       /\ L!LocationAssumption /\ V!SaveVideoAssumption /\ H!HttpAssumption
       /\ R!RfidAssumption /\ Q!QmlAssumption

MCScans == LET Points(t) == [p \in 1..6 |-> p \in t]
           IN {Points({}), Points({4}), Points(1..4), Points(2..6), Points({1, 3, 5}), Points({1, 2, 5})}

counterVars == <<sent, wire, recvArray, waiting, elapsed, nowpulse, interval, kilometer,
                 speed, clock, sentAt, missed, exact>>
managerVars == <<plugged, events, searches, system, m_bInit, m_bStart, m_bStop, looker,
                 starter, unnamed, naming, m_mapCamera, stopping, crashed>>
overrunVars == <<now, object, before, hash, used, handed, writing, pool, several, regions>>
stationVars == <<variant, m_str_new_location, m_str_now_location, m_startFlag, locator,
                 newLocation, signals, caller, recording, updates>>
videoVars   == <<images, m_queue_record, recorder, owner, starting, starts, m_isrecordvideo,
                 encoder, inside, context, m_outputstream, m_initialized, failed, headers,
                 trailers>>
webVars     == <<requestsPosted, replies, repliesRunning, m_currentReplies, answers, skipped, alive>>
baslerVars  == <<initThread, startThread, _mb_stopped, holder, managerStop, process>>
rfidVars    == <<passed, buffer, requests, readerReplies, tasks, told, merged, erased>>
pageVars    == <<pageThread, phase, m_isQmlLoaded, engine, made, posted, m_storeCallsFromCpp, invoked,
                 shown, direct>>

vars == <<machine, consumerVars, counterVars, managerVars, overrunVars, stationVars,
          videoVars, webVars, baslerVars, rfidVars, pageVars>>

MCInit == /\ machine \in {"consumer", "counter", "cameras", "detect", "station",
                          "video", "web", "basler", "rfid", "page"}
          /\ Init /\ P!Init /\ C!Init /\ O!Init /\ L!Init /\ V!Init
          /\ H!Init /\ B!Init /\ R!Init /\ Q!Init
          /\ machine # "consumer" => class = "camera"
          /\ machine # "cameras" => plugged = {}
          /\ machine # "station" => variant = "kit"

\* What a step of each machine leaves alone.
NotConsumer == UNCHANGED <<machine, counterVars, managerVars, overrunVars, stationVars,
                           videoVars, webVars, baslerVars, rfidVars, pageVars>>
NotCounter  == UNCHANGED <<machine, consumerVars, managerVars, overrunVars, stationVars,
                           videoVars, webVars, baslerVars, rfidVars, pageVars>>
NotCameras  == UNCHANGED <<machine, consumerVars, counterVars, overrunVars, stationVars,
                           videoVars, webVars, baslerVars, rfidVars, pageVars>>
NotDetect   == UNCHANGED <<machine, consumerVars, counterVars, managerVars, stationVars,
                           videoVars, webVars, baslerVars, rfidVars, pageVars>>
NotStation  == UNCHANGED <<machine, consumerVars, counterVars, managerVars, overrunVars,
                           videoVars, webVars, baslerVars, rfidVars, pageVars>>
NotVideo    == UNCHANGED <<machine, consumerVars, counterVars, managerVars, overrunVars,
                           stationVars, webVars, baslerVars, rfidVars, pageVars>>
NotWeb      == UNCHANGED <<machine, consumerVars, counterVars, managerVars, overrunVars,
                           stationVars, videoVars, baslerVars, rfidVars, pageVars>>
NotBasler   == UNCHANGED <<machine, consumerVars, counterVars, managerVars, overrunVars,
                           stationVars, videoVars, webVars, rfidVars, pageVars>>
NotRfid     == UNCHANGED <<machine, consumerVars, counterVars, managerVars, overrunVars,
                           stationVars, videoVars, webVars, baslerVars, pageVars>>
NotPage     == UNCHANGED <<machine, consumerVars, counterVars, managerVars, overrunVars,
                           stationVars, videoVars, webVars, baslerVars, rfidVars>>

MCNext == \/ machine = "consumer" /\ Next   /\ NotConsumer
          \/ machine = "counter"  /\ P!Next /\ NotCounter
          \/ machine = "cameras"  /\ C!Next /\ NotCameras
          \/ machine = "detect"   /\ O!Next /\ NotDetect
          \/ machine = "station"  /\ L!Next /\ NotStation
          \/ machine = "video"    /\ V!Next /\ NotVideo
          \/ machine = "web"      /\ H!Next /\ NotWeb
          \/ machine = "basler"   /\ B!Next /\ NotBasler
          \/ machine = "rfid"     /\ R!Next /\ NotRfid
          \/ machine = "page"     /\ Q!Next /\ NotPage

\* The fairness of Consumers, LocationCtrl, BaslerManager and RfidReader; the
\* threads of CameraManager run.
MCSpec == /\ MCInit /\ [][MCNext]_vars
          /\ WF_vars(machine = "consumer" /\ Consumer  /\ NotConsumer)
          /\ WF_vars(machine = "consumer" /\ NotifyOne /\ NotConsumer)
          /\ WF_vars(machine = "consumer" /\ NotifyAll /\ NotConsumer)
          /\ WF_vars(machine = "cameras" /\ C!Looker  /\ NotCameras)
          /\ WF_vars(machine = "cameras" /\ C!Starter /\ NotCameras)
          /\ WF_vars(machine = "cameras" /\ C!Stopper /\ NotCameras)
          /\ WF_vars(machine = "station" /\ L!Locator   /\ NotStation)
          /\ WF_vars(machine = "station" /\ L!NotifyAll /\ NotStation)
          /\ WF_vars(machine = "basler" /\ B!InitSteps /\ NotBasler)
          /\ WF_vars(machine = "basler" /\ B!StopSteps /\ NotBasler)
          /\ WF_vars(machine = "rfid" /\ R!SendInventory /\ NotRfid)
          /\ WF_vars(machine = "rfid" /\ R!Reader  /\ NotRfid)
          /\ WF_vars(machine = "rfid" /\ R!Receive /\ NotRfid)
          /\ WF_vars(machine = "rfid" /\ R!Task    /\ NotRfid)

\* Items are sent once in their order (CameraCtrl.cpp:98-124), and calls are shown to
\* the user interface in theirs (QmlPrivateEngine.cpp:204-239).
HandedOnInOrder == InOrderOnce /\ Q!CallsInOrder

\* Late answers are computed with all rounds of their way, no more than once, and
\* overstate a speed by the waits of the way only (ConnectivityManager6051.cpp:180,
\* :311); a late clear does not erase a tag that was counted (RfidVFR61M.cpp:113).
AnswersOfDevices == P!SpeedOfLateAnswers /\ R!TagsAccounted

\* The regions of scans (RadarOverrun.cpp:12-239).
RegionsOfScans == machine = "detect" => O!FindsEachGroup /\ O!RegionsAccounted /\ O!EachScanOnce

\* A recording is started where the train is (LocationCtrl.cpp:28-50); a packet
\* has a file that is open, a file has an end (SaveVideo.cpp:51-81).
RecordingsSound == L!RecordsWhereItIs /\ V!PacketsHaveFile /\ V!FilesAreEnded

\* A reply is told once, and a cancellation passes few by (HttpClient.cpp:108-249).
RepliesAreTold == [][H!EachToldOnce' /\ H!CancelSkipsSingly]_webVars

\* No item waits behind a sleeping thread (CameraCtrl.cpp:124), no tag in the
\* reader (RfidVFR61M.cpp:65).
NothingWaitsForEver == NothingWaits /\ R!TagsAreRead

\* The threads end that are told to, unless they miss it (CameraCtrl.cpp:17,
\* LocationCtrl.cpp:10), and stop() of the two managers returns, once a camera is
\* found (BaumerManager.cpp:72), or if it comes after its thread (BaslerManager.cpp:89).
ThreadsEnd == /\ EndsOrMisses /\ L!LocatorEnds
              /\ C!StopReturnsOnceFound /\ B!StopReturnsAfterList
=============================================================================
