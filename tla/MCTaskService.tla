--------------------------- MODULE MCTaskService ---------------------------
(***************************************************************************)
(* The tasks, the making of scans and their recording share no state: they  *)
(* are checked side by side, and a behaviour is about one of them.  (What   *)
(* the detection of regions answers is any choice in the recording, and     *)
(* which worker runs it does not matter to it; a scan is made while a task  *)
(* runs, and its recording does not look at its points.)                    *)
(***************************************************************************)
EXTENDS TaskService

CONSTANTS t1, t2,
          Workers, Cap, Batch, MaxScans, MaxTasks, w1, w2,
          Devices, Sizes, Keep, Few, Fresh, MaxFrames

VARIABLES machine,
          toldScans, task, mb_stop, taken, queues, tasks, pc, row, active, count, batch,
          ready, posted, stored,
          connected, mb_device_state, received, m_char_data, m_data_queue, signals,
          mmap_device_data, step, at, nAll_Size, nNow_Size, object, changed, out, made, parked

R == INSTANCE RadarService WITH told <- toldScans

S == INSTANCE ScanAssembly WITH pc <- step

ASSUME MCAssumption == R!RadarAssumption /\ S!AssemblyAssumption

radarVars == <<toldScans, task, mb_stop, taken, queues, tasks, pc, row, active, count, batch,
               ready, posted, stored>>

assemblyVars == <<connected, mb_device_state, received, m_char_data, m_data_queue, signals,
                  mmap_device_data, step, at, nAll_Size, nNow_Size, object, changed, out, made,
                  parked>>

MCInit == /\ machine \in {"tasks", "scans", "assembly"} /\ Init /\ R!Init /\ S!Init
          /\ machine # "assembly" => connected = {}

MCNext == /\ machine' = machine
          /\ \/ machine = "tasks" /\ Next   /\ UNCHANGED <<radarVars, assemblyVars>>
             \/ machine = "scans" /\ R!Next /\ UNCHANGED <<vars, assemblyVars>>
             \/ machine = "assembly" /\ S!Next /\ UNCHANGED <<vars, radarVars>>

MCSpec == MCInit /\ [][MCNext]_<<machine, vars, radarVars, assemblyVars>>

\* The rows of scans: none is lost after it was taken for writing or written
\* twice, and none has the name of an earlier task (RadarRecord.cpp:54-163); a
\* scan is of one frame of each device, and all of it, unless a frame was
\* replaced while it was put together (RadarService.cpp:247-284).
RowsOfScans == R!RecordedOnce /\ R!ReadyHasWriter /\ R!NoEarlierTask /\ S!ScansSound
=============================================================================
