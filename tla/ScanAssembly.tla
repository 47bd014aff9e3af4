---------------------------- MODULE ScanAssembly ----------------------------
(***************************************************************************)
(* How a scan comes to the queues of RadarService: each YanYanDeviceDeal    *)
(* receives frames in one thread and decodes them in another, the service   *)
(* fetches one for each signal on its event loop, and _sqlRecord puts the   *)
(* latest frames of all devices together, in an object that comes from a    *)
(* pool and still holds what it held last.                                  *)
(*                                                                          *)
(* _sqlRecord adds up the sizes of the frames without the mutex under which *)
(* it then copies each of them, so frames may be replaced in between.       *)
(* A point is [device, frame, size of the frame]; Zero fills new places.    *)
(* The table of devices is walked through in the order of their indexes.    *)
(* A task is running; RadarService tells what a change of it does.          *)
(***************************************************************************)
EXTENDS Integers, SequencesExt

CONSTANTS Devices,    \* number of devices
          Sizes,      \* of frames, in points that are not (0, 0)
          Keep,       \* scans that m_data_queue keeps
          Few,        \* scans of at most so many points are not recorded
          Fresh,      \* points of a new object of the pool
          MaxFrames,  \* bound: frames of each device
          MaxScans    \* bound: scans put together

AssemblyAssumption == /\ {Devices, Keep, Few, Fresh, MaxFrames, MaxScans} \subseteq Nat
                      /\ Sizes \subseteq Nat /\ Keep > 0

VARIABLES connected,         \* devices whose Init succeeded
          mb_device_state, received,
          m_char_data,       \* frames received, to be decoded
          m_data_queue,      \* frames decoded, to be fetched
          signals,           \* deviceDataGet that the event loop has not handled
          mmap_device_data,  \* the latest frame of each device
          pc, at,            \* of _sqlRecord: its step, the device it looks at
          nAll_Size, nNow_Size,
          object,            \* the points of obj_all
          changed,           \* a frame was replaced since _sqlRecord began
          out,               \* scans that are held by queues, by tasks or for QML
          made,
          parked             \* the pool: the points of objects that came back

deviceVars == <<connected, mb_device_state, received, m_char_data, m_data_queue>>
recordVars == <<pc, at, nAll_Size, nNow_Size, object, out, made, parked>>
assemblyVars == <<deviceVars, signals, mmap_device_data, recordVars, changed>>

Indexes == 1..Devices
NoFrame == [number |-> 0, size |-> 0]
Zero    == <<0, 0, 0>>
Zeros(n) == [i \in 1..n |-> Zero]

Init == /\ connected \in SUBSET Indexes
        /\ mb_device_state = [d \in Indexes |-> d \in connected]
        /\ received = [d \in Indexes |-> 0]
        /\ m_char_data = [d \in Indexes |-> <<>>] /\ m_data_queue = [d \in Indexes |-> <<>>]
        /\ signals = <<>>
        /\ mmap_device_data = [d \in Indexes |-> NoFrame]
        /\ pc = "idle" /\ at = 0 /\ nAll_Size = 0 /\ nNow_Size = 0
        /\ object = <<>> /\ changed = FALSE /\ out = <<>> /\ made = 0 /\ parked = <<>>

-----------------------------------------------------------------------------
\* Run and DataReceiveDeal: a frame is received, or the time limit is reached.
\* A device that was found offline once is never said to be online again.
Receive(d) ==
  /\ received[d] < MaxFrames
  /\ received' = [received EXCEPT ![d] = @ + 1]
  /\ \E size \in Sizes :
       m_char_data' = [m_char_data EXCEPT ![d] = Append(@, [number |-> received'[d], size |-> size])]
  /\ UNCHANGED mb_device_state

TimeOut(d) == /\ mb_device_state' = [mb_device_state EXCEPT ![d] = FALSE]
              /\ UNCHANGED <<received, m_char_data>>

Run(d) == /\ d \in connected
          /\ Receive(d) \/ TimeOut(d)
          /\ UNCHANGED <<connected, m_data_queue, signals, mmap_device_data, recordVars, changed>>

LastOf(q, n) == SubSeq(q, Len(q) - n + 1, Len(q))

\* consumerThreadFunc and DecodeFromString: data shorter than a header is
\* dropped; of the frames that are not fetched the oldest are.
DecodeFromString(d) ==
  /\ m_char_data[d] # <<>>
  /\ m_char_data' = [m_char_data EXCEPT ![d] = Tail(@)]
  /\ \/ UNCHANGED <<m_data_queue, signals>>
     \/ LET q == Append(m_data_queue[d], Head(m_char_data[d]))
        IN /\ m_data_queue' = [m_data_queue EXCEPT ![d] = IF Len(q) > Keep THEN LastOf(q, Keep) ELSE q]
           /\ signals' = Append(signals, d)
  /\ UNCHANGED <<connected, mb_device_state, received, mmap_device_data, recordVars, changed>>

\* OnDeviceDataGet and GetDeviceData: the signal of a frame that was dropped
\* fetches another one, or none; a frame without points is thrown away.
OnDeviceDataGet ==
  /\ signals # <<>> /\ signals' = Tail(signals)
  /\ LET d == Head(signals)
         q == m_data_queue[d]
     IN /\ m_data_queue' = [m_data_queue EXCEPT ![d] = IF q = <<>> THEN q ELSE Tail(q)]
        /\ IF q # <<>> /\ Head(q).size > 0
           THEN mmap_device_data' = [mmap_device_data EXCEPT ![d] = Head(q)] /\ changed' = TRUE
           ELSE UNCHANGED <<mmap_device_data, changed>>
  /\ UNCHANGED <<connected, mb_device_state, received, m_char_data, recordVars>>

-----------------------------------------------------------------------------
\* The steps of _sqlRecord.  An object is taken from the pool or made.
GetObject ==
  /\ pc = "idle" /\ made < MaxScans
  /\ pc' = "sum" /\ at' = 1 /\ nAll_Size' = 0 /\ changed' = FALSE
  /\ object' = IF parked = <<>> THEN Zeros(Fresh) ELSE Last(parked)
  /\ parked' = IF parked = <<>> THEN parked ELSE Front(parked)
  /\ UNCHANGED <<deviceVars, signals, mmap_device_data, nNow_Size, out, made>>

\* The size of one frame, read without the mutex.
AddSize ==
  /\ pc = "sum" /\ at <= Devices
  /\ nAll_Size' = nAll_Size + mmap_device_data[at].size
  /\ at' = at + 1
  /\ UNCHANGED <<deviceVars, signals, mmap_device_data, changed, pc, nNow_Size, object, out, made,
                 parked>>

\* Mutant of Resized: an object only grows.
ResizedUp(points, n) == points \o Zeros(n - Len(points))

Resized(points, n) == IF Len(points) > n THEN SubSeq(points, 1, n)
                      ELSE points \o Zeros(n - Len(points))

\* Too few points: the object goes back, and nothing is recorded.
SkipScan ==
  /\ pc = "sum" /\ at > Devices /\ nAll_Size <= Few
  /\ pc' = "idle" /\ object' = <<>> /\ parked' = Append(parked, object)
  /\ UNCHANGED <<deviceVars, signals, mmap_device_data, changed, at, nAll_Size, nNow_Size, out, made>>

Resize ==
  /\ pc = "sum" /\ at > Devices /\ nAll_Size > Few
  /\ pc' = "copy" /\ at' = 1 /\ nNow_Size' = 0
  /\ object' = Resized(object, nAll_Size)
  /\ UNCHANGED <<deviceVars, signals, mmap_device_data, changed, nAll_Size, out, made, parked>>

\* One frame, or what there is room for, is copied with the mutex held.
Copy ==
  /\ pc = "copy" /\ at <= Devices
  /\ LET frame == mmap_device_data[at]
         n     == Min({frame.size, nAll_Size - nNow_Size})
     IN /\ object' = [i \in DOMAIN object |->
                        IF i \in (nNow_Size + 1)..(nNow_Size + n)
                        THEN <<at, frame.number, frame.size>> ELSE object[i]]
        /\ nNow_Size' = nNow_Size + n
  /\ at' = at + 1
  /\ UNCHANGED <<deviceVars, signals, mmap_device_data, changed, pc, nAll_Size, out, made, parked>>

\* The scan goes to both queues and, in place of the one before, to QML.
Push ==
  /\ pc = "copy" /\ at > Devices
  /\ pc' = "idle" /\ object' = <<>>
  /\ out' = Append(out, [points |-> object, filled |-> nNow_Size, changed |-> changed])
  /\ made' = made + 1
  /\ UNCHANGED <<deviceVars, signals, mmap_device_data, changed, at, nAll_Size, nNow_Size, parked>>

\* A scan that is recorded and no longer shown comes back to the pool, as it is.
Release ==
  /\ \E i \in 1..(Len(out) - 1) : /\ out' = RemoveAt(out, i)
                                  /\ parked' = Append(parked, out[i].points)
  /\ UNCHANGED <<deviceVars, signals, mmap_device_data, changed, pc, at, nAll_Size, nNow_Size,
                 object, made>>

SqlRecord == GetObject \/ AddSize \/ SkipScan \/ Resize \/ Copy \/ Push

Next == \/ \E d \in Indexes : Run(d) \/ DecodeFromString(d)
        \/ OnDeviceDataGet \/ SqlRecord \/ Release

Spec == Init /\ [][Next]_assemblyVars

-----------------------------------------------------------------------------
\* Frames are fetched in the order in which they were received, and each that is
\* kept has a signal of its own that is still to be handled, in their order
\* (YanYanDeviceDeal.cpp:267-284): none is left for the next one to fetch.
FramesAreFetched ==
  \A d \in Indexes :
    LET waiting == <<mmap_device_data[d]>> \o m_data_queue[d] \o m_char_data[d]
    IN /\ \A i, j \in DOMAIN waiting : i < j => waiting[i].number < waiting[j].number
       /\ \E f \in [DOMAIN m_data_queue[d] -> DOMAIN signals] :
            \A i \in DOMAIN f : signals[f[i]] = d /\ \A j \in 1..(i - 1) : f[j] < f[i]

\* The points that a scan got are of one frame of each device, though frames are
\* replaced under the copy (RadarService.cpp:265-284).
OneFrameOfEach ==
  \A k \in DOMAIN out : \A i, j \in 1..out[k].filled :
    /\ out[k].points[i] # Zero
    /\ i < j => out[k].points[i][1] <= out[k].points[j][1]
    /\ out[k].points[i][1] = out[k].points[j][1] => out[k].points[i] = out[k].points[j]

\* A scan is cut, or ends with points of the object's earlier scan, only if a
\* frame was replaced between the sizes and the copy (RadarService.cpp:250-284).
WholeUnlessChanged ==
  \A k \in DOMAIN out : ~out[k].changed =>
    /\ out[k].filled = Len(out[k].points)
    /\ \A p \in ToSet(out[k].points) : \E n \in 0..out[k].filled :
         \A i \in DOMAIN out[k].points : out[k].points[i] = p <=> i \in (n + 1)..(n + p[3])

ScansSound == FramesAreFetched /\ OneFrameOfEach /\ WholeUnlessChanged
=============================================================================
