# Verification of infinity_station

infinity_station is the station computer of a railway inspection train: it
reads cameras, radars, pulse counters and the train bus, records what they
deliver under the inspection task that is running, and shows it to an operator.
This directory holds TLA+ models of its concurrent core, TLC configurations that
check them on small instances, and proofs, checked by TLAPS, that hold for every
size of the instance. Paths below are relative to `src/`.

## The system

One process. `main` makes the application framework; the framework makes the
modules named in a YAML file, moves them to one event thread and connects them.
A module owns threads, sockets, timers and drivers ("kits"), talks to other
modules by signals and by three helpers (`invokeAsync`, `invokeSync`,
`invokeNotify`), and runs background work on one thread pool.

```
 main ── AppFrameworkImpl ── modules on the loop "eventloop_module"
                               │ invoke / notify (AppDeclare.h, ModuleBase.h)
   devices ── kits (own threads) ── signals ──> module ──> other modules
                               │
             ConcurrentPool ── ConcurrentSniffer ── ObjectPool
                               │
             database, video files, TCP / UDP / HTTP / ZeroMQ
```

### Components

The state each part keeps, what can go wrong in it, and what makes it correct.
`PROJECT.json` lists every part, the ones without a module included.

| part | state | operations | hard behaviour | correctness |
|---|---|---|---|---|
| `object_pool` | lock-free stack, counter | get, drop | CAS on recycled addresses, counter beside the stack | one owner per object, nothing freed is read, the maximum is respected up to the race |
| `thread_pool` (ConcurrentPool) | run flag, timer heap, cancelled names | runTask, runAfter, runEvery, cancel, stop | timer thread unlocks between pop and requeue; stop at any time | at most two timers of a name, one in a running pool; timers are kept, nothing starts after stop |
| `thread_pool` (ConcurrentSniffer) | table of running tasks, pool of watchers | acquire, finished | registry cleared under running tasks; a finish between two steps of acquire; two getters in the lock-free pool; a full pool under a handler | until a getter swaps in a stale successor, a watcher has one owner and entries are removed |
| `event_thread` | table of named loops | thread, stop | first use by two threads; stop under the lock that a handler asks for | one loop per name; stop returns unless a handler that it waits for asks |
| `service`, `module_base` | tables of modules, run flag, posted calls | run, stop, invoke, notify | calls during start and shutdown, direct or posted; two threads that block on each other | a slot runs before its module is started only on the main thread, within a start(); no use after destruction, shutdown ends |
| `tcp_client`, `tcp_server` | socket, flag, timer; table of clients | connect, lose, retry; accept, refuse, disconnect | three signals that overlap; reused descriptors | the flag tells the truth, retries never stop, open sockets are kept |
| `save_video_by_ffmpeg` | two frame caches, three flags, encoder, muxer | push, startRecord, stopRecord | camera, save thread and controller share flags without a lock | frames in order and once, one answer per recording |
| `task_service` | current task, flag, table of tasks, folders | start online, start by hand, stop | each of three steps of a start may fail | modules save where they were told, an end is written in the right row |
| `radar_kit`, `radar_online` | queues of scans, double buffer of rows, open overruns | receive, record, detect | six threads around one task; buffers swapped under a writer | every scan is recorded once and under its own task |
| `location_service` | distance, corrections, current pole | correct, publish | four sources of corrections, a task that ends between two of them | the pole is the nearest; a correction belongs to its task |
| `connectivity_kits` | answers of the counters, last totals | request, answer | answers later than the time limit; a time that is not measured | which request an answer belongs to; how much the speed may be overstated |
| `camera_user`, `remote` | queue, worker threads | push, consume, stop | stop between the test and the wait | stop returns, nothing accepted is lost silently |
| `LocationCtrl` (two classes), used by camera_user and the managers | latest and current station, flag | update, record, end | a station told while the thread emits without the mutex | the latest recording is of the latest station |
| `camera_service` | queue of images, encoder, muxer | push, start, stop, record | encoder and muxer start and end one after the other under a running thread | a packet has an open file, a file gets its end |
| `camera` (HikCamera) | subtitles told and shown | fold, show | a decoder that keeps half a character | lines hold the text and fit |
| `camera`, `camera_service` (HikCamera, CameraHik) | user id, handle and port of each; statics for all | open, play, data, image, close | callbacks of two cameras share statics; ports are freed twice and given again | an image has the name of its camera; a decoder stays until its camera ends |
| `baumer_manager`, `hik_and_basler_manager` | map of cameras, start and stop flags | find, plug, start, stop | plug events on the driver's thread | shutdown ends with and without a camera |
| `jihe_service` | vector of readings | receive, send, write | four users of one vector | readings are written once, none is read that is gone |
| `http_client` | list of running replies | send, answer, cancel | replies removed while the list is walked through | each reply is told once |
| `udp`, `ftp`, `kafka`, `remote_access`, the centers | sockets | send, receive | none between two messages | |
| `database`, `database_manager` | connections by thread; conditions of a query | connect, query, stop | a lost server, ids of threads that are given again | at most one statement is lost; a query answers what it asks for |
| `rfid` | none between two messages | count, read, clear | messages handled in any order, several in one | no tag that was counted is cleared, each is read |
| `csv_to_sql`, `config`, `serialization` | | | | |
| `mvb` | bits of the packet, life of each module | alarm, fault, sign of life, timer of each port | levels latch, numbers are taken for other types, counters of modules fall with every port's timer | the bits of a type are of levels told of its number; no fault without a cause |
| `arc` | an arc that goes on, rows to insert | voltage, insert | rows cleared or kept when an insert fails | each arc is in one row, written once |
| `camera` (BaumerCamera) | device, stream, buffers, name | open, fill, close | each call of the driver may throw; images come before the pool and the name | buffers come back, the device is free again |
| `temperature` | login, two threads, five values, one image | open, measure, capture, stop | values stored while they are loaded, the image overwritten part by part while it is read | no part a slot reads is older than the picture told; the values are of about one time; stop leaves nothing |
| `location_service` (PositionDataBase) | positions not inserted yet | push, insert, clear | two threads without a lock; a batch on a connection that breaks | a batch is stored whole; a position is in one batch |
| `histroy_program_comm` | tables open, state of the task; a thread with a connection | notice of a task, rows, start, stop | a table that does not start or stop | rows are in the database of their task; the connection is closed and freed |
| `qml_engine` | calls kept until the page is loaded | call, load, stop | three threads, a module that moves between two | no call is lost or told twice while it runs |
| `duagon`, `dispatch_6017`, `pressure_spot`, `corrugation_service` | none between two messages | decode, emit | byte layouts | |
| `factory`, `eventloop_monitor`, `log_and_utils`, drivers of cameras and recorders | little | | | |

## What is modelled

Each module's first comment says which code it stands for and where one action
ends; `PROJECT.json` maps every definition to lines.

| module | code | one action is |
|---|---|---|
| `AbstractPool` | what a user of ObjectPool.h may rely on: an object is free or lent | get, park, make or destroy one object |
| `ObjectPool` | kits/common/object_pool/ObjectPool.h | one access to memory that other threads see: load, read through, CAS, counter, delete |
| `ConcurrentPool` | kits/common/thread_pool/ConcurrentPool.h | a client's test of the run flag, its action, a stretch of the timer thread under `mtxTimer_` |
| `ConcurrentSniffer` | kits/common/thread_pool/ConcurrentSniffer.h | the load and the swap of the pool's get; a stretch of `acquire` between two lock scopes; one step of the finished handler |
| `EventThread` | kits/common/event_thread/EventThread.h | one lock scope; in `stop`, one loop |
| `AppFramework` | service/, kits/common/module_base, moveTreeToThread | one module in a phase of `run`; one touch of a module pointer, which begins the slot or posts it; the begin and the end of a slot |
| `TcpLink` | kits/communication/tcp_client, tcp_server, and a network | one slot |
| `SaveVideoCache` | kits/common/save_video_by_ffmpeg | one read or store of a flag, one critical section, one stage of the save thread |
| `TaskService` | modules/task_service and notifyTask of one other module | one request; one notification handled |
| `RadarService` | modules/radar_online: its three threads, the pool MyThreadPool.h, RadarRecord | a turn of a thread; a worker's call, push, test, reset, one row moved, swap; one write |
| `ScanAssembly` | YanYanDeviceDeal, RadarService's _sqlRecord and OnDeviceDataGet, and the pool of scans | a frame received, decoded or fetched; an object got, one size, the resize, one frame copied, the push; an object that comes back |
| `RadarOverrun` | modules/radar_online/RadarOverrun.cpp | one scan; one overrun recorded |
| `JiHeService` | modules/jihe_service | a handler, or the part of it before or after the mutex |
| `LocationService` | modules/location_service and its RoughPositionBase | one handler; the read and the write of the thread that advances the distance |
| `Positioning` | the two together | a step of either, or a sent reading handled |
| `Consumers` | CameraCtrl, RemotePublisher, YanYanDeviceDeal, MyThreadPool.h, SaveVideo: a queue with a thread | a critical section; the test, the sleep and the wake-up of a wait |
| `PulseCounter` | kits/thrid_devices/connectivity_kits/6051net | a request, an answer, the end of a wait |
| `CameraManager` | modules/baumer_manager | a step of its two threads, of stop() and of the driver's thread |
| `BaslerManager` | modules/basler_manager | a step of its two threads or of stop() |
| `LocationCtrl` | modules/camera_user/LocationCtrl.cpp and kits/camera/tools/LocationCtrl.cpp, and the modules that tell them | a lock scope; the emission; the test and the sleep of the wait |
| `SaveVideo` | kits/camera_service: SaveVideo, encodevideoffmpeg, muxingvideo | a call of the encoder, a stage of the muxer's start, an image taken, encoded or written |
| `Subtitles` | foldSubtitles, findSafeSplitPos and onWriteSubTitle of HikCamera.cpp | one vector of subtitles told |
| `HttpClient` | kits/communication/http_client | one call, one reply, one whole cancellation |
| `HikPlayer` | CameraHik and HikCamera with CameraUser and HikManager, which start and end them; the SDK and its decoder | a call of the SDK by the main thread; a callback, in two steps when it opens a decoder |
| `Database` | kits/common/database: connections, a statement, the conditions of a select or an update | a lock scope or a call of Qt; one condition or the values told; one query or update |
| `PositionRecords` | PositionDataBase of modules/location_service and SqlInsert | the test of the vector, the read of its end, the write; a row of a batch; begin, commit, rollback |
| `HistoryProgram` | modules/histroy_program_comm and kits/common/histroy_uniqueidrecv | a notice or a row handled; a turn of the receiver's thread |
| `QmlEngine` | modules/qml_engine: what other modules tell it, and how AppFramework moves it | one call made, handled or shown; start(), stop(), a move |
| `RfidReader` | kits/thrid_devices/rfid_recv_kits, and the reader | a tick of the timer, a message received or handled, an answer |
| `MvbHeartbeat` | modules/mvb_service, its packet of Ningbo | an alarm, fault or sign of life told; the timer of a port |
| `ArcDetector` | kits/thrid_devices/arc_kits/dwcarcuv, and how arc_service gives it voltages | one voltage handled by one device; one task of the pool |
| `BaumerStream` | kits/camera/baumer/camera_normal, with the search and the starter of baumer_manager | a call of the driver, or what it may throw from; a way out of the handler |
| `TemperatureCamera` | modules/temperature_service and kits/camera/hik/temperature | a call of the SDK; one value stored or loaded; the begin and the end of the copy of a part; one part read by a slot |

Composition. `ObjectPool` is checked to implement `AbstractPool`, the pair of free
and lent objects, if one thread gets (`ImplementsAbstractPool`, a refinement mapping
under which parked objects are free and objects referenced or in transit are lent).
`ConcurrentSniffer` cannot rest on that, since any thread calls its acquire: it has
the steps of the pool's get that matter to several getters - the load of the head,
and a later swap that fails, succeeds or sets a stale successor - and keeps the
rest of the pool as a set. The swap of a stale successor, the defect that
`object_pool_aba` shows, is noted (`damaged`) and gives the pool any contents; what is
claimed of the registry is claimed until then. `AppFramework`
contains the part of the event thread that moves modules. `TaskService` runs
against one module that stands for all those notified. `Positioning` feeds what
`JiHeService` sends to `LocationService`, in order but later, with tasks told to each
on its own queue. `MCDevices`, `MCServices`, `MCEventLoops` and `MCTaskService` check machines that share no state
side by side: a behaviour picks one and leaves the variables of the others alone,
so the states add up and do not multiply. It is a way to run them, not a
composition. A property there may join parts of one subject, each defined and
explained in its own module: `RowsOfScans` is `RecordedOnce`, `ReadyHasWriter` and
`NoEarlierTask` of `RadarService` with `FramesAreFetched`, `OneFrameOfEach` and
`WholeUnlessChanged` of `ScanAssembly`, `RegionsOfScans` is `FindsEachGroup`,
`RegionsAccounted` and `EachScanOnce` of `RadarOverrun`, `RecordingsSound` is `RecordsWhereItIs` of `LocationCtrl` with
`PacketsHaveFile` and `FilesAreEnded` of `SaveVideo`, `AnswersOfDevices` is
`SpeedOfLateAnswers` of `PulseCounter` and `TagsAccounted` of `RfidReader`,
`NothingWaitsForEver` is `NothingWaits` of `Consumers` and `TagsAreRead` of `RfidReader`,
`ImagesOfCameras` is `ImageOfItsCamera` and `DecodersStay` of `HikPlayer` with `FoldKeepsText`
and `LinesFit` of `Subtitles` and the three invariants each of `BaumerStream` and
`TemperatureCamera`, `RowsInDatabase` is the three invariants of `Database` and the two each of
`ArcDetector`, `PositionRecords` and `HistoryProgram`, `HandedOnInOrder` is `InOrderOnce`
of `Consumers` and `CallsInOrder` of `QmlEngine`, `PacketsSound` is the three of `MvbHeartbeat`,
`ThreadsEnd` is `EndsOrMisses` of `Consumers`, `LocatorEnds` of `LocationCtrl`,
`StopReturnsOnceFound` of `CameraManager` and `StopReturnsAfterList` of
`BaslerManager`, `RepliesAreTold` is `EachToldOnce` and `CancelSkipsSingly` of
`HttpClient`. Most of the joined properties have a mutant for more than one of their parts.

External behaviour (Qt's event queue, `QThread`, the network, the clock) is
modelled from how the code uses it and marked external in the map.

## Runs

| run | instance | shows |
|---|---|---|
| `object_pool` | one getter, that also drops, and another dropper; 3 addresses, 3 objects, maximum 1 | no use after free, one owner, counter and maximum exact up to the updates in flight (`CounterAndMaximum`), refinement of AbstractPool |
| `object_pool_aba` | two threads that both get and drop | *violation* of `HeadIsTopOfStack`: the head ends on a deleted node |
| `timer_pool` | 2 clients, 1 name, 3 requests, delays 0 to 2, clock to 3 | no third timer of a name, no second in a running pool; kept timers; a timer thread that is late never ends |
| `timer_pool_run_after` | 1 client, 1 request, fair threads | *violation* of `RunAfterRuns`: an accepted delayed task never starts |
| `sniffer` | 2 threads, 3 tasks, 3 watchers, registry limit 2, pool of 2 | through clears, reuse and two getters at once, one owner per watcher, and none destroyed while it is read but by a full pool; the registry and the watchers are bounded and an entry stays until its task finished (`RegistrySound`); entries leave it; all this until a stale successor is swapped in |
| `event_loops` | side by side: 2 callers, 2 names, 4 QThreads; 2 modules, 1 worker, main and event thread, 3 calls | one loop per name, no loop in use destroyed, stop returns unless a handler asks for a loop while it waits (`StopReturns`); a slot runs for a module that is not started only inside a start() on the main thread, no module destroyed away from its thread or under its slot (`SlotsInLife`), no crossed wait, shutdown and synchronous calls end |
| `tcp_link` | 3 clients (2 with retry), 3 descriptors, limit 2, backlog 2 | open sockets are kept in the table, retries never stop |
| `save_video` | 4 frames, 2 recordings, cache of 2 | no frame of an earlier recording but what the caches held, no gap after the call, one answer (`RecordingsApart`); recordings and stopRecord end |
| `task_service` | 2 trains, 2 seconds, 2 rows, 2 notifications under way; beside it 2 workers and 2 scans under 2 tasks; 2 devices with 2 frames of up to 2 points in 2 scans | right folder, no online task over a running one, the end in the right row; rows of scans recorded once, never left without a writer nor under an earlier task; a scan is one frame of each device, and whole unless a frame was replaced meanwhile |
| `positioning` | 2 readings, 3 sent; 3 poles, one an anchor; 2 starts, distance to 2 | readings stored once and in order, the end of a pole's image told once after its start, the pole found is the one behind or the last, an image moves the position by a bounded amount |
| `devices` | side by side: 4 items in five queues; 7 requests of the counter; 2 cameras and 3 plug events; a Basler manager; 3 scans of 6 shapes; 2 stations told 4 times to two classes; 4 images and 3 starts of a recorder; 5 requests; 2 tags and 2 messages under way; 5 calls for the page | items worked on in order and once, nothing waits behind a sleeping thread, threads end unless a wake-up was missed; late answers stay late, and the speed is overstated by the waits at most; stop() of the managers returns where it can; each group of points found, each scan in as many lists as it has regions, and in one list while scans have one; recordings at the right station; packets and files match; replies told once; no counted tag cleared, all tags read; calls shown in order (`HandedOnInOrder`) |
| `services` | side by side: 2 cameras of either class, 3 ports; 2 vectors out of 182 of subtitles on 3 lines of 4 bytes; 2 ids of 2 threads each, 2 outages; queries of 3 conditions and updates of 2 on 2 fields with 2 values; 4 positions in a vector of 1, one broken connection; 2 tables, 2 databases and 3 notices of tasks; 5 alarms, 3 modules, 2 ports; 5 voltages to a detector of 2 devices; a Baumer camera of 2 buffers; the thermal camera with 2 values, 2 starts, 2 logins, 2 measurements and 2 pictures | images have the name of their camera and decoders stay, but for what the statics and the ports allow; subtitles fit without loss; one statement lost at most; queries answer what they ask for; the bits of an alarm are of levels told of its number, and no fault without a cause; each arc in one row; buffers come back and devices are free; no part of an image that a slot reads is older than the picture told, though it may be of several, and its values are of about one time; nothing stays after stop(); a batch is stored whole, a position in one; rows are in the database of their task |

Why the bounds are enough. A hazard here needs few actors: a CAS race needs a
getter, a second thread and one recycled address; the registry must overflow,
hence three tasks over a limit of two; a descriptor must be reused while a stale
entry for it exists, hence three clients over a limit of two; a second recording
must follow a first, and a cache of two must overflow, hence four frames; two
starts in one second, a failed start between two good ones and a stop that meets
each of them need two rows and two seconds. A row can be lost or doubled only
between two workers, of which one swaps the buffers while the other has not
written: two of each, and a task that changes in between. Three scans let an
overrun begin, go on and end; the six shapes are no point, one point, one region,
a region to the end of the scan, two regions, and a hole just short of a gap. Four
items overflow a pool that keeps one and leave a batch of two behind a failed
send. Three starts give a recording that fails between two that do not. Subtitles of
one to five characters of one and of three bytes meet the end of a line of four at
every place, whole and in the middle of a character. Five replies are the fewest of
which a cancellation can leave two running. Two cameras share the statics and a number
of a port; three ports let both have a decoder while one number is free. A third
condition is needed for an OR between two ANDs; two outages and two threads with one
id let each way of losing a connection follow the other. Two ports let one's timer take the
life of modules that the other's takes too; the five alarms are one of each way to be
registered. Two devices let each voltage be handled twice, and five voltages
give two arcs, of which one is in the task's hands when the other ends.
One image that is read while the next picture is copied needs two pictures, and two
values let the second measurement pass the first between them. Four positions are two batches, or one that both
threads insert. Three notices let a table miss one task between two that it opens for.
Five calls are one that is kept, and four that are made around a move. A pole's image has to begin under one task
and end under another. Every action of every module fires in some passing run, and each property has a mutation of the code's model that
breaks it (operators commented `Mutant of`; no specification uses them).
Deadlock is not checked where the bounds (clock, calls, frames) let the model
stop.

### Fairness

Weak fairness everywhere, and only for what the operating system
or Qt schedules: threads that are runnable run, the event loop dispatches, a
finite task ends, the clock advances, a started timer fires, a listening socket
is served, an attempt to connect succeeds or fails and a loss that the socket can
see is reported. Of `EventThread` only stop() is fair: that it returns does not need a
caller that gets its loop. No
operator, client, camera or network is assumed to do anything: a camera may
stop, an operator may never stop a task, a network may refuse for ever. Slots of
modules are assumed to return; BaumerManager::stop may not (below). In `MCDevices`
the worker threads, the notifications that a producer owes, the thread of
`LocationCtrl` with the notification of its end, and the threads and stop() of the
two managers are weakly fair, and so are the timer, the tasks and the answers of the
tag reader; initialisation may fail for ever, plug events need not happen.

## Proofs

Proved by TLAPS for every value of the constants allowed by the named
assumptions of each module. A theorem whose run composes several parts speaks of
the composed specification (`MCSpec`): one part steps at a time, and the parts
share no variable.

| module | theorems | argument |
|---|---|---|
| `ObjectPoolProofs` | `PoolTypeCorrect`; under `OneGetter`, `PoolNoUseAfterFree`, `PoolSingleOwner`, `PoolImplements` | "Reachable from the head" is not inductive. `PoolInv` speaks of the linked nodes instead, those allocated and in nobody's hands: they are closed under `next`, no two have the same successor and none leads to the head; what a thread read before its CAS is still true if the CAS can succeed; every node has an object of its own. Each needs the others: the CAS keeps the list only because its local reads are right, and these are right only because no second getter can free and recycle the node. Without `OneGetter` the invariant fails, as `object_pool_aba` shows. On it stands the refinement: each step is one of `AbstractPool` or leaves what it sees, and the successful CAS is where an object becomes free or lent. |
| | under `OneGetter` and `Reserve`, `PoolCounterAndMaximum` | `CountInv`: `m_count` is the length of the stack corrected by the updates under way, wrapped when a pop was counted before its push; the nodes on the stack and on their way to it are fewer than the maximum and the droppers together, since each of these may have passed the test alone. The stack is counted as a set: a push adds the one node and a pop removes the head. `Reserve` says that threads and nodes are finite and that `m_count` has room for the maximum and the threads. |
| `CommonKitsProofs` | `SnifferTypeCorrect`, `SnifferOneOwner` | `OwnerInv`: a thread holds a watcher exactly between getting and returning it and, until the pool is damaged, has not registered it before the step that does; the event thread's watcher is a watcher. The ownership statement alone does not say that a held watcher is unregistered when it is about to be. `PoolInv`: the watchers there are, with those about to be built, are fewer than the registry and the threads can hold (`EnoughWatchers`), and a watcher destroyed under its handler left a full pool behind. |
| | `SnifferRegistrySound` | `EntryInv`, which holds until `clear` and while the pool is not damaged: a parked watcher has nothing under way (`ParkedQuiet`), a pending event or a queued task has the entry it needs (`EventHasEntry`, `EntryWaits`), and no two tasks are about one watcher. `OneStart`: a task is started once and has no entry before its thread registers it. |
| | `TimerTypeCorrect`, `TimersOfANameBounded`, `TimerNoneAfterStop`, `TimerPeriodicKept`, `TimerLateNeverEnds` | `TimerInv`. Its core is `Late`: who is in the loop of the timer thread came too late, the pool has stopped. So nothing leaves the loop, and while the pool runs no popped timer is away. In a stopped pool one may be, and a call that tested m_bRun before stop() then queues a second timer of its name, which the requeue (ConcurrentPool.h:261) does not look for; a third would find the second in the queue. `Distinct` tells the ids of requests apart, so that a client that starts its own task late starts no timer's function. |
| | `SaverTypeCorrect`, `SaverRecordingsApart` | `SaverInv`: `m_isBeforeRecording` is set exactly while the save thread collects (`FlagWhileCollecting`). When the thread does not use the cache, it holds one frame at most, and a frame that passed the test earlier finds it empty (`Drained`): that is the one frame an earlier recording may leave. After that frame the cache follows the camera, and its last frame is the latest, or the one before while the latest is being pushed (`CacheFollows`), so no frame after the call is lost. |
| `TaskServiceProofs` | `TaskTypeCorrect`, `TaskRunningHasFolder`, `TaskOnlineAfterStop`, `TaskStopEndsTold` | `ToldCurrent` relates what was announced to what the service knows: they differ only after a failed start, which leaves the old id and the raised flag. With it a row id in the record is the one that was announced, and a cleared flag means that a stop was. Queued notifications carry the folder condition until they are handled. |
| | `RadarRecordsTypeCorrect`, `ScanRowsSound` | Three invariants, one for each part of `RowsOfScans`. `RadarInv`: a scan of a kind is in one place (`Spots`: queue, pool, hand, buffers, batch, database), and a buffer that is ready has a thread that will write it (`ReadyHasWriter`). `DeviceInv`: along the way of a device's frames - received, decoded, queued, fetched - numbers rise, and each queued frame has a signal of its own. `RecordInv`: while sizes are added and frames copied, `Ends` gives the places where the frames of the devices end; the copied points are those of `Filled` as long as no frame was replaced in between. |
| `EventLoopsProofs` | `LoopTypeCorrect`, `LoopOnePerName`, `LoopInUseKept` | `LoopInv` adds that a loop in the table runs or has ended, and that a loop is given out only after it was started. Then the thread that loses a race, new until it is destroyed, is neither in the table nor known to any caller, and what `stop` destroys has ended. |
| | `ModulesSlotsInLife`, `ModulesNoCrossWait` | `FrameInv`: where the main thread is says how far each module has come (`MainAt`, `ModuleAt`), every event waits on the thread its module lives on (`EventsAtHome`), and every slot that runs on a loop, the nested ones too, is of a module that exists and lives there, on the main thread only within a start() (`HandlerAt`). Destroying a module filters its events out of the queues; what remains is known from lemmas about the filter, by induction over numbers. |
| | `LinkTypeCorrect`, `LinkFlagTellsState`, `LinkOpenIsKept` | `LinkInv`: the three together are inductive; each slot changes socket, flag and timer in one step, and a descriptor is given out only when no open socket has it. |
| `PositioningProofs` | `ReadingsStoredOnce`, `ImageEndsOnce`, `ImageMovesLittle`; under `PolesApart`, `PoleOfTheTrain` | `ReadingInv`: readings rise in each of the three places, and those in a place came before those in the places behind it. `SentInv`: the remembered type is that of the last reading sent. `LocationInv` holds the fields of task and direction, and the last two theorems are about what the search for a pole returns. `PolesApart`: poles lie at least as far apart as what is added to a position; on another line the pole found need not be the one behind. |
| `ServicesProofs` | `StatementLostOnce`, `NamesHaveConnections` | `ConnectionInv`. A lost statement is followed by one that works because of `NextOneWorks`: with the server up, a thread that lost one has no connection, or one of its own that is known to be closed. `Registry` needs `OwnSteps`: a thread that makes a connection or enters its name is not yet among the names. |
| | `PacketShowsWhatWasTold` | `PacketInv` adds `CountersTell`, that a counter is never behind the silence of its module, and `FirstLacksNumber`, that the number of the port is missing only until the first packet. `TypesApart` says that a number of `AsDocumented` is registered for the type it is documented as, and no other number for that type; `AlarmsApart` and `AlarmsNoFaults` say of the bits that what one type lowers no other has raised. Modules that share a bit share its cause. |
| | `RowsComeToTheDatabase` | All nine parts of `RowsInDatabase` from five invariants over disjoint variables. `AnswerInv`: a query without a repeated field binds each condition's own value (`BoundAsAsked`). `ArcInv`: what is in the rows, in the arc under way and still due adds up to the arcs of all devices, less the first sample each counting drops; row numbers are apart wherever the row is. `PositionInv`: of the positions that only one thread handled, each is in one place (`InOnePlace`, `Kept`), and what both touched is named (`Touched`); a batch is in the table as a whole, not at all, or row by row, as its transaction went (`BatchInv`). `ProgramInv`: which phase the earlier program is in says what its receiver and its tables may be. |
| | `CamerasShowTheirImages` | All ten parts of `ImagesOfCameras` from four invariants over disjoint variables. `PlayerInv`: which cameras have had the number of a port (`Numbered`), and what waits in a decoder is of the camera that the callback will name, or data of others came since (`Fed`). `TitlesInv`: the folded lines, with the rest of the line, are the text that was told; it is carried through the two loops of the folding by `FoldStep` and `CutStep`, over lemmas about the size and the letters of a string (`Bytes`, `Fits`, `Letters`). `StreamInv`: at which step of its start a camera of Baumer has its stream, its buffers and its name (`Stages`), and what has failed when something stays open (`Opened`). `ThermalInv`: each value is of the latest measurement or, until it is stored, of the one before (`Measured`), and where the capturing thread is says which parts of the image are of its picture alone, while each part holds of the picture before and this one at most, and no signal under way is for a later one (`Pictured`, with `Whole` and `Oldest`). |
| `DevicesProofs` | `ItemsComeInOrder` | `ConsumerInv`: numbers rise in what was worked on, in what is in hand and in the queue, and each number in one place is below those in the places behind it; of camera and decoder they are all that were put (`AllItems`). The five classes differ in how they take, and each way moves a beginning of one place to the end of another (`First`, `After`). `CallInv`: what was shown, invoked and kept comes before what is posted; of a pair out of order the later call was direct and the earlier posted (`InTheirOrder`), which loading, handling and the moves between threads keep. |
| | `DevicesAnswer` | `CounterInv`: answers lie in the order of the requests on their way (`AnswersInOrder`), and there are as many under way as rounds found none, with that of the first round and that of this one (`UnderWay`); the limits counted for the way not yet computed are at least one for each of its rounds that found nothing (`WayIsCounted`); and the clock went on by no more than a limit and an interval in each round (`RoundsInv`). The last two bound the time between the requests of two values by the time divided by (`SpeedInv`). `ReaderInv`: a tag that has passed is somewhere (`NoneLost`), where the frames, messages and commands under way are counted as places, and what is merged with another frame is noted when it is (`MergedNoted`). |
| | `RecordingsAreSound` | `StationInv`: the last signal that was told, or the recording if none waits, is of the station that the thread remembers (`Remembered`), and when it sleeps its station is the one told last, but for the reset in progress and the first notice (`UserSleeps`, `KitSleeps`). `RecorderInv`: an encoder that is open has its muxer, or one that starts or failed, and while a new pair is made there is no old one. |
| `RadarAndHttpProofs` | `RepliesAreToldOnce` | `WebInv`: the list has each reply once, and is what runs and was not passed by (`EachToldOnce` does not say that no reply is listed twice). The walk of `cancelAllRequests` needs an invariant of its own (`Walked`): after k places the list is at most k shorter, the places that follow hold what lay as many places behind them or the last element, and of every second element up to 2k - 1 none runs. What `removeAll` leaves of a list is known from `RemovedIs`. |
| | `RegionsAreSound` | `FindsEachGroup` and `EachScanOnce`, by `OverrunInv`. While no scan has shown two regions and the first table of indexes lasts (`Lasting`), the open list is a run of scans that ends with the last one (`OpenRun`, `RunTo`), what was handed over are runs before it, one behind the other (`HandedRuns`, `HandedApart`), every kept scan is in one of them (`EachSomewhere`), and an index in use is taken in the table, so the next one is another (`IndexTable`). The walk through the points has an invariant of its own (`Counted`): the regions listed, and the open one, are as many as the groups that begin up to the point (`GroupsTo`); of the object it is given only the type is known, so what a recycled object holds does not matter. |

Sums over sequences, filtered sequences and the folding of subtitles are recursive
functions in the models.
The library's induction takes an operator, which the provers cannot instantiate;
the proofs use its well-foundedness of the naturals on a set of numbers instead
(lemma `NatSet`: a set that holds 0, and n + 1 with n, holds every number; and
`Recursion`: a function that is defined by what each value makes of the one before
exists).

Only model-checked: everything about liveness, since fairness and ENABLED are outside
the prover, and `RegionsAccounted` of `RadarOverrun`, the lists of scans with several
regions. Every other safety invariant and every action property of the runs that pass is
a theorem.

## Where code and its comments disagree

Each of the first two is a run that ends in a counterexample.

1. `HeadIsTopOfStack` (ObjectPool.h:154): two getters race on a recycled node.
   ConcurrentSniffer::acquire gets watchers from any thread, so two getters occur;
   `ConcurrentSniffer` has them, as `damaged`, and claims nothing after it.
2. `RunAfterRuns` (ConcurrentPool.h:210): the timer loop's condition is inverted;
   no delayed or periodic function ever runs while the pool is running.
   `LateThreadNeverEnds` records the other half: a timer thread that first
   looks after `stop()` waits for ever, and the destructor joins it.

Seen in a model, stated here without a run. ConcurrentSniffer.h:64 drops the last
reference to a watcher that the handler reads afterwards: the memory may be freed by
a full pool (ObjectPool.h:129; it keeps 1024 watchers and the registry holds as many, which
is enough for one thread only), or the watcher be lent to another task, whose future is
logged. ConcurrentPool.h:261 queues a periodic task again without a look at the names: two
timers of a name, of which a cancellation stops one. EventThread::stop waits with the lock
held for a handler, which asks for a loop and waits for that lock (`HandlerAsks` in
`StopReturns`). ModuleBase.h:97 names no type of connection: who calls a module on the thread it
lives on runs its slot at once, so a notify from one module's start() runs slots of
modules that are not started, and slots nest. TcpServer.cpp:84 reads the descriptor
after the socket was closed, so nothing is erased and closed clients fill the
table: a client is refused below the limit. SaveVideoCache.cpp:223 reads two flags
around a copy, which puts a frame into both halves of a video. RadarRecord.cpp:127
swaps the ready buffer although the task that writes it may not have run: its rows
are lost. RadarService.cpp:250 adds up the sizes without the mutex, so a frame that is
replaced meanwhile cuts the scan, or leaves at its end points of the earlier scan that
the recycled object held; YanYanDeviceDeal.cpp:153 never says that a device is online
again after one time limit. RadarOverrun.cpp:68 says that a region of too few points is not valid, but counts
the points that the object held before, of which a new one has more than that: no region is ever refused,
and its angle is that of a point half way through all of these; :80 leaves the object of a region that ended in hand, so
all regions of one scan share it; :230 reads an index after it was erased; :337
takes begin() of an unordered map for the largest key. JiHeService.cpp:307 takes
back() of a vector that another thread may have cleared. LocationService sets the
distance to a station's place on the line (not to the way to it), and keeps the
start of an image across tasks; RoughPositionBase.cpp:54 finds the last pole for
the next one. ConnectivityManager6051.cpp:180 waits without a predicate, so one
late answer shifts all that follow by a request; :311 divides a way by the configured
interval and 100 ms (:276) for each round without an answer, while a round lasts its wait and the
interval, so the speed is overstated, by as much as `OverstatedByWaits` allows; and the
first speed is that of the whole counter. BaumerManager.cpp:106 looks a
camera up twice, and a plug event between leaves a null pointer that is
used; a camera that is plugged in again is never named; :72 does not test its stop
flag, so a shutdown without cameras hangs; `ifc->second` at :326 does not compile.
BaslerManager.cpp:89 joins a thread with the mutex held that this thread needs, so a
stop() that comes first never returns; its other thread (:69) is never joined, and
init() of both classes of cameras uses a camera it has not made. SaveVideo.cpp:68
opens the encoder before the muxer: a packet may meet a muxer without a stream or
a file, also after its start failed, whose stream stays for the next one
(muxingvideo.cpp:114); encodevideoffmpeg.cpp:81 goes on when the codec did not open.
camera_user/LocationCtrl.cpp:36 waits before it looks, so a station told early is not
recorded until the next one. HikCamera.cpp:579 splits the second line of a long
subtitle a character too far. HttpClient.cpp:112 removes from the list it walks
through: every other reply is left running when its name says all are cancelled,
and the walk reads behind the end of the list. CameraHik.cpp:251 notes the camera of
the last data for the images of all decoders, so two cameras get each other's images
(`ImageOfItsCamera` says only that there is no other cause);
bInit (:252, HikCamera.cpp:179) is one for all cameras, so the second one to start has
no decoder unless both start at once; the callback (:260) gets a second port and the
first is never freed, the second twice, and so perhaps the port of another camera;
HikBase's members are declared again in HikCamera and have no first value, so the
first login may be refused. DatabaseConnections.cpp:46 returns a connection that is
not open, once; SqlSelect.h:77 binds by the name of the field, so both ends of a range
are the last one (OfflineSqlOp.cpp:84).
PositionDataBase.cpp:57 is run by two threads without a lock: positions told at a time are
lost, overwritten or inserted twice, and a vector that moves may end the program; up to 51
are still there at the end and inserted by nobody, and those of a batch that failed are
cleared (SqlInsert.h:131 does not test the begin of the transaction).
DBCommunicationHandle.cpp:128 sets the state of the task though a table did not start, whose
rows are then lost; HistroyProgramComm::stop leaves the tables open and handles further
tasks. Calls for the page that were kept wait for the next call (QmlPrivateEngine.cpp:232), and
one made on the module's own thread overtakes those in its queue. Nobody calls the functions that fill the tables of
MVBPmsDataGenerator (:17, :36, :58), and nothing in src/ names MVBService, so the packet has no
bits. With the tables filled, MVBPmsDataGenerator.cpp:19 counts the first four types of alarms from
zero, which MVBCommonData.h:40 numbers from 1: temperature (1) is shown as a pull-out, a pull-out (2) as a
height, a height (3) as an arc, and an arc (4) as a height again (:23), so that the
levels of 2 and 4 mix; types 9 and 14 have no place, and the first level of a height is bit 9 of 8, which
throws (MVBNBDataGenerator.cpp:134). MVBPmsDataGenerator.h:66 has the levels 0 to 2, and others are not
valid; the code has bits for 1 to 3, lowers none of them when another level comes, and with any other number
lowers the first, so the documented primary level 0 ends level 1 and 3 is shown. Further, modules share bits of faults; a life is as many
timer ticks of all ports together; MVBPmsDataGenerator.h:72 says that 1 is online, which
raises the fault; the check sum of the first packet is made before its number of the port
is entered (MVBNBDataGenerator.cpp:432); the timers go on after stop(). arcuv_service.cpp:55 connects
its one detector once for each device, so each voltage is counted as often, by the last
device's threshold and name; an arc goes on until a voltage below comes 100 ms after its begin; rows are cleared also when they were refused
(:160). BaumerManager.cpp:109 connects images that :212 has connected, so each comes
twice; BaumerCamera.cpp:82 leaves the device open when it has no stream or its stream is
open; a handler that throws (:107) leaves its buffer out of the queue. TemperatureService.cpp:76
connects the image once more with each start, after the thread has begun;
HikTemperatureCamera.cpp:150 leaves the SDK while m_initFlag stays, so a service that
is stopped does not open again; a refused thermometry (:85) leaves a user logged in each
100 ms; one image (:415), as large as the first picture, is written without a lock
while slots read it, its numbers, values, picture (:427) and temperatures (:428) one after
the other: a slot may find a part torn, or parts of two pictures or more (`PictureAsTold` says only
that none is older than the picture told). RfidVFR61M.cpp:113 clears tags that came after
the count, and :174 tells an empty tag when two frames come in one message.

Seen while reading. The pool's counter wraps below zero when a pop overtakes the
counter update of its push; `invokeSync` has no time limit although ModuleBase.h:60-61 speaks of 2000 ms; a
notify during shutdown can reach a destroyed module (`CalledModulesExist` in
AppFramework does not hold); writeVideofunc writes each packet twice;
a muxer is freed without a lock while the save thread may write; a failed muxer
leaves the encoder initialised; the cache of later frames has no limit; an
exception while recording is answered as success; a task started by hand
leaves the row of the task it replaces without an end; the direction of an online
task is inverted against Struct.h:59; a failed start leaves m_bStartTaskFlag set;
enablePing is never called. RadarRecord.cpp:67 and :94: start and end of a location
change places and a function static is written as the number of points;
RadarService.cpp:457: an index of -1 meets an unsigned size; the object of filtered points
(:238) is never cleared, so that the test for a tilted device (:294) sees points of
earlier scans and 600 zeros, and :304 makes an entry without a device when none has index 0;
YanYanDeviceDeal::ReloadDevice is empty, so an offline device stays offline.
The timer that would show subtitles is not started, and the periodic task that would
do it never runs (the inverted loop above), so that they do not reach the camera;
HikCamera.cpp:281 pushes to a queue without the mutex of its reader, and its static
flag lets only the first stream open the decoder; LiveNvr connects its handlers
again with each request, so that requests multiply; CameraCtrl.cpp:181 announces a recording whatever
startRecord returned. YYJiHe::Refresh takes front() of an empty vector, and always
returns false, so that nothing is sent; HikManager makes a HikCamera for the type
"TEMPERATURE"; batchUpdate, which nothing calls, has no SET clause and returns inside its
transaction (SqlUpdate.h:134); the id that getArcID of dwcarcuv takes is the first row's.

## Plan

Done, in this order, most shared first: pool, timers, registry, loops, framework,
link, recorder, task; then radar, worker threads, positioning, pulse counter,
camera managers, stations, the second recorder, subtitles, replies, the decoders of
Hikvision, the database, the tag reader; rows of positions, the earlier program, calls for the
user interface; the bus, the arcs, the streams of Baumer, the
thermal camera. Left:

1. `LiveNvr`: which reply reaches which handler.
2. What a lost statement does to a task.
3. `CameraManager` in `AppFramework`'s shutdown, in place of the assumption that stop
   returns; `TaskService` with the radar as one inspection.

Of the theorems the prover could reach, `RegionsAccounted` of `RadarOverrun` is left, and what new
parts will state.

## Not modelled, and why

Drivers and libraries (cameras, recorders, FFmpeg, ZeroMQ, SQL) are outside the
source: what they do is a choice of outcomes where a model needs it. Byte layouts
and numerical code have no state and no concurrency. The console, the log and the
pages of the user interface change nothing the properties speak of. Vendored code
(duagon_card/third_party, bdaqctrl.h) is left aside. The reasons for each part are
in `PROJECT.json`. ConnectivityManager7404.cpp (m_UdpClient, m_udpClient) does not compile,
RossekSeverService (m_tcpServer) does not either,
and nothing makes a CameraBaumer of kits/camera_service or a Sick3DCamera: they are left out.

Three hazards have no property and are not in the list of `PROJECT.json`: a cancelled
name that was not queued cancels a later timer (ConcurrentPool.h:116, hidden by the
inverted loop), a silent peer of a
client without ping (TcpClient.cpp:83, no code could notice), and the second cache
without a limit (SaveVideoCache.cpp:226, its size is what the camera delivers).
