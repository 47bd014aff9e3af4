----------------------------- MODULE MCServices -----------------------------
(***************************************************************************)
(* Services which share no state are checked side by side: a behaviour is   *)
(* about one of them, and leaves the others as they were at the start.      *)
(***************************************************************************)
EXTENDS HikPlayer, TLC

CONSTANTS p1, p2,
          ThreadIds, MaxThreads, MaxOutages, Fields, Values, MaxConditions,
          Width, MaxBytes, MaxLines, Told, MaxTold,
          BusPorts, ArmNos, ModulNos, ComId, AliveTime, AliveLimit,
          Voltages, Threshold, Devices, TimeoutTicks, MaxVoltages,
          Buffers,
          Measures, MaxStarts, MaxLogins, MaxMeasured, MaxPictures,
          Limit, MaxPositions, MaxBreaks,
          Tables, DbNames, NoDbName, MaxNotices

VARIABLES machine,
          alive, thread, step, registered, connection, held, m_connectionNames,
          server, outages, stopped, lost, m_conditions, rows, m_setValues, updated,
          mvec_subTitle_nofold, folded, m_subTitle_show, told,
          m_startFlag, terminated, m_armInfosetlist, m_modulStatussetlist, m_modulStatus,
          m_AliveNum, raised, comId, sent, level, levels, faulty, silent,
          due, ctx, age, submit, m_arc_Vector, tasks, stored, lostRows, kept, voltages,
          at, deviceOpen, streamOpen, m_pDevice, m_pStream, acquiring, queued, busy,
          lostBuffers, m_ImageBufferPools, m_name, connections, owner, starter, unheard,
          failed, crashed,
          irtype, main, starts, serviceStarted, connector, m_initFlag, cameraOpened,
          m_captureFlag, capturer, loading, sdk, user, refused, measured, storing, buffer,
          parts, captured, posted, imageConnections, seen,
          next, m_InsertData, insertAt, position, place, batches, storedRows, result,
          batch, row, inserter, breaks, overlapped,
          phase, hasTable, m_bTaskState, tableOpened, notices, heard, taskTold, pushed, m_startflag,
          receiver, bOpen, client, misused

D == INSTANCE Database WITH Ids <- ThreadIds
T == INSTANCE Subtitles
M == INSTANCE MvbHeartbeat WITH Ports <- BusPorts
A == INSTANCE ArcDetector WITH lost <- lostRows, told <- voltages
S == INSTANCE BaumerStream WITH lost <- lostBuffers
K == INSTANCE TemperatureCamera WITH Count <- Measures, m_startFlag <- serviceStarted,
       opened <- cameraOpened, m_lUserID <- user, connections <- imageConnections
P == INSTANCE PositionRecords WITH at <- insertAt, open <- inserter
H == INSTANCE HistoryProgram WITH None <- NoDbName, opened <- tableOpened, told <- taskTold

ASSUME MCAssumption ==
       /\ PlayerAssumption /\ D!DatabaseAssumption /\ T!SubtitleAssumption
       /\ M!MvbAssumption /\ A!ArcAssumption /\ S!StreamAssumption
       /\ K!TemperatureAssumption /\ P!RecordsAssumption /\ H!HistoryAssumption

\* A narrow and a wide character; strings of them, alone, in pairs and triples.
MCWidth == (" " :> 1) @@ ("." :> 1) @@ ("n" :> 1) @@ ("w" :> 3)
Strings(n) == UNION {[1..k -> {"n", "w"}] : k \in 1..n}
MCTold == {<<s>> : s \in Strings(5)} \cup Strings(3) \X Strings(2)
            \cup Strings(2) \X {<<"w">>} \X Strings(2)

databaseVars == <<alive, thread, step, registered, connection, held, m_connectionNames,
                  server, outages, stopped, lost, m_conditions, rows, m_setValues, updated>>
titleVars    == <<mvec_subTitle_nofold, folded, m_subTitle_show, told>>
packetVars   == <<m_startFlag, terminated, m_armInfosetlist, m_modulStatussetlist, m_modulStatus,
                  m_AliveNum, raised, comId, sent, level, levels, faulty, silent>>
detectorVars == <<due, ctx, age, submit, m_arc_Vector, tasks, stored, lostRows, kept, voltages>>
baumerVars   == <<at, deviceOpen, streamOpen, m_pDevice, m_pStream, acquiring, queued, busy,
                  lostBuffers, m_ImageBufferPools, m_name, connections, owner, starter, unheard,
                  failed, crashed>>
thermalVars  == <<irtype, main, starts, serviceStarted, connector, m_initFlag, cameraOpened,
                  m_captureFlag, capturer, loading, sdk, user, refused, measured, storing, buffer,
                  parts, captured, posted, imageConnections, seen>>
positionVars == <<next, m_InsertData, insertAt, position, place, batches, storedRows,
                  result, batch, row, inserter, breaks, overlapped>>
programVars  == <<phase, hasTable, m_bTaskState, tableOpened, notices, heard, taskTold, pushed,
                  m_startflag, receiver, bOpen, client, misused>>

vars == <<machine, playerVars, databaseVars, titleVars, packetVars, detectorVars, baumerVars,
          thermalVars, positionVars, programVars>>

MCInit == /\ machine \in {"player", "database", "query", "titles", "alarms", "heartbeat",
                          "arc", "stream", "thermal", "positions", "program"}
          /\ Init /\ D!Init /\ T!Init /\ M!Init /\ A!Init /\ S!Init /\ K!Init
          /\ P!Init /\ H!Init
          /\ machine # "player"  => kind = "CameraHik"
          /\ machine # "thermal" => irtype = 0

\* What a step of each machine leaves alone.
NotPlayer   == UNCHANGED <<machine, databaseVars, titleVars, packetVars, detectorVars,
                           baumerVars, thermalVars, positionVars, programVars>>
NotDatabase == UNCHANGED <<machine, playerVars, titleVars, packetVars, detectorVars,
                           baumerVars, thermalVars, positionVars, programVars>>
NotTitles   == UNCHANGED <<machine, playerVars, databaseVars, packetVars, detectorVars,
                           baumerVars, thermalVars, positionVars, programVars>>
NotPacket   == UNCHANGED <<machine, playerVars, databaseVars, titleVars, detectorVars,
                           baumerVars, thermalVars, positionVars, programVars>>
NotDetector == UNCHANGED <<machine, playerVars, databaseVars, titleVars, packetVars,
                           baumerVars, thermalVars, positionVars, programVars>>
NotStream   == UNCHANGED <<machine, playerVars, databaseVars, titleVars, packetVars,
                           detectorVars, thermalVars, positionVars, programVars>>
NotThermal  == UNCHANGED <<machine, playerVars, databaseVars, titleVars, packetVars,
                           detectorVars, baumerVars, positionVars, programVars>>
NotPositions == UNCHANGED <<machine, playerVars, databaseVars, titleVars, packetVars,
                           detectorVars, baumerVars, thermalVars, programVars>>
NotProgram  == UNCHANGED <<machine, playerVars, databaseVars, titleVars, packetVars,
                           detectorVars, baumerVars, thermalVars, positionVars>>

MCNext == \/ machine = "player"    /\ Next         /\ NotPlayer
          \/ machine = "database"  /\ D!Connect    /\ NotDatabase
          \/ machine = "query"     /\ D!Select     /\ NotDatabase
          \/ machine = "titles"    /\ T!Next       /\ NotTitles
          \/ machine = "alarms"    /\ M!Alarms     /\ NotPacket
          \/ machine = "heartbeat" /\ M!Modules    /\ NotPacket
          \/ machine = "heartbeat" /\ M!Heartbeats /\ NotPacket
          \/ machine = "arc"       /\ A!Next       /\ NotDetector
          \/ machine = "stream"    /\ S!Next       /\ NotStream
          \/ machine = "thermal"   /\ K!Next       /\ NotThermal
          \/ machine = "positions" /\ P!Next       /\ NotPositions
          \/ machine = "program"   /\ H!Next       /\ NotProgram

MCSpec == MCInit /\ [][MCNext]_vars

\* An image has the name of its camera (CameraHik.cpp:251, HikCamera.cpp:183), lines
\* that hold the text that was told and fit (HikCamera.cpp:461-687); of Baumer, a
\* buffer and a receiver (BaumerCamera.cpp:33-224); of the thermal camera, values of
\* about one time and nothing older than the picture (HikTemperatureCamera.cpp:156-430).
ImagesOfCameras == /\ ImageOfItsCamera /\ DecodersStay
                   /\ T!FoldKeepsText /\ T!LinesFit
                   /\ S!ImagesHavePlace /\ S!BuffersComeBack /\ S!DeviceIsFree
                   /\ K!ValuesNearlyOfOneTime /\ K!PictureAsTold /\ K!StopClosesAll

\* A thread gets a connection that works, a query the rows it asks for and an update
\* changes these (DatabaseConnections.cpp:44-66, SqlSelect.h:65-160, SqlUpdate.h:104-231);
\* every arc is in one row that is written once (dwcarcuv.cpp:60-168), a position in one
\* batch, which is whole (PositionDataBase.cpp:54-68, SqlInsert.h:119-141); a row for
\* the earlier program is in the database of its task, and what receives the ids is
\* closed and freed (DBCommunicationHandle.cpp:70-131, HistoryUniqueIDRecviever.cpp:53-92).
RowsInDatabase == /\ D!OneStatementLost /\ D!NamesRegistered /\ D!AnswersWhatIsAsked
                  /\ A!ArcsCounted /\ A!RowsTakenOnce
                  /\ P!BatchesWhole /\ P!PositionsInserted
                  /\ H!RowsOfToldTask /\ H!ReceiverCloses

\* A packet but the first has its own check sum, the alarms whose numbers are of
\* their types, and no fault without a cause (MVBNBDataGenerator.cpp:20-448, MVBPmsDataGenerator.cpp:120-153).
PacketsSound == M!PacketsSound
=============================================================================
