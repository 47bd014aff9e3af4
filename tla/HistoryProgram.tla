--------------------------- MODULE HistoryProgram ---------------------------
(***************************************************************************)
(* modules/histroy_program_comm and kits/common/histroy_uniqueidrecv: what  *)
(* the station tells an earlier program.  A notice of a task opens the      *)
(* tables in the database of that task, and rows are pushed to them; a      *)
(* thread keeps a connection that receives the global ids.                  *)
(*                                                                          *)
(* Of the libraries: a table that is started is open in the database named, *)
(* unless the start fails, and is closed when it is stopped; a start of an  *)
(* open table fails; rows pushed to a table that is not open are lost.      *)
(***************************************************************************)
EXTENDS Integers, Sequences, FiniteSets

CONSTANTS Tables,      \* ArcDB, VideoDB, IRDB, PantoTable, PressAndAccDB
          DbNames,     \* taskdbname of the notices
          None,
          MaxNotices   \* bound

HistoryAssumption == None \notin DbNames /\ MaxNotices \in Nat

VARIABLES phase,        \* of the module: "made", "started" or "stopped"
          hasTable,     \* the m_has...Table that are set
          m_bTaskState,
          opened,       \* table -> the database it is open in, or None
          notices,      \* sendTaskInfo signals that the module has not handled
          heard,        \* notices so far
          told,         \* the taskdbname of the last one handled
          pushed,       \* rows stored: the table, the task told then, and the database
          m_startflag,  \* of HistoryUniqueIDRecviever
          receiver,     \* its thread: "none", "test", "work" or "ended"
          bOpen,
          client,       \* the library's: "none", "closed", "open" or "freed"
          misused       \* a call that the client's state does not allow

historyVars == <<phase, hasTable, m_bTaskState, opened, notices, heard, told, pushed,
                 m_startflag, receiver, bOpen, client, misused>>
tableVars   == <<hasTable, m_bTaskState, opened, told, pushed>>
receiveVars == <<receiver, bOpen, client, misused>>

Init == /\ phase = "made" /\ hasTable = {} /\ m_bTaskState = FALSE
        /\ opened = [t \in Tables |-> None]
        /\ notices = <<>> /\ heard = 0 /\ told = None /\ pushed = {}
        /\ m_startflag = FALSE /\ receiver = "none" /\ bOpen = FALSE
        /\ client = "none" /\ misused = FALSE

-----------------------------------------------------------------------------
(* The module, and the rows and notices that its event thread handles.      *)

\* connect() and initDB() with the tables configured, of which there are none
\* when the database is not there; then the thread of the receiver is made.
Start == /\ phase = "made" /\ phase' = "started"
         /\ \E configured \in SUBSET Tables : hasTable' = configured
         /\ m_startflag' = TRUE /\ receiver' = "test" /\ client' = "closed"
         /\ UNCHANGED <<m_bTaskState, opened, notices, heard, told, pushed, bOpen, misused>>

\* The library tells of a task from a thread of its own, also after stop().
RecvTaskInfo(name) ==
  /\ phase # "made" /\ heard < MaxNotices
  /\ heard' = heard + 1 /\ notices' = Append(notices, name)
  /\ UNCHANGED <<phase, tableVars, m_startflag, receiveVars>>

StopDB(tables) == IF m_bTaskState THEN [t \in Tables |-> IF t \in hasTable THEN None ELSE tables[t]]
                  ELSE tables

\* Mutant of StartDB: the tables of the task before are not stopped.
StartDBAgain(name) ==
  /\ \E fails \in SUBSET hasTable :
       opened' = [t \in Tables |-> IF t \in hasTable \ fails /\ opened[t] = None THEN name
                                   ELSE opened[t]]
  /\ m_bTaskState' = TRUE

\* startDB: each table is stopped and started; the state is set although a
\* start fails.
StartDB(name) ==
  /\ LET closed == StopDB(opened)
     IN \E fails \in SUBSET hasTable :
          opened' = [t \in Tables |-> IF t \in hasTable \ fails /\ closed[t] = None THEN name
                                      ELSE closed[t]]
  /\ m_bTaskState' = TRUE

\* Every notice opens the tables, that of the end of a task as well.
ReceiveTaskInfoSlots ==
  /\ notices # <<>> /\ notices' = Tail(notices)
  /\ told' = Head(notices) /\ StartDB(Head(notices))
  /\ UNCHANGED <<phase, hasTable, heard, pushed, m_startflag, receiveVars>>

\* writeArcData, writeIRData and writePressAndAccData, of the rows the other
\* modules tell.
Push(t) ==
  /\ phase # "made" /\ m_bTaskState /\ t \in hasTable
  /\ pushed' = IF opened[t] = None THEN pushed ELSE pushed \cup {<<t, told, opened[t]>>}
  /\ UNCHANGED <<phase, hasTable, m_bTaskState, opened, notices, heard, told, m_startflag, receiveVars>>

\* stop() of the module leaves the tables open; it returns when the receiver's
\* thread has ended.
Stop == /\ phase = "started" /\ m_startflag /\ m_startflag' = FALSE
        /\ UNCHANGED <<phase, notices, heard, tableVars, receiveVars>>

StopReturns == /\ phase = "started" /\ ~m_startflag /\ receiver = "ended"
               /\ phase' = "stopped"
               /\ UNCHANGED <<notices, heard, tableVars, m_startflag, receiveVars>>

-----------------------------------------------------------------------------
(* recvUniqueIdThread.                                                      *)

OfReceiver == UNCHANGED <<phase, notices, heard, tableVars, m_startflag>>

TestFlag == /\ receiver = "test" /\ m_startflag /\ receiver' = "work"
            /\ UNCHANGED <<bOpen, client, misused>> /\ OfReceiver

Open == /\ receiver = "work" /\ ~bOpen /\ receiver' = "test"
        /\ misused' = (misused \/ client # "closed")
        /\ bOpen' \in BOOLEAN /\ client' = IF bOpen' THEN "open" ELSE client
        /\ OfReceiver

\* IsTimeOut: the connection is good.
InTime == /\ receiver = "work" /\ bOpen /\ receiver' = "test"
          /\ UNCHANGED <<bOpen, client, misused>> /\ OfReceiver

\* Mutant of TimeOut: the flag stays, as if it were open.
TimeOutKept == /\ receiver = "work" /\ bOpen /\ receiver' = "test"
               /\ misused' = (misused \/ client # "open") /\ client' = "closed"
               /\ UNCHANGED bOpen /\ OfReceiver

TimeOut == /\ receiver = "work" /\ bOpen /\ receiver' = "test"
           /\ misused' = (misused \/ client # "open") /\ client' = "closed"
           /\ bOpen' = FALSE /\ OfReceiver

\* The thread ends: Close if it is open, and FreeUniqueIdRecieveDll.
EndReceiver == /\ receiver = "test" /\ ~m_startflag /\ receiver' = "ended"
               /\ misused' = (misused \/ client # IF bOpen THEN "open" ELSE "closed")
               /\ client' = "freed"
               /\ UNCHANGED bOpen /\ OfReceiver

Next == \/ Start \/ Stop \/ StopReturns \/ ReceiveTaskInfoSlots
        \/ (\E name \in DbNames : RecvTaskInfo(name)) \/ (\E t \in Tables : Push(t))
        \/ TestFlag \/ Open \/ InTime \/ TimeOut \/ EndReceiver

-----------------------------------------------------------------------------
\* A row is in the database of the task that was told last, though a start of
\* its table may have failed, then or for the tasks before: rows are lost then and
\* never go to an earlier task (DBCommunicationHandle.cpp:70-131, :161-363).
RowsOfToldTask == \A r \in pushed : r[2] = r[3]

\* The receiver opens what is closed, closes what is open and frees what is
\* closed; its thread has ended when stop() returns
\* (HistoryUniqueIDRecviever.cpp:53-92).
ReceiverCloses == /\ ~misused
                  /\ phase = "stopped" => client = "freed"
=============================================================================
