--------------------------- MODULE PositionRecords ---------------------------
(***************************************************************************)
(* PositionDataBase of modules/location_service and the batch of SqlInsert: *)
(* the positions that are told are kept in a vector until it is longer than *)
(* Limit, and then inserted and cleared.  run() of LocationService and the  *)
(* handlers of corrections do this on two threads without a lock.           *)
(*                                                                          *)
(* push_back reads where the vector ends and then writes there: what is     *)
(* pushed at one time by both may be overwritten, and what is written       *)
(* behind a vector cleared since is lost.  That a vector that moves to      *)
(* another place meanwhile ends the program is not in the model.            *)
(***************************************************************************)
EXTENDS Integers, SequencesExt

CONSTANTS Limit,       \* the 50 of DataBaseInsert
          MaxPositions, \* bound: positions told
          MaxBreaks    \* bound: connections that break

RecordsAssumption == {Limit, MaxPositions, MaxBreaks} \subseteq Nat

Threads == {"run", "slots"}

VARIABLES next,         \* positions told so far
          m_InsertData,
          at,           \* thread -> where it is in DataBaseInsert
          position,     \* thread -> the position it was called with and has not pushed
          place,        \* thread -> whether it found the vector full, and where it ends
          batches,      \* the rows of every SqlInsert
          storedRows,   \* of each, the indexes of the rows that the table has
          result,       \* of each, "none", "success" or "failure"
          batch,        \* thread -> the number of its SqlInsert
          row,          \* thread -> rows executed
          open,         \* thread -> "broken", "auto" or "transaction": its connection
          breaks,
          overlapped    \* positions in hand or in the vector while both were in DataBaseInsert

recordVars == <<next, m_InsertData, at, position, place, batches, storedRows, result,
                batch, row, open, breaks, overlapped>>

bufferVars == <<next, m_InsertData, position, place>>
insertVars == <<batches, storedRows, result, batch, row, open, breaks>>

NoPlace == [full |-> FALSE, end |-> 0]

Init == /\ next = 0 /\ m_InsertData = <<>>
        /\ at = [t \in Threads |-> "idle"] /\ position = [t \in Threads |-> 0]
        /\ place = [t \in Threads |-> NoPlace]
        /\ batches = <<>> /\ storedRows = <<>> /\ result = <<>>
        /\ batch = [t \in Threads |-> 0] /\ row = [t \in Threads |-> 0]
        /\ open = [t \in Threads |-> "auto"] /\ breaks = 0
        /\ overlapped = {}

\* A thread goes on; what it shares with the other one is noted.
Goes(t, from, to) ==
  /\ at[t] = from /\ at' = [at EXCEPT ![t] = to]
  /\ overlapped' = IF \A u \in Threads : at'[u] # "idle"
                   THEN overlapped \cup ToSet(m_InsertData) \cup {position'[u] : u \in Threads}
                   ELSE overlapped

-----------------------------------------------------------------------------
(* DataBaseInsert of one position.                                          *)

WriteData2DB(t) ==
  /\ next < MaxPositions
  /\ next' = next + 1 /\ position' = [position EXCEPT ![t] = next']
  /\ Goes(t, "idle", "test")
  /\ UNCHANGED <<m_InsertData, place, insertVars>>

TestSize(t) ==
  /\ UNCHANGED position /\ Goes(t, "test", "push")
  /\ place' = [place EXCEPT ![t].full = Len(m_InsertData) > Limit]
  /\ UNCHANGED <<next, m_InsertData, insertVars>>

PushEnd(t) ==
  /\ UNCHANGED position /\ Goes(t, "push", "write")
  /\ place' = [place EXCEPT ![t].end = Len(m_InsertData) + 1]
  /\ UNCHANGED <<next, m_InsertData, insertVars>>

PushWrite(t) ==
  /\ position' = [position EXCEPT ![t] = 0]
  /\ Goes(t, "write", IF place[t].full THEN "insert" ELSE "idle")
  /\ place' = [place EXCEPT ![t] = NoPlace]
  /\ m_InsertData' = IF place[t].end > Len(m_InsertData) + 1 THEN m_InsertData
                     ELSE SubSeq(m_InsertData, 1, place[t].end - 1) \o <<position[t]>>
                          \o SubSeq(m_InsertData, place[t].end + 1, Len(m_InsertData))
  /\ UNCHANGED <<next, insertVars>>

\* Mutant of Clear: the vector is kept.
ClearNothing(t) ==
  /\ UNCHANGED position /\ Goes(t, "clear", "idle")
  /\ UNCHANGED <<next, m_InsertData, place, insertVars>>

Clear(t) ==
  /\ UNCHANGED position /\ Goes(t, "clear", "idle")
  /\ m_InsertData' = <<>>
  /\ UNCHANGED <<next, place, insertVars>>

-----------------------------------------------------------------------------
(* SqlInsert: insert() of the vector and execBatch().                       *)

\* The vector is cleared then; nothing looks at the result.
Returns(t, from, answer) ==
  /\ Goes(t, from, "clear")
  /\ result' = [result EXCEPT ![batch[t]] = answer]
  /\ batch' = [batch EXCEPT ![t] = 0] /\ row' = [row EXCEPT ![t] = 0]
  /\ open' = [open EXCEPT ![t] = "auto"]

\* The rows are taken, and prepare() tries the connection; an empty vector is not
\* inserted at all.
Insert(t) ==
  /\ UNCHANGED bufferVars /\ Goes(t, "insert", "begin")
  /\ m_InsertData # <<>>
  /\ batches' = Append(batches, m_InsertData) /\ storedRows' = Append(storedRows, {})
  /\ result' = Append(result, "none")
  /\ batch' = [batch EXCEPT ![t] = Len(batches')]
  /\ UNCHANGED <<row, open, breaks>>

InsertEmpty(t) ==
  /\ UNCHANGED <<bufferVars, insertVars>>
  /\ m_InsertData = <<>> /\ Goes(t, "insert", "clear")

\* Mutant of Begin: each row is a transaction of its own.
BeginNothing(t) ==
  /\ UNCHANGED <<bufferVars, insertVars>> /\ Goes(t, "begin", "rows")

\* transaction(); that it fails is not noticed.
Begin(t) ==
  /\ UNCHANGED bufferVars /\ Goes(t, "begin", "rows")
  /\ open' = [open EXCEPT ![t] = IF @ = "broken" THEN @ ELSE "transaction"]
  /\ UNCHANGED <<batches, storedRows, result, batch, row, breaks>>

\* execBatch() of the driver: a row after the other.  Those of a transaction
\* are in the table only once it is committed.
ExecRow(t) ==
  /\ UNCHANGED bufferVars /\ Goes(t, "rows", "rows")
  /\ open[t] # "broken" /\ row[t] < Len(batches[batch[t]])
  /\ row' = [row EXCEPT ![t] = @ + 1]
  /\ storedRows' = [storedRows EXCEPT ![batch[t]] =
                      IF open[t] = "auto" THEN @ \cup {row'[t]} ELSE @]
  /\ UNCHANGED <<batches, result, batch, open, breaks>>

\* A row is refused, or the connection is broken: rollback().
Rollback(t) ==
  /\ UNCHANGED bufferVars /\ Returns(t, "rows", "failure")
  /\ row[t] < Len(batches[batch[t]])
  /\ UNCHANGED <<batches, storedRows, breaks>>

Commit(t) ==
  /\ UNCHANGED bufferVars /\ Returns(t, "rows", "success")
  /\ row[t] = Len(batches[batch[t]]) /\ open[t] # "broken"
  /\ storedRows' = [storedRows EXCEPT ![batch[t]] = 1..row[t]]
  /\ UNCHANGED <<batches, breaks>>

\* The connection was broken before commit(), or its answer does not come.
CommitFails(t) ==
  /\ UNCHANGED bufferVars /\ Returns(t, "rows", "failure")
  /\ row[t] = Len(batches[batch[t]])
  /\ \/ open[t] = "broken" /\ UNCHANGED <<storedRows, breaks>>
     \/ /\ open[t] # "broken" /\ breaks < MaxBreaks /\ breaks' = breaks + 1
        /\ storedRows' = [storedRows EXCEPT ![batch[t]] = 1..row[t]]
  /\ UNCHANGED batches

\* The server forgets the transaction of a connection that breaks.
ConnectionBreaks(t) ==
  /\ at[t] \in {"begin", "rows"} /\ open[t] # "broken" /\ breaks < MaxBreaks
  /\ open' = [open EXCEPT ![t] = "broken"] /\ breaks' = breaks + 1
  /\ UNCHANGED <<bufferVars, at, batches, storedRows, result, batch, row, overlapped>>

Next == \E t \in Threads :
          \/ WriteData2DB(t) \/ TestSize(t) \/ PushEnd(t) \/ PushWrite(t) \/ Clear(t)
          \/ Insert(t) \/ InsertEmpty(t) \/ Begin(t) \/ ExecRow(t) \/ Rollback(t)
          \/ Commit(t) \/ CommitFails(t) \/ ConnectionBreaks(t)

-----------------------------------------------------------------------------
\* A batch is in the table with all its rows or with none, and with all when the
\* insert succeeded; it may be there although it is said to have failed
\* (SqlInsert.h:131-140).
BatchesWhole ==
  \A b \in DOMAIN batches : /\ storedRows[b] \in {{}, DOMAIN batches[b]}
                            /\ result[b] = "success" => storedRows[b] # {}

\* A position that was told and handled while one thread only was here waits in
\* the vector or was inserted in one batch (PositionDataBase.cpp:54-68): none is
\* left out, overwritten or comes with a later batch too.
PositionsInserted ==
  \A p \in 1..next \ overlapped :
    LET batchesOf == {b \in DOMAIN batches : p \in ToSet(batches[b])}
        inHand    == p \in {position[t] : t \in Threads}
        waits     == p \in ToSet(m_InsertData)
        flushing  == \E t \in Threads : at[t] \in {"insert", "begin", "rows", "clear"}
    IN IF inHand THEN batchesOf = {}
       ELSE /\ \A b, c \in batchesOf : b = c
            /\ \/ waits # (batchesOf # {})
               \/ waits /\ flushing
=============================================================================
