---------------------------- MODULE JiHeService ----------------------------
(***************************************************************************)
(* modules/jihe_service: datagrams with a reading are collected under a     *)
(* mutex while a task runs; a thread stores what was collected; a timer     *)
(* sends the latest reading to LocationService while the image shows a      *)
(* pole, and once more when it no longer does.                              *)
(*                                                                          *)
(* The module's own thread runs the handlers of datagrams, timers and       *)
(* tasks, one at a time.  A reading is its number and whether it is a       *)
(* PT_IMG.                                                                  *)
(***************************************************************************)
EXTENDS Integers, Sequences

CONSTANT MaxReadings,   \* bound: readings received
         MaxSent        \* bound: readings sent to LocationService

JiHeAssumption == {MaxReadings, MaxSent} \subseteq Nat

VARIABLES detecting,   \* m_currentTask.isRun()
          received,    \* readings received
          vecJiHeData, \* m_vecJiHeData
          vecData,     \* what run() took and has not stored
          storedData,  \* jihe_data
          testing,     \* the timer found the vector filled and waits for the mutex
          lastType,    \* lastPositionType was PT_IMG
          sent         \* sendJiHeDatatoLocation: what was emitted

jiheVars == <<detecting, received, vecJiHeData, vecData, storedData, testing, lastType, sent>>

Init == /\ detecting = FALSE /\ received = 0
        /\ vecJiHeData = <<>> /\ vecData = <<>> /\ storedData = <<>>
        /\ testing = FALSE /\ lastType = FALSE /\ sent = <<>>

NotifyTask == /\ ~testing
              /\ detecting' = ~detecting
              /\ UNCHANGED <<received, vecJiHeData, vecData, storedData, testing, lastType, sent>>

ReadData(img) == /\ ~testing /\ detecting
                 /\ received < MaxReadings
                 /\ received' = received + 1
                 /\ vecJiHeData' = Append(vecJiHeData, [n |-> received + 1, img |-> img])
                 /\ UNCHANGED <<detecting, vecData, storedData, testing, lastType, sent>>

\* Mutant of Collect: the vector is not cleared.
CollectKept == /\ vecJiHeData # <<>> /\ vecData = <<>>
               /\ vecData' = vecJiHeData
               /\ UNCHANGED <<detecting, received, vecJiHeData, storedData, testing, lastType, sent>>

\* run(): what was collected is taken under the mutex, and inserted after it.
Collect == /\ vecJiHeData # <<>> /\ vecData = <<>>
           /\ vecData' = vecJiHeData
           /\ vecJiHeData' = <<>>
           /\ UNCHANGED <<detecting, received, storedData, testing, lastType, sent>>

\* The insert may fail; nothing looks at its result.
Store == /\ vecData # <<>>
         /\ storedData' \in {storedData, storedData \o vecData}
         /\ vecData' = <<>>
         /\ UNCHANGED <<detecting, received, vecJiHeData, testing, lastType, sent>>

\* onDataToLocationTimer tests the vector before it takes the mutex.
OnDataToLocationTimer == /\ ~testing /\ vecJiHeData # <<>>
                         /\ testing' = TRUE
                         /\ UNCHANGED <<detecting, received, vecJiHeData, vecData, storedData, lastType, sent>>

\* back() of a vector that run() has cleared since is any reading.
Latest == IF vecJiHeData = <<>> THEN BOOLEAN ELSE {vecJiHeData[Len(vecJiHeData)].img}

\* Mutant of SendLatest: the type is not remembered when nothing is sent.
SendLatestStuck ==
  /\ testing /\ Len(sent) < MaxSent
  /\ testing' = FALSE
  /\ \E img \in Latest :
        /\ sent' = IF img \/ lastType THEN Append(sent, img) ELSE sent
        /\ lastType' = (img \/ lastType)
  /\ UNCHANGED <<detecting, received, vecJiHeData, vecData, storedData>>

SendLatest ==
  /\ testing /\ Len(sent) < MaxSent
  /\ testing' = FALSE
  /\ \E img \in Latest :
        /\ sent' = IF img \/ lastType THEN Append(sent, img) ELSE sent
        /\ lastType' = img
  /\ UNCHANGED <<detecting, received, vecJiHeData, vecData, storedData>>

Next == \/ NotifyTask \/ (\E img \in BOOLEAN : ReadData(img))
        \/ Collect \/ Store \/ OnDataToLocationTimer \/ SendLatest

-----------------------------------------------------------------------------
\* A reading is stored at most once and in the order of receipt, whatever run()
\* and the receiver interleave (JiHeService.cpp:125-134, :276-292).
StoredOnceInOrder ==
  LET all == storedData \o vecData \o vecJiHeData
  IN \A i \in 2..Len(all) : all[i - 1].n < all[i].n

\* LocationService is told that the pole has left the image only after it was
\* told that one is there, and once (:297-323), though the reading sent may be
\* one that the vector no longer holds.
EndFollowsStart == \A i \in DOMAIN sent : ~sent[i] => i > 1 /\ sent[i - 1]
=============================================================================
