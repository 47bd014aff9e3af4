----------------------------- MODULE Consumers -----------------------------
(***************************************************************************)
(* Five classes with a queue, a thread that waits for it on a condition     *)
(* variable, and an end that clears a flag, notifies and joins:             *)
(*   camera     CameraCtrl: the thread holds the mutex while it works       *)
(*   publisher  RemotePublisher: notifies under the mutex, takes batches    *)
(*   decoder    YanYanDeviceDeal: takes one packet at a time                *)
(*   pool       ThreadPool (MyThreadPool.h): clears the flag under the      *)
(*              mutex, and drops old tasks                                  *)
(*   recorder   SaveVideo of camera_service: works under the mutex, notifies *)
(*              under it, and drops the images that came last                *)
(* which of them a behaviour is about is chosen at the start.               *)
(*                                                                          *)
(* wait(lock, predicate) is the predicate, the sleep that releases the      *)
(* mutex, and the predicate again when woken; a thread that reads the       *)
(* predicate is not asleep yet, so a notification can pass it by.           *)
(***************************************************************************)
EXTENDS Integers, SequencesExt

CONSTANTS MaxItems,   \* bound: items put
          MaxBatch,   \* MAX_BATCH_SIZE
          Keep        \* tasks or images that pool and recorder leave queued

ASSUME ConsumerAssumption == {MaxItems, Keep} \subseteq Nat /\ MaxBatch \in Nat \ {0}

VARIABLES class,
          put,       \* items put so far; an item is its number
          queue,
          running,   \* the flag that ends the thread
          ringing,   \* notifications that producers still owe
          thread,    \* "top", "test", "wait", "asleep", "work" or "ended"
          hand,      \* items taken
          done,      \* items worked on
          closing    \* the end: "no", "notify", "join" or "joined"

consumerVars == <<class, put, queue, running, ringing, thread, hand, done, closing>>

Classes == {"camera", "publisher", "decoder", "pool", "recorder"}

Init == /\ class \in Classes
        /\ put = 0 /\ queue = <<>> /\ running = TRUE /\ ringing = 0
        /\ thread = "top" /\ hand = <<>> /\ done = <<>> /\ closing = "no"

MutexFree == thread \notin {"test", "wait"} \cup
                (CASE class = "camera"   -> {"top", "work"}
                   [] class = "recorder" -> {"work"}
                   [] OTHER              -> {})

Woken(t) == IF t = "asleep" THEN "test" ELSE t

-----------------------------------------------------------------------------
Put == /\ put < MaxItems /\ MutexFree
       /\ put' = put + 1
       /\ queue' = Append(queue, put + 1)
       /\ UNCHANGED <<class, running, hand, done, closing>>

\* Mutant of OnGetImage: nobody is notified.
OnGetImageSilent == /\ class = "camera" /\ Put
                    /\ UNCHANGED <<thread, ringing>>

\* The producers of camera and decoder notify after the mutex is released, the
\* publisher before.
OnGetImage == /\ class = "camera" /\ Put
              /\ ringing' = ringing + 1 /\ thread' = thread

DataReceiveDeal == /\ class = "decoder" /\ Put
                   /\ ringing' = ringing + 1 /\ thread' = thread

PublishAsync == /\ class = "publisher" /\ Put
                /\ thread' = Woken(thread) /\ ringing' = ringing

\* The flag is read before the mutex is taken, and may be cleared by then.
PushImage == /\ class = "recorder" /\ Put
             /\ thread' = Woken(thread) /\ ringing' = ringing

\* A pool that has stopped takes nothing.
Enqueue == /\ class = "pool" /\ running /\ Put
           /\ ringing' = ringing + 1 /\ thread' = thread

NotifyOne == /\ ringing > 0 /\ ringing' = ringing - 1
             /\ thread' = Woken(thread)
             /\ UNCHANGED <<class, put, queue, running, hand, done, closing>>

-----------------------------------------------------------------------------
Step(from, to) == /\ thread = from /\ thread' = to
                  /\ UNCHANGED <<class, put, running, ringing, closing>>

\* The loop's condition.
Top == /\ Step("top", IF running THEN "test" ELSE "ended")
       /\ UNCHANGED <<queue, hand, done>>

\* The predicate is false; the thread has the mutex until it sleeps.
Wait == /\ running /\ queue = <<>>
        /\ Step("test", "wait")
        /\ UNCHANGED <<queue, hand, done>>

Sleep == Step("wait", "asleep") /\ UNCHANGED <<queue, hand, done>>

\* The predicate is true because the flag is cleared: what is queued stays.
Leave == /\ ~running /\ (class = "pool" => queue = <<>>)
         /\ Step("test", "ended")
         /\ UNCHANGED <<queue, hand, done>>

Take(n, left) == /\ queue # <<>>
                 /\ Step("test", "work")
                 /\ hand' = SubSeq(queue, 1, n)
                 /\ queue' = left
                 /\ UNCHANGED done

ImageConsumerThread == class = "camera" /\ running /\ Take(1, Tail(queue))

ConsumerThreadFunc == class = "decoder" /\ running /\ Take(1, Tail(queue))

ProcessMessage ==
  LET n == IF Len(queue) < MaxBatch THEN Len(queue) ELSE MaxBatch
  IN class = "publisher" /\ running /\ Take(n, SubSeq(queue, n + 1, Len(queue)))

\* A worker of the pool: the tasks beyond Keep are dropped, the oldest first.
PoolWorker ==
  LET dropped == IF Len(queue) - 1 > Keep THEN Len(queue) - 1 - Keep ELSE 0
  IN class = "pool" /\ Take(1, SubSeq(queue, dropped + 2, Len(queue)))

\* A thread of the recorder: the images beyond Keep are dropped, the newest first.
ThreadRecord ==
  LET last == IF Len(queue) > Keep + 1 THEN Keep + 1 ELSE Len(queue)
  IN class = "recorder" /\ running /\ Take(1, SubSeq(queue, 2, last))

\* An item is worked on; the thread goes on with the next of its batch.
Work == /\ hand # <<>>
        /\ Step("work", IF Len(hand) = 1 THEN "top" ELSE "work")
        /\ done' = Append(done, Head(hand))
        /\ hand' = Tail(hand)
        /\ UNCHANGED queue

\* Mutant of SendFails: the batch is queued again.
SendFailsAgain == /\ class = "publisher" /\ Step("work", "top")
                  /\ queue' = hand \o queue /\ hand' = hand
                  /\ UNCHANGED done

\* A send of the publisher throws: the batch is cleared.
SendFails == /\ class = "publisher" /\ Step("work", "top")
             /\ hand' = <<>>
             /\ UNCHANGED <<queue, done>>

-----------------------------------------------------------------------------
Clear == /\ closing = "no" /\ closing' = "notify"
         /\ running' = FALSE
         /\ UNCHANGED <<class, put, queue, ringing, thread, hand, done>>

\* ~CameraCtrl, RemotePublisher::stop, YanYanDeviceDeal::close and ~SaveVideo
\* clear the flag whatever the thread does.
CameraCtrlEnd      == class = "camera" /\ Clear
RemotePublisherEnd == class = "publisher" /\ Clear
DeviceClose        == class = "decoder" /\ Clear

\* Mutant of ThreadPoolEnd: the flag is cleared without the mutex.
ThreadPoolEndUnlocked == class = "pool" /\ Clear

SaveVideoEnd       == class = "recorder" /\ Clear

\* ~ThreadPool clears it under the mutex.
ThreadPoolEnd == class = "pool" /\ MutexFree /\ Clear

NotifyAll == /\ closing = "notify" /\ closing' = "join"
             /\ thread' = Woken(thread)
             /\ UNCHANGED <<class, put, queue, running, ringing, hand, done>>

Join == /\ closing = "join" /\ thread = "ended" /\ closing' = "joined"
        /\ UNCHANGED <<class, put, queue, running, ringing, thread, hand, done>>

Put1     == OnGetImage \/ DataReceiveDeal \/ PublishAsync \/ PushImage \/ Enqueue
TakeItem == ImageConsumerThread \/ ConsumerThreadFunc \/ ProcessMessage \/ PoolWorker \/ ThreadRecord
Consumer == Top \/ Wait \/ Sleep \/ Leave \/ TakeItem \/ Work
End      == CameraCtrlEnd \/ RemotePublisherEnd \/ DeviceClose \/ SaveVideoEnd \/ ThreadPoolEnd

Next == Put1 \/ NotifyOne \/ Consumer \/ SendFails \/ End \/ NotifyAll \/ Join

\* The threads run, the notifications that are owed are made.
Fairness == WF_consumerVars(Consumer) /\ WF_consumerVars(NotifyOne) /\ WF_consumerVars(NotifyAll)

Spec == Init /\ [][Next]_consumerVars /\ Fairness

-----------------------------------------------------------------------------
\* Items are worked on in the order they came and at most once; camera and
\* decoder lose none (CameraCtrl.cpp:240-289, YanYanDeviceDeal.cpp:191-215),
\* the publisher only what follows a failed send in its batch
\* (RemotePublisher.cpp:103-146), pool and recorder only what they drop.
InOrderOnce ==
  LET all == done \o hand \o queue
  IN /\ \A i \in 2..Len(all) : all[i - 1] < all[i]
     /\ class \in {"camera", "decoder"} => all = [i \in 1..put |-> i]

\* While the object lives, no item waits for ever behind a sleeping thread: a
\* notification is never lost between the predicate and the sleep, because the
\* queue changes under the mutex.
NothingWaits == [](queue # <<>> => <>(queue = <<>> \/ ~running))

\* The end wakes the thread and joins it, unless the thread has found nothing to
\* do and is not asleep yet: that wakeup is missed, and only by the classes that
\* clear the flag without the mutex (CameraCtrl.cpp:17, RemotePublisher.cpp:37,
\* YanYanDeviceDeal.cpp:27, SaveVideo.cpp:14).
EndsOrMisses == closing = "notify" /\ (thread = "wait" => class = "pool") ~> thread = "ended"
=============================================================================
