--------------------------- MODULE PulseCounter ---------------------------
(***************************************************************************)
(* kits/thrid_devices/connectivity_kits/6051net: a thread asks the counter  *)
(* of the wheel for its value, once an interval, and takes what it finds in *)
(* a queue of messages, which the network fills; distance and speed come    *)
(* from the values taken.                                                   *)
(*                                                                          *)
(* A value is the number of the request that it answers: the counter grows  *)
(* with it.  Time is counted in a unit of the run's choice: a round of the  *)
(* thread lasts its wait and the configured sleep.  The first speed is that *)
(* of the whole counter (md_kilometer is 0), and means nothing.  Commands   *)
(* to the trigger, which share the connection, are left out.                *)
(***************************************************************************)
EXTENDS Integers, Sequences

CONSTANTS MaxRequests,   \* bound: requests sent
          Interval,      \* mll_time_interval, the sleep of a round
          Limit          \* 100 ms: limit of the wait, and what is added for it

RequestAssumption == MaxRequests \in Nat /\ Interval \in Nat /\ Limit \in Nat

None  == -1   \* no value yet, or no answer in time
Reset == 0    \* the value that the vectors hold at the start

VARIABLES sent,      \* requests
          wire,      \* answers on their way
          recvArray, \* mvec_qbt_recvArray: messages, each of one or more answers
          waiting,   \* the thread is in recvDataGet
          elapsed,   \* m_lastElapsed is set
          nowpulse,  \* mvec_nowpulse, None when it is empty
          interval,  \* needCalculate_interval
          kilometer, \* md_kilometer: the value it was computed from
          speed,     \* m_speedData: the values it is computed from, the time it is divided by
          clock, sentAt, \* the time, and when each request was sent
          missed,    \* rounds that found no message
          exact      \* each request was answered and each answer was a message

counterVars == <<sent, wire, recvArray, waiting, elapsed, nowpulse, interval, kilometer,
                 speed, clock, sentAt, missed, exact>>

Init == /\ sent = 0 /\ wire = <<>> /\ recvArray = <<>>
        /\ waiting = FALSE /\ elapsed = FALSE
        /\ nowpulse = Reset /\ interval = 0 /\ kilometer = Reset
        /\ speed = [from |-> Reset, to |-> Reset, over |-> Interval]
        /\ clock = 0 /\ sentAt = [n \in 0..MaxRequests |-> 0]
        /\ missed = 0 /\ exact = TRUE

\* A round of the thread: without a connection the request is lost.  The first
\* round only notes the time, and leaves its answer to the next one.
Request ==
  /\ ~waiting /\ sent < MaxRequests
  /\ sent' = sent + 1
  /\ \/ wire' = Append(wire, sent') /\ exact' = exact
     \/ wire' = wire /\ exact' = FALSE
  /\ sentAt' = [sentAt EXCEPT ![sent'] = clock]
  /\ elapsed' = TRUE /\ waiting' = elapsed
  /\ clock' = IF elapsed THEN clock ELSE clock + Interval
  /\ UNCHANGED <<recvArray, nowpulse, interval, kilometer, speed, missed>>

\* The stream may deliver two answers as one message.
OnRecvData ==
  /\ \E n \in 1..2 : /\ n <= Len(wire)
                     /\ recvArray' = Append(recvArray, SubSeq(wire, 1, n))
                     /\ wire' = SubSeq(wire, n + 1, Len(wire))
                     /\ exact' = (exact /\ n = 1)
  /\ UNCHANGED <<sent, waiting, elapsed, nowpulse, interval, kilometer, speed, clock, sentAt, missed>>

\* The wait is over, and the thread sleeps until the next round.
Waited(w) == clock' = clock + w + Interval

\* recvDataGet: the wait has no predicate, so a message that was there before
\* is taken when the time is over, or when the next one is notified.
RecvDataGet == /\ waiting /\ recvArray # <<>>
               /\ waiting' = FALSE
               /\ recvArray' = Tail(recvArray)
               /\ \E w \in 0..Limit : Waited(w)

\* Mutant of CalcSpeedData: rounds without an answer are not counted.
CalcSpeedDataUncounted ==
  /\ RecvDataGet
  /\ nowpulse' = Head(recvArray)[1]
  /\ IF nowpulse = None THEN UNCHANGED <<interval, kilometer, speed>>
     ELSE /\ speed' = [from |-> kilometer, to |-> nowpulse', over |-> Interval]
          /\ kilometer' = nowpulse' /\ interval' = 0
  /\ UNCHANGED <<sent, wire, elapsed, sentAt, missed, exact>>

\* calcSpeedData: the first answer of a message is its value.  After a round
\* without one the value is kept and nothing is computed.  The time a speed is
\* divided by is the configured one and a limit for each round without a value,
\* whatever time has passed.
CalcSpeedData ==
  /\ RecvDataGet
  /\ nowpulse' = Head(recvArray)[1]
  /\ IF nowpulse = None THEN UNCHANGED <<interval, kilometer, speed>>
     ELSE /\ speed' = [from |-> kilometer, to |-> nowpulse', over |-> Interval + interval]
          /\ kilometer' = nowpulse' /\ interval' = 0
  /\ UNCHANGED <<sent, wire, elapsed, sentAt, missed, exact>>

\* No message within 100 ms.
NoAnswer ==
  /\ waiting /\ recvArray = <<>>
  /\ waiting' = FALSE /\ Waited(Limit)
  /\ nowpulse' = None /\ interval' = interval + Limit /\ missed' = missed + 1
  /\ UNCHANGED <<sent, wire, recvArray, elapsed, kilometer, speed, sentAt, exact>>

Next == Request \/ OnRecvData \/ CalcSpeedData \/ NoAnswer

-----------------------------------------------------------------------------
\* The value in hand answers an earlier request: one earlier because the first
\* round takes none, and one more for every round that found no message.  The
\* delay never shrinks, as nothing drops a late answer
\* (ConnectivityManager6051.cpp:177-191, :253-257).
DelayNeverShrinks ==
  exact /\ ~waiting /\ nowpulse \notin {None, Reset} => sent - nowpulse = 1 + missed

\* The time of the way is not measured (:311 divides by mll_time_interval and
\* 100 ms for each round without a value, a round lasts its wait and the sleep),
\* so the speed is overstated.  By how much: between the requests of the two
\* values no more passed than the time divided by, a wait, and the sleep of
\* each round of the way but one.  A value that follows a round without one is
\* skipped, and the rounds are counted for all that, none twice.
OverstatedByWaits ==
  exact /\ speed.from # Reset =>
     LET rounds == speed.to - speed.from
     IN /\ rounds >= 1
        /\ sentAt[speed.to] - sentAt[speed.from] <= speed.over + Limit + (rounds - 1) * Interval

SpeedOfLateAnswers == DelayNeverShrinks /\ OverstatedByWaits
=============================================================================
