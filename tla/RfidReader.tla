---------------------------- MODULE RfidReader ----------------------------
(***************************************************************************)
(* RfidVFR61M: a timer asks the reader how many tags it has buffered; the   *)
(* answer asks for the first of them, or clears the buffer when there are   *)
(* none.  Each message of the socket is handled by a task of the pool, so   *)
(* that two are handled in any order, and is taken for one frame, whatever  *)
(* it holds.                                                                *)
(*                                                                          *)
(* The reader itself is external: it answers in order, and gives a tag out  *)
(* of its buffer.  Frames are not split, and the connection stays.          *)
(***************************************************************************)
EXTENDS Integers, SequencesExt

CONSTANTS Tags, NoTag,
          MaxWire     \* bound: requests, answers and tasks together

RfidAssumption == NoTag \notin Tags /\ MaxWire \in Nat

VARIABLES passed,     \* tags the train has passed
          buffer,     \* the reader's
          requests,   \* [command, counted]: counted are the tags it was decided on
          replies,    \* [frame: "count", "tag" or "other", number, tag, seen]
          tasks,      \* messages, that is sequences of frames, in the pool, in any order
          told,       \* sendOutData
          merged,     \* tags in a message of several frames
          erased      \* tags cleared: those that were not counted, and others

rfidVars == <<passed, buffer, requests, replies, tasks, told, merged, erased>>

Init == /\ passed = {} /\ buffer = <<>> /\ requests = <<>> /\ replies = <<>> /\ tasks = <<>>
        /\ told = {} /\ merged = {} /\ erased = [counted |-> {}, uncounted |-> {}]

\* The commands: how many tags, the first tag, clear.
Inventory == 128
Tag == 65
Buffer == 68

InBuffer == {buffer[i] : i \in DOMAIN buffer}

-----------------------------------------------------------------------------
(* The reader.                                                              *)

Pass(t) == /\ t \notin passed /\ passed' = passed \cup {t}
           /\ buffer' = Append(buffer, t)
           /\ UNCHANGED <<requests, replies, tasks, told, merged, erased>>

Answer(command, frame) == /\ requests # <<>> /\ Head(requests).command = command
                          /\ requests' = Tail(requests)
                          /\ replies' = Append(replies, frame)
                          /\ UNCHANGED <<passed, tasks, told, merged>>

Count == /\ Answer(Inventory, [frame |-> "count", number |-> Len(buffer), tag |-> NoTag, seen |-> InBuffer])
         /\ UNCHANGED <<buffer, erased>>

Give == /\ buffer # <<>>
        /\ Answer(Tag, [frame |-> "tag", number |-> 1, tag |-> Head(buffer), seen |-> {}])
        /\ buffer' = Tail(buffer) /\ UNCHANGED erased

GiveNone == /\ buffer = <<>>
            /\ Answer(Tag, [frame |-> "other", number |-> 0, tag |-> NoTag, seen |-> {}])
            /\ UNCHANGED <<buffer, erased>>

Clear == /\ Answer(Buffer, [frame |-> "other", number |-> 0, tag |-> NoTag, seen |-> {}])
         /\ LET counted == InBuffer \cap Head(requests).counted
            IN erased' = [counted |-> erased.counted \cup counted,
                          uncounted |-> erased.uncounted \cup (InBuffer \ counted)]
         /\ buffer' = <<>>

-----------------------------------------------------------------------------
(* The program.                                                             *)

Send(command, counted) == requests' = Append(requests, [command |-> command, counted |-> counted])

\* The timer; the bound stands for its interval.
SendInventory == /\ Len(requests) + Len(replies) + Len(tasks) < MaxWire /\ Send(Inventory, {})
                 /\ UNCHANGED <<passed, buffer, replies, tasks, told, merged, erased>>

\* A message has one frame or what has come together.
OnrecvData(n) == /\ n \in 1..Len(replies)
                 /\ tasks' = Append(tasks, SubSeq(replies, 1, n))
                 /\ replies' = SubSeq(replies, n + 1, Len(replies))
                 /\ merged' = IF n = 1 THEN merged
                              ELSE merged \cup {replies[i].tag : i \in 1..n}
                 /\ UNCHANGED <<passed, buffer, requests, told, erased>>

Handle(k, frame) == /\ tasks[k][1].frame = frame /\ tasks' = RemoveAt(tasks, k)
                    /\ UNCHANGED <<passed, buffer, replies, merged, erased>>

\* Mutant of Read: one byte of the two is read, and not the low one.
ReadHigh(m) == {0}

\* The numbers a count may be read as: the one of the last frame, or two bytes
\* of a frame that is none.
Read(m) == IF Last(m).frame = "count" THEN {Last(m).number} ELSE {0, 1}

HandleInventoryResponse(k) ==
  /\ Handle(k, "count")
  /\ \E tagCount \in Read(tasks[k]) :
       IF tagCount > 0 THEN Send(Tag, {}) ELSE Send(Buffer, Last(tasks[k]).seen)
  /\ UNCHANGED told

\* The length fits one frame only; otherwise the tag is empty and is told.
HandleTagDataResponse(k) ==
  /\ Handle(k, "tag")
  /\ told' = told \cup {IF Len(tasks[k]) = 1 THEN tasks[k][1].tag ELSE NoTag}
  /\ UNCHANGED requests

\* Any other length is passed over.
HandleOther(k) == /\ Handle(k, "other") /\ UNCHANGED <<requests, told>>

Reader == Count \/ Give \/ GiveNone \/ Clear
Task   == \E k \in DOMAIN tasks : \/ HandleInventoryResponse(k) \/ HandleTagDataResponse(k)
                                \/ HandleOther(k)
Receive == \E n \in 1..MaxWire : OnrecvData(n)

Next == SendInventory \/ Reader \/ Receive \/ Task \/ \E t \in Tags : Pass(t)

\* The timer ticks, the reader answers, the socket and the pool work.
Fairness == /\ WF_rfidVars(SendInventory) /\ WF_rfidVars(Reader)
            /\ WF_rfidVars(Receive) /\ WF_rfidVars(Task)

Spec == Init /\ [][Next]_rfidVars /\ Fairness

-----------------------------------------------------------------------------
\* What the reader counted is not cleared: a clear erases tags that came after
\* the count (RfidVFR61M.cpp:108-115).  And a tag that has been given is told,
\* or an empty one in its place, when frames came together (:174).
TagsAccounted ==
  /\ erased.counted = {}
  /\ NoTag \in told => merged # {}
  /\ \A t \in passed : \/ t \in InBuffer \cup told \cup merged \cup erased.uncounted
                       \/ \E i \in DOMAIN replies : replies[i].tag = t
                       \/ \E k \in DOMAIN tasks : tasks[k][1].tag = t

\* A tag does not stay in the reader for ever.
TagsAreRead == \A t \in Tags : t \in InBuffer ~> t \notin InBuffer
=============================================================================
