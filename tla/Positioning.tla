---------------------------- MODULE Positioning ----------------------------
(***************************************************************************)
(* JiHeService and LocationService: the readings that the first one sends   *)
(* are handled by the second one later and in order.  Each module learns    *)
(* of a task on its own queue, so either may be the first to know.          *)
(***************************************************************************)
EXTENDS Integers, Sequences

CONSTANTS MaxReadings, MaxSent,
          Poles, Anchors, Starts, MaxDis, Offset, Near, Far, SpanPart, None

VARIABLES detecting, received, vecJiHeData, vecData, storedData, testing, lastType, sent,
          task, distance, speed, update, isAdjust, pre,
          handled   \* readings that LocationService has handled

J == INSTANCE JiHeService
L == INSTANCE LocationService

ASSUME PositioningAssumption == J!JiHeAssumption /\ L!LocationAssumption

jiheVars     == <<detecting, received, vecJiHeData, vecData, storedData, testing, lastType, sent>>
locationVars == <<task, distance, speed, update, isAdjust, pre>>
vars         == <<jiheVars, locationVars, handled>>

Init == J!Init /\ L!Init /\ handled = 0

RecvImageData == /\ handled < Len(sent)
                 /\ handled' = handled + 1
                 /\ L!RecvImageData(sent[handled'])
                 /\ UNCHANGED jiheVars

Next == \/ J!Next /\ UNCHANGED <<locationVars, handled>>
        \/ L!Next /\ UNCHANGED <<jiheVars, handled>>
        \/ RecvImageData

Spec == Init /\ [][Next]_vars

-----------------------------------------------------------------------------
StoredOnceInOrder == J!StoredOnceInOrder
EndFollowsStart   == J!EndFollowsStart
PoleBehindOrLast  == L!PoleBehindOrLast

\* A reading moves the position by no more than the way to a near pole and the
\* way the pole was in the image (LocationService.cpp:266-305), though the image
\* may have begun in an earlier task, before a correction or on another line.
ImageShiftBounded ==
  [][handled' # handled => L!Abs(L!Position(task, distance') - L!Position(task, distance))
                           < SpanPart + Offset + Far]_vars
=============================================================================
