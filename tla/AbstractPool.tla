---------------------------- MODULE AbstractPool ----------------------------
(***************************************************************************)
(* What a user of kits/common/object_pool/ObjectPool.h is promised: an      *)
(* object is either free (parked in the pool) or lent to one owner; getting *)
(* an object lends a free one or a new one, and dropping the last reference *)
(* parks the object or destroys it.  Nothing is said of the order in which  *)
(* free objects are reused, nor of when the pool prefers to destroy one.    *)
(***************************************************************************)
CONSTANT Objects

VARIABLES free, lent

avars == <<free, lent>>

AInit == free = {} /\ lent = {}

\* getObject reuses a parked object.
Reuse(o) == /\ o \in free
            /\ free' = free \ {o}
            /\ lent' = lent \cup {o}

\* getObject finds nothing to reuse and makes a new object.
Make(o) == /\ o \notin free \cup lent
           /\ lent' = lent \cup {o}
           /\ UNCHANGED free

\* The last shared_ptr is dropped and the object is parked.
Park(o) == /\ o \in lent
           /\ lent' = lent \ {o}
           /\ free' = free \cup {o}

\* The last shared_ptr is dropped and the object is destroyed.
Destroy(o) == /\ o \in lent
              /\ lent' = lent \ {o}
              /\ UNCHANGED free

ANext == \E o \in Objects : Reuse(o) \/ Make(o) \/ Park(o) \/ Destroy(o)

ASpec == AInit /\ [][ANext]_avars
=============================================================================
