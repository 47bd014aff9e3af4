---------------------------- MODULE RadarOverrun ----------------------------
(***************************************************************************)
(* modules/radar_online/RadarOverrun.cpp: regions of a scan that lie in the *)
(* clearance polygon are followed from scan to scan by their angle; a       *)
(* region that is gone is handed over to be recorded, with all its scans.   *)
(*                                                                          *)
(* A scan is the sequence of its valid points, TRUE where the point lies in *)
(* the polygon; the angle of a point is its position.  All regions of one   *)
(* scan share one object, since isOverrun never takes a second one, so an   *)
(* object is known by the number of its scan.  Objects come from an         *)
(* ObjectPool that does not reset them: a new one has Prealloc points at    *)
(* the origin (angle 0), a recycled one those of its former lives.          *)
(***************************************************************************)
EXTENDS Integers, FiniteSets, SequencesExt

CONSTANTS Scans,      \* the scans that can occur
          Gap,        \* iCondition_end: points outside that end a region
          MinPoints,  \* a region needs more points than this
          Prealloc,   \* points of a new object
          Circle,     \* angles of a full turn
          MaxDiff,    \* idifVal: how far a region may turn from scan to scan
          Grow,       \* indexes that expandHashTable adds
          MaxScans,   \* bound: scans received
          None

OverrunAssumption == /\ Scans \subseteq Seq(BOOLEAN)
                     /\ {Gap, Circle, Grow} \subseteq Nat \ {0}
                     /\ {MinPoints, Prealloc, MaxDiff, MaxScans} \subseteq Nat
                     /\ Prealloc > MinPoints
                     /\ None \notin [scan : Nat, index : Nat]

VARIABLES now,      \* scans received
          object,   \* points and angle of the object of each scan that shows a region
          before,   \* m_overrun_list_before: the scan it holds and its index, or None
          hash,     \* m_overrun_hash: the scans of each open overrun
          used,     \* m_overrun_hash_index
          handed,   \* overruns handed over to be recorded, oldest first
          writing,  \* positions in handed that are not recorded yet
          pool,     \* free objects, the last one is taken first
          several,  \* some scan showed more than one region
          regions   \* how many each scan showed

vars == <<now, object, before, hash, used, handed, writing, pool, several, regions>>

NewObject == [pts |-> [i \in 1..Prealloc |-> 0], angle |-> 0]

Init == /\ now = 0
        /\ object = <<>>
        /\ before = None
        /\ hash = <<>> /\ used = <<>>
        /\ handed = <<>> /\ writing = {}
        /\ pool = <<>>
        /\ several = FALSE /\ regions = <<>>

\* Mutant of Inside: the points outside before it keep counting.
InsideCountKept(s, p) == [s EXCEPT !.inside = TRUE, !.pts = Append(@, p)]

\* A point inside opens a region or goes on with it.
Inside(s, p) == [s EXCEPT !.inside = TRUE, !.miss = 0, !.pts = Append(@, p)]

\* A point outside: the Gap-th in a row ends a region, which is listed with
\* the angle of its middle point.
Outside(s) ==
  IF s.miss + 1 < Gap
  THEN [s EXCEPT !.miss = @ + 1]
  ELSE IF s.inside /\ Len(s.pts) > MinPoints
       THEN [s EXCEPT !.inside = FALSE, !.miss = 0, !.angle = s.pts[Len(s.pts) \div 2],
                      !.listed = @ + 1]
       ELSE [s EXCEPT !.inside = FALSE, !.miss = 0]

\* The regions of a scan, found with obj in hand.  A region that the scan ends
\* in is listed with the angle the object has already.
Detect(scan, obj) ==
  LET at[p \in 0..Len(scan)] ==
        IF p = 0
        THEN [inside |-> FALSE, miss |-> 0, listed |-> 0, pts |-> obj.pts, angle |-> obj.angle]
        ELSE IF scan[p] THEN Inside(at[p - 1], p) ELSE Outside(at[p - 1])
      end == at[Len(scan)]
  IN [object |-> [pts |-> end.pts, angle |-> end.angle],
      listed |-> end.listed + IF end.inside THEN 1 ELSE 0]

Near(a, b) == LET d == IF a < b THEN b - a ELSE a - b
              IN d <= MaxDiff \/ Circle - d <= MaxDiff

\* expandHashTable: begin() of an unordered_map is any key, not the largest.
Expand(table) ==
  LET From(k) == [i \in DOMAIN table \cup k..(k + Grow - 1) |->
                    i \notin k..(k + Grow - 1) /\ table[i]]
  IN IF DOMAIN table = {} THEN {From(0)} ELSE {From(k + 1) : k \in DOMAIN table}

\* getHashIndex: some index that is not in use, and the table with it in use.
GetHashIndex(table) ==
  LET Take(t) == {<<i, [t EXCEPT ![i] = TRUE]>> : i \in {i \in DOMAIN t : ~t[i]}}
      free == Take(table)
  IN IF free # {} THEN free ELSE UNION {Take(t) : t \in Expand(table)}

\* The outcomes of n calls in a row: the indexes and the table.
GetHashIndexes(n) ==
  LET calls[i \in 0..n] ==
        IF i = 0 THEN {<< <<>>, used >>}
        ELSE UNION {{<<Append(c[1], g[1]), g[2]>> : g \in GetHashIndex(c[2])} : c \in calls[i - 1]}
  IN calls[n]

\* Each region adds the scan to the list of its index.
Listed(indexes) ==
  [i \in DOMAIN hash \cup ToSet(indexes) |->
     (IF i \in DOMAIN hash THEN hash[i] ELSE <<>>)
     \o [j \in 1..Cardinality({k \in DOMAIN indexes : indexes[k] = i}) |-> now + 1]]

\* Mutant of Finish: the list of the overrun that ended stays.
FinishKept(lists, table, ended) ==
  /\ hash' = lists
  /\ used' \in {table, [table EXCEPT ![ended] = FALSE]}
  /\ handed' = Append(handed, lists[ended])
  /\ writing' = writing \cup {Len(handed) + 1}

\* An overrun that was not found again: its list is handed over.  The index to
\* return is read from the entry just erased: freed memory, which may hold it
\* still or a value that is no index.
Finish(lists, table, ended) ==
  /\ hash' = [i \in DOMAIN lists \ {ended} |-> lists[i]]
  /\ used' \in {table, [table EXCEPT ![ended] = FALSE]}
  /\ handed' = Append(handed, lists[ended])
  /\ writing' = writing \cup {Len(handed) + 1}

\* isOverrun.  The first region found again inherits the index of the scan
\* before; every further one is a new overrun.
IsOverrun(scan) ==
  /\ now < MaxScans
  /\ LET obj   == IF pool = <<>> THEN NewObject ELSE Last(pool)
         d     == Detect(scan, obj)
         again == d.listed > 0 /\ before # None /\ Near(object[before.scan].angle, d.object.angle)
         rest  == IF pool = <<>> THEN pool ELSE Front(pool)
     IN \E calls \in GetHashIndexes(IF again THEN d.listed - 1 ELSE d.listed) :
          LET indexes == (IF again THEN <<before.index>> ELSE <<>>) \o calls[1]
              lists == Listed(indexes)
          IN /\ IF before = None \/ again \/ before.index \notin DOMAIN lists
                THEN hash' = lists /\ used' = calls[2] /\ UNCHANGED <<handed, writing>>
                ELSE Finish(lists, calls[2], before.index)
             /\ IF d.listed = 0
                THEN before' = None /\ pool' = Append(rest, d.object) /\ UNCHANGED object
                ELSE /\ before' = [scan |-> now + 1, index |-> Last(indexes)]
                     /\ object' = [s \in DOMAIN object \cup {now + 1} |->
                                     IF s = now + 1 THEN d.object ELSE object[s]]
                     /\ pool' = rest
             /\ several' = (several \/ d.listed > 1)
             /\ regions' = Append(regions, d.listed)
  /\ now' = now + 1

\* The task that records an overrun ends: its objects go back to the pool.
Recorded(n) ==
  /\ n \in writing
  /\ writing' = writing \ {n}
  /\ LET kept == (IF before = None THEN {} ELSE {before.scan})
                 \cup UNION {ToSet(hash[i]) : i \in DOMAIN hash}
                 \cup UNION {ToSet(handed[m]) : m \in writing'}
         free == (ToSet(handed[n]) \cap DOMAIN object) \ kept
     IN /\ pool' = pool \o SetToSeq({object[s] : s \in free})
        /\ object' = [s \in DOMAIN object \ free |-> object[s]]
  /\ UNCHANGED <<now, before, hash, used, handed, several, regions>>

Next == (\E scan \in Scans : IsOverrun(scan)) \/ (\E n \in writing : Recorded(n))

Spec == Init /\ [][Next]_vars

-----------------------------------------------------------------------------
\* The groups of a scan: points inside with fewer than Gap points outside
\* between neighbours.
Groups(scan) ==
  LET inside == {p \in 1..Len(scan) : scan[p]}
      Leads(p) == \A q \in inside : q < p => p - q > Gap
  IN {p \in inside : Leads(p)}

\* Each group of a scan is found once (RadarOverrun.cpp:36-96), whatever the
\* recycled object holds, and whatever its size: a comment (:68) says that a
\* region of too few points is invalid, but the points that the object holds
\* already, those it was made with and those of its former lives, are counted
\* with them and always exceed the limit.
FindsEachGroup ==
  \A scan \in Scans, i \in 0..Len(pool) :
     Detect(scan, IF i = 0 THEN NewObject ELSE pool[i]).listed = Cardinality(Groups(scan))

Occurrences(s, lists) == LET Places == UNION {{i} \X DOMAIN lists[i] : i \in DOMAIN lists}
                         IN Cardinality({o \in Places : lists[o[1]][o[2]] = s})

\* What holds of scans with several regions and of tables that were expanded,
\* too (:80, :181-236, :337).  A scan is in as many places of the lists, handed over
\* or open, as it shows regions.  Until the table is expanded, the only list
\* that stays open behind the scan before is that of a scan with a second
\* region, whose object has one index for its regions; and a list is a run of
\* consecutive scans.  (After it, an index in use is given again.)
RegionsAccounted ==
  /\ \A s \in DOMAIN object : Occurrences(s, handed) + Occurrences(s, hash) = regions[s]
  /\ Cardinality(DOMAIN used) <= Grow =>
       /\ \A i \in DOMAIN hash : \/ before # None /\ i = before.index
                                \/ regions[Last(hash[i])] > 1
       /\ \A n \in DOMAIN handed : \A j \in 2..Len(handed[n]) :
            handed[n][j] = handed[n][j - 1] + 1

\* While no scan shows two regions and the first table of indexes lasts, each
\* scan of an overrun is in exactly one list, handed over or open (:181-236);
\* at most one is open, that of the scan before; what is handed over is a run of
\* consecutive scans.
EachScanOnce ==
  ~several /\ Cardinality(DOMAIN used) <= Grow =>
    /\ \A s \in DOMAIN object : Occurrences(s, handed) + Occurrences(s, hash) = 1
    /\ DOMAIN hash = IF before = None THEN {} ELSE {before.index}
    /\ \A n \in DOMAIN handed : \A j \in 2..Len(handed[n]) : handed[n][j] = handed[n][j - 1] + 1
=============================================================================
