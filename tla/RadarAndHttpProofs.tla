------------------------- MODULE RadarAndHttpProofs -------------------------
(***************************************************************************)
(* The two machines of MCDevices that walk: cancelAllRequests through a     *)
(* list that shrinks under it, and Detect through the points of a scan.     *)
(* For any number of replies each is told once; for any scans their groups  *)
(* are found, and a scan is in one list.                                    *)
(***************************************************************************)
EXTENDS MCDevices, SequenceTheorems, FiniteSetTheorems, NaturalsInduction,
        WellFoundedInduction, TLAPS

-----------------------------------------------------------------------------
(* Numbers.                                                                 *)

\* A set that holds 0, and n + 1 with each n, holds all numbers.
LEMMA NatSet ==
  ASSUME NEW S, 0 \in S, \A n \in Nat : n \in S => n + 1 \in S
  PROVE  Nat \subseteq S
<1>1. SUFFICES ASSUME NEW T, T = Nat \ S, T # {} PROVE FALSE
  OBVIOUS
<1> DEFINE less == OpToRel(<, Nat)
<1>2. IsWellFoundedOn(less, Nat)
  BY NatLessThanWellFounded
<1>3. T \subseteq Nat
  BY <1>1
<1> HIDE DEF less
<1>4. \E x \in T : \A y \in T : ~ (<<y, x>> \in less)
  BY <1>1, <1>2, <1>3, WFMin, Zenon
<1>5. PICK x \in T : \A y \in T : ~ (y < x)
  BY <1>3, <1>4 DEF less, OpToRel
<1>6. x # 0 /\ x - 1 \in Nat /\ x - 1 \notin T
  BY <1>1, <1>5
<1> QED
  BY <1>1, <1>6

\* The same up to a bound.
LEMMA UpTo ==
  ASSUME NEW N \in Nat, NEW Good, 0 \in Good, \A n \in 1..N : n - 1 \in Good => n \in Good
  PROVE  \A n \in 0..N : n \in Good
<1> DEFINE Within == {n \in Nat : n <= N => n \in Good}
<1>1. 0 \in Within /\ \A n \in Nat : n \in Within => n + 1 \in Within
  <2> SUFFICES ASSUME NEW n \in Nat, n \in Within, n + 1 <= N PROVE n + 1 \in Good
    OBVIOUS
  <2>1. n \in Good /\ n + 1 \in 1..N
    OBVIOUS
  <2>2. (n + 1) - 1 \in Good
    BY <2>1
  <2> QED
    BY <2>1, <2>2
<1>2. Nat \subseteq Within
  <2> HIDE DEF Within
  <2> QED
    BY <1>1, NatSet
<1> QED
  BY <1>2

\* A function on numbers can be defined by what each value makes of the one before.
Solves(f, N, U, x, onward) == /\ f \in [0..N -> U] /\ f[0] = x
                            /\ \A n \in 1..N : f[n] = onward[<<n, f[n - 1]>>]

LEMMA Recursion ==
  ASSUME NEW N \in Nat, NEW U, NEW x \in U, NEW onward \in [(1..N) \X U -> U]
  PROVE  \E f : Solves(f, N, U, x, onward)
<1> DEFINE Good == {m \in 0..N : \E f : Solves(f, m, U, x, onward)}
<1> USE DEF Solves
<1>1. 0 \in Good
  <2> DEFINE g == [n \in 0..0 |-> x]
  <2>1. g \in [0..0 -> U] /\ g[0] = x /\ 1..0 = {} /\ 0 \in 0..N
    OBVIOUS
  <2> HIDE DEF g
  <2>2. Solves(g, 0, U, x, onward)
    BY <2>1
  <2> QED
    BY <2>1, <2>2
<1>2. ASSUME NEW m \in 1..N, m - 1 \in Good PROVE m \in Good
  <2>1. PICK f : Solves(f, m - 1, U, x, onward)
    BY <1>2
  <2> DEFINE g == [n \in 0..m |-> IF n = m THEN onward[<<m, f[m - 1]>>] ELSE f[n]]
  <2>2. f[m - 1] \in U /\ m - 1 \in 0..(m - 1)
    BY <2>1
  <2>3. onward[<<m, f[m - 1]>>] \in U
    BY <2>2
  <2>4. g \in [0..m -> U] /\ g[0] = x
    BY <2>1, <2>3
  <2>5. ASSUME NEW n \in 1..m PROVE g[n] = onward[<<n, g[n - 1]>>]
    <3>1. g[n - 1] = f[n - 1]
      OBVIOUS
    <3>2. CASE n = m
      <4>1. g[m] = onward[<<m, f[m - 1]>>]
        OBVIOUS
      <4> QED
        BY <3>1, <3>2, <4>1
    <3>3. CASE n # m
      <4>1. n \in 1..(m - 1) /\ g[n] = f[n]
        BY <3>3
      <4> QED
        BY <2>1, <3>1, <4>1
    <3> QED
      BY <3>2, <3>3
  <2>6. Solves(g, m, U, x, onward)
    BY <2>4, <2>5
  <2> HIDE DEF Solves, g
  <2> QED
    BY <2>6
<1>3. N \in Good
  <2> HIDE DEF Good
  <2>1. \A n \in 0..N : n \in Good
    BY <1>1, <1>2, UpTo
  <2> QED
    BY <2>1
<1> QED
  BY <1>3

-----------------------------------------------------------------------------
(* The replies of the HTTP client.                                          *)

Distinct(s) == \A i, j \in 1..Len(s) : s[i] = s[j] => i = j

\* What removeAll leaves is a sequence; of different elements it leaves out one.
LEMMA RemovedType ==
  ASSUME NEW s \in Seq(Nat), NEW r
  PROVE  \E z \in [0..Len(s) -> Seq(Nat)] :
            /\ z[0] = <<>>
            /\ \A i \in 1..Len(s) : z[i] = IF s[i] = r THEN z[i - 1] ELSE Append(z[i - 1], s[i])
            /\ H!Removed(s, r) = z[Len(s)]
<1> DEFINE E(f) == [i \in 0..Len(s) |-> IF i = 0 THEN <<>>
                                        ELSE IF s[i] = r THEN f[i - 1]
                                        ELSE Append(f[i - 1], s[i])]
           onward == [p \in (1..Len(s)) \X Seq(Nat) |->
                        IF s[p[1]] = r THEN p[2] ELSE Append(p[2], s[p[1]])]
           z == CHOOSE f : f = E(f)
<1>0. Len(s) \in Nat /\ \A i \in 1..Len(s) : s[i] \in Nat
  OBVIOUS
<1>1. /\ onward \in [(1..Len(s)) \X Seq(Nat) -> Seq(Nat)]
      /\ \A i \in 1..Len(s), t \in Seq(Nat) :
           onward[<<i, t>>] = IF s[i] = r THEN t ELSE Append(t, s[i])
  <2>1. ASSUME NEW i \in 1..Len(s), NEW t \in Seq(Nat) PROVE Append(t, s[i]) \in Seq(Nat)
    BY <1>0
  <2> QED
    BY <2>1
<1>2. \E f : f = E(f)
  <2> HIDE DEF onward
  <2>1. PICK f : Solves(f, Len(s), Seq(Nat), <<>>, onward)
    <3>1. <<>> \in Seq(Nat)
      OBVIOUS
    <3> QED
      BY <1>0, <1>1, <3>1, Recursion, Zenon
  <2>2. ASSUME NEW i \in 0..Len(s) PROVE f[i] = E(f)[i]
    <3>1. i # 0 => i \in 1..Len(s) /\ f[i - 1] \in Seq(Nat)
      <4>1. i # 0 => i \in 1..Len(s) /\ i - 1 \in 0..Len(s)
        BY <1>0
      <4> QED
        BY <2>1, <4>1 DEF Solves
    <3> QED
      BY <1>1, <2>1, <3>1 DEF Solves
  <2>3. f = E(f)
    BY <2>1, <2>2 DEF Solves
  <2> QED
    BY <2>3
<1>3. z = E(z)
  <2> HIDE DEF E
  <2> QED
    BY <1>2, Zenon
<1>4. H!Removed(s, r) = z[Len(s)]
  BY DEF H!Removed
<1> HIDE DEF z, onward
<1>5. /\ z[0] = <<>>
      /\ \A i \in 1..Len(s) : z[i] = IF s[i] = r THEN z[i - 1] ELSE Append(z[i - 1], s[i])
  <2>1. ASSUME NEW i \in 0..Len(s)
        PROVE  z[i] = IF i = 0 THEN <<>>
                      ELSE IF s[i] = r THEN z[i - 1] ELSE Append(z[i - 1], s[i])
    BY <1>3, Zenon
  <2>2. 0 \in 0..Len(s) /\ \A i \in 1..Len(s) : i \in 0..Len(s) /\ i # 0
    BY <1>0
  <2> HIDE DEF E
  <2> QED
    BY <2>1, <2>2, Zenon
<1>6. z \in [0..Len(s) -> Seq(Nat)]
  <2> DEFINE Good == {i \in 0..Len(s) : z[i] \in Seq(Nat)}
  <2>1. 0 \in Good
    <3>1. <<>> \in Seq(Nat) /\ 0 \in 0..Len(s)
      BY <1>0
    <3>2. z[0] \in Seq(Nat)
      BY <1>5, <3>1
    <3> QED
      BY <3>1, <3>2
  <2>2. ASSUME NEW i \in 1..Len(s), i - 1 \in Good PROVE i \in Good
    <3>1. z[i - 1] \in Seq(Nat) /\ s[i] \in Nat /\ i \in 0..Len(s)
      BY <1>0, <2>2
    <3> DEFINE y == z[i - 1]
    <3>2. Append(y, s[i]) \in Seq(Nat)
      <4> HIDE DEF y
      <4>1. y \in Seq(Nat)
        BY <3>1 DEF y
      <4> QED
        BY <3>1, <4>1
    <3>3. z[i] = y \/ z[i] = Append(y, s[i])
      BY <1>5, Zenon
    <3> QED
      BY <3>1, <3>2, <3>3
  <2> HIDE DEF Good
  <2>3. \A i \in 0..Len(s) : i \in Good
    BY <1>0, <2>1, <2>2, UpTo
  <2>4. DOMAIN z = 0..Len(s) /\ z = [i \in DOMAIN z |-> z[i]]
    BY <1>3
  <2> QED
    BY <2>3, <2>4 DEF Good
<1> QED
  BY <1>4, <1>5, <1>6

LEMMA RemovedIs ==
  ASSUME NEW s \in Seq(Nat), Distinct(s), NEW p \in 1..Len(s)
  PROVE  /\ H!Removed(s, s[p]) \in Seq(Nat)
         /\ Len(H!Removed(s, s[p])) = Len(s) - 1
         /\ \A j \in 1..(Len(s) - 1) : H!Removed(s, s[p])[j] = IF j < p THEN s[j] ELSE s[j + 1]
<1>1. PICK z \in [0..Len(s) -> Seq(Nat)] :
         /\ z[0] = <<>>
         /\ \A i \in 1..Len(s) : z[i] = IF s[i] = s[p] THEN z[i - 1] ELSE Append(z[i - 1], s[i])
         /\ H!Removed(s, s[p]) = z[Len(s)]
  BY RemovedType
<1> DEFINE l == Len(s)
<1>2. l \in Nat /\ p \in 1..l /\ \A i \in 1..l : s[i] \in Nat /\ (s[i] = s[p] <=> i = p)
  BY DEF Distinct
<1>3. /\ z[0] = <<>>
      /\ \A i \in 1..l : z[i] = IF i = p THEN z[i - 1] ELSE Append(z[i - 1], s[i])
  BY <1>1, <1>2
<1>4. \A i \in 0..l : z[i] \in Seq(Nat)
  BY <1>1
<1> HIDE DEF l
<1> DEFINE Kept(i) == /\ Len(z[i]) = (IF i < p THEN i ELSE i - 1)
                      /\ \A j \in 1..Len(z[i]) : z[i][j] = IF j < p THEN s[j] ELSE s[j + 1]
           Good == {i \in 0..l : Kept(i)}
<1>5. 0 \in Good
  <2>1. Len(z[0]) = 0 /\ 0 < p /\ 0 \in 0..l
    BY <1>2, <1>3
  <2>2. Kept(0)
    BY <2>1
  <2> HIDE DEF Kept
  <2> QED
    BY <2>1, <2>2
<1>6. ASSUME NEW i \in 1..l, i - 1 \in Good PROVE i \in Good
  <2> DEFINE y == z[i - 1]
             m == Len(y)
  <2>1. y \in Seq(Nat) /\ m \in Nat /\ i - 1 \in 0..l /\ s[i] \in Nat
    BY <1>2, <1>4
  <2>2. m = (IF i - 1 < p THEN i - 1 ELSE i - 2)
        /\ \A j \in 1..m : y[j] = IF j < p THEN s[j] ELSE s[j + 1]
    BY <1>6
  <2> HIDE DEF m
  <2>3. CASE i = p
    <3>1. z[i] = y
      BY <1>3, <2>3
    <3>2. m = i - 1
      BY <1>2, <2>2, <2>3
    <3>3. ~(i < p)
      BY <1>2, <2>3
    <3> HIDE DEF y
    <3>4. Kept(i)
      BY <2>2, <3>1, <3>2, <3>3 DEF m
    <3> HIDE DEF Kept
    <3> QED
      BY <3>4
  <2>4. CASE i # p
    <3>1. z[i] = Append(y, s[i])
      BY <1>3, <2>4
    <3> HIDE DEF y
    <3> DEFINE a == Append(y, s[i])
    <3>2. Len(a) = m + 1 /\ a[m + 1] = s[i] /\ \A j \in 1..m : a[j] = y[j]
      BY <2>1 DEF m
    <3> HIDE DEF a
    <3>3. m + 1 = (IF i < p THEN i ELSE i - 1)
      BY <1>2, <2>2, <2>4
    <3>4. s[i] = IF m + 1 < p THEN s[m + 1] ELSE s[(m + 1) + 1]
      <4>1. CASE i < p
        BY <3>3, <4>1
      <4>2. CASE ~(i < p)
        <5>1. m + 1 = i - 1 /\ ~(m + 1 < p) /\ (m + 1) + 1 = i
          BY <1>2, <2>4, <3>3, <4>2
        <5> QED
          BY <5>1
      <4> QED
        BY <4>1, <4>2
    <3>5. ASSUME NEW j \in 1..(m + 1) PROVE a[j] = IF j < p THEN s[j] ELSE s[j + 1]
      <4>1. j = m + 1 \/ j \in 1..m
        BY <2>1
      <4> QED
        BY <2>2, <3>2, <3>4, <4>1
    <3>6. Kept(i)
      <4>1. z[i] = a
        BY <3>1 DEF a
      <4> QED
        BY <3>2, <3>3, <3>5, <4>1
    <3> HIDE DEF Kept
    <3> QED
      BY <3>6
  <2>5. Kept(i) /\ i \in 0..l
    BY <1>2, <2>3, <2>4
  <2> HIDE DEF Kept
  <2> QED
    BY <2>5
<1> HIDE DEF Good, Kept
<1>7. l \in Good
  <2>1. \A i \in 0..l : i \in Good
    BY <1>2, <1>5, <1>6, UpTo
  <2> QED
    BY <1>2, <2>1
<1>8. Kept(l)
  BY <1>7 DEF Good
<1>9. ~(l < p) /\ l \in 0..l
  BY <1>2
<1> QED
  BY <1>1, <1>4, <1>8, <1>9 DEF Kept, l

LEMMA RemovedNone ==
  ASSUME NEW s \in Seq(Nat), NEW r, \A i \in 1..Len(s) : s[i] # r
  PROVE  H!Removed(s, r) = s
<1>1. PICK z \in [0..Len(s) -> Seq(Nat)] :
         /\ z[0] = <<>>
         /\ \A i \in 1..Len(s) : z[i] = IF s[i] = r THEN z[i - 1] ELSE Append(z[i - 1], s[i])
         /\ H!Removed(s, r) = z[Len(s)]
  BY RemovedType
<1> DEFINE l == Len(s)
<1>2. l \in Nat /\ \A i \in 1..l : s[i] \in Nat
  OBVIOUS
<1>3. z[0] = <<>> /\ \A i \in 1..l : z[i] = Append(z[i - 1], s[i])
  BY <1>1
<1>4. \A i \in 0..l : z[i] \in Seq(Nat)
  BY <1>1
<1> HIDE DEF l
<1> DEFINE Kept(i) == Len(z[i]) = i /\ \A j \in 1..i : z[i][j] = s[j]
           Good == {i \in 0..l : Kept(i)}
<1>5. 0 \in Good
  <2>1. Len(z[0]) = 0 /\ 0 \in 0..l
    BY <1>2, <1>3
  <2> QED
    BY <2>1
<1>6. ASSUME NEW i \in 1..l, i - 1 \in Good PROVE i \in Good
  <2> DEFINE y == z[i - 1]
             a == Append(y, s[i])
  <2>1. y \in Seq(Nat) /\ Len(y) = i - 1 /\ \A j \in 1..(i - 1) : y[j] = s[j]
    BY <1>4, <1>6
  <2>2. z[i] = a /\ s[i] \in Nat
    BY <1>2, <1>3
  <2> HIDE DEF y
  <2>3. Len(a) = i /\ a[i] = s[i] /\ \A j \in 1..(i - 1) : a[j] = y[j]
    <3>1. Len(a) = Len(y) + 1 /\ a[Len(y) + 1] = s[i] /\ \A j \in 1..Len(y) : a[j] = y[j]
      BY <2>1
    <3> QED
      BY <2>1, <3>1
  <2> HIDE DEF a
  <2>4. \A j \in 1..i : j = i \/ j \in 1..(i - 1)
    OBVIOUS
  <2>5. Kept(i)
    BY <2>1, <2>2, <2>3, <2>4
  <2> HIDE DEF Kept
  <2>6. i \in 0..l
    BY <1>2
  <2> QED
    BY <2>5, <2>6
<1>7. l \in Good
  <2> HIDE DEF Good
  <2>1. \A i \in 0..l : i \in Good
    BY <1>2, <1>5, <1>6, UpTo
  <2> QED
    BY <1>2, <2>1
<1>8. z[l] \in Seq(Nat) /\ Len(z[l]) = Len(s) /\ \A j \in 1..Len(s) : z[l][j] = s[j]
  BY <1>2, <1>4, <1>7 DEF l
<1> HIDE DEF Good
<1>9. z[l] = s
  BY <1>8, SeqEqual
<1> QED
  BY <1>1, <1>9 DEF l

\* The state of the walk through the list, and what a visit makes of it.
WalkState == [running : SUBSET Nat, answers : [1..MaxReplies -> Nat],
              list : Seq(Nat), memory : Seq(Nat)]

LEMMA HandledIs ==
  ASSUME NEW s \in WalkState, NEW r \in s.running
  PROVE  /\ H!HandleResponse(s, r) \in WalkState
         /\ H!HandleResponse(s, r).running = s.running \ {r}
         /\ H!HandleResponse(s, r).list = H!Removed(s.list, r)
         /\ H!HandleResponse(s, r).memory = s.memory
         /\ \A x \in 1..MaxReplies : H!HandleResponse(s, r).answers[x] =
                                       IF x = r THEN s.answers[x] + 1 ELSE s.answers[x]
<1>1. H!Removed(s.list, r) \in Seq(Nat)
  <2> DEFINE t == s.list
  <2>1. t \in Seq(Nat)
    BY DEF WalkState
  <2> HIDE DEF t
  <2>2. PICK z \in [0..Len(t) -> Seq(Nat)] : H!Removed(t, r) = z[Len(t)]
    BY <2>1, RemovedType
  <2>3. Len(t) \in 0..Len(t)
    BY <2>1
  <2> QED
    BY <2>2, <2>3 DEF t
<1> DEFINE l == H!Removed(s.list, r)
           b == [s.answers EXCEPT ![r] = @ + 1]
<1>2. H!HandleResponse(s, r) = [s EXCEPT !.running = s.running \ {r}, !.answers = b, !.list = l]
  BY DEF H!HandleResponse, WalkState
<1>3. /\ b \in [1..MaxReplies -> Nat]
      /\ \A x \in 1..MaxReplies : b[x] = IF x = r THEN s.answers[x] + 1 ELSE s.answers[x]
  <2> DEFINE c == s.answers
  <2>1. c \in [1..MaxReplies -> Nat]
    BY DEF WalkState
  <2> HIDE DEF c
  <2>2. \A x \in 1..MaxReplies : c[x] + 1 \in Nat
    BY <2>1
  <2> QED
    BY <2>1, <2>2 DEF c
<1> HIDE DEF l, b
<1>4. l \in Seq(Nat)
  BY <1>1 DEF l
<1> QED
  BY <1>2, <1>3, <1>4 DEF WalkState, l

LEMMA VisitType ==
  ASSUME NEW s \in WalkState, NEW i \in Nat
  PROVE  /\ H!Visit(s, i) \in WalkState
         /\ s.memory[i] \notin s.running => H!Visit(s, i) = s
         /\ s.memory[i] \in s.running =>
              LET h == H!HandleResponse(s, s.memory[i])
              IN H!Visit(s, i) = [h EXCEPT !.memory = h.list \o SubSeq(s.memory, Len(h.list) + 1,
                                                                     Len(s.memory))]
<1>1. CASE s.memory[i] \notin s.running
  BY <1>1 DEF H!Visit
<1>2. CASE s.memory[i] \in s.running
  <2> DEFINE h == H!HandleResponse(s, s.memory[i])
             q == SubSeq(s.memory, Len(h.list) + 1, Len(s.memory))
  <2>1. h \in WalkState
    BY <1>2, HandledIs
  <2>2. H!Visit(s, i) = [h EXCEPT !.memory = h.list \o q]
    BY <1>2 DEF H!Visit
  <2> HIDE DEF h
  <2>3. h.list \in Seq(Nat) /\ s.memory \in Seq(Nat)
    BY <2>1 DEF WalkState
  <2>4. q \in Seq(Nat)
    <3>1. Len(h.list) \in Nat /\ Len(s.memory) \in Nat
      BY <2>3
    <3>2. Len(h.list) + 1 >= 1
      BY <3>1
    <3>3. \A k \in (Len(h.list) + 1)..Len(s.memory) : s.memory[k] \in Nat
      BY <2>3, <3>1
    <3> QED
      BY <2>3, <3>1, <3>2, <3>3, SubSeqProperties
  <2> HIDE DEF q
  <2>5. h.list \o q \in Seq(Nat)
    BY <2>3, <2>4
  <2>6. [h EXCEPT !.memory = h.list \o q] \in WalkState
    BY <2>1, <2>5 DEF WalkState
  <2> QED
    BY <1>2, <2>2, <2>6 DEF h, q
<1> QED
  BY <1>1, <1>2

Begun == [running |-> repliesRunning, answers |-> answers, list |-> m_currentReplies,
          memory |-> m_currentReplies]

LEMMA WalkIs ==
  ASSUME Begun \in WalkState, H!CancelAll
  PROVE  \E z \in [0..Len(m_currentReplies) -> WalkState] :
            LET s == z[Len(m_currentReplies)]
            IN /\ z[0] = Begun
               /\ \A i \in 1..Len(m_currentReplies) : z[i] = H!Visit(z[i - 1], i)
               /\ repliesRunning' = s.running /\ answers' = s.answers
               /\ skipped' = skipped \cup (s.running \cap H!ToSet(m_currentReplies))
               /\ m_currentReplies' = <<>>
<1> DEFINE n == Len(m_currentReplies)
           E(f) == [i \in 0..n |-> IF i = 0 THEN Begun ELSE H!Visit(f[i - 1], i)]
           onward == [p \in (1..n) \X WalkState |-> H!Visit(p[2], p[1])]
           z == CHOOSE f : f = E(f)
<1>0. n \in Nat
  BY DEF Begun, WalkState
<1>1. /\ onward \in [(1..n) \X WalkState -> WalkState]
      /\ \A i \in 1..n, t \in WalkState : onward[<<i, t>>] = H!Visit(t, i)
  <2>1. ASSUME NEW i \in 1..n, NEW t \in WalkState PROVE H!Visit(t, i) \in WalkState
    <3>1. i \in Nat
      BY <1>0
    <3> QED
      BY <3>1, VisitType
  <2> QED
    BY <2>1
<1>5. LET s == z[n]
      IN /\ repliesRunning' = s.running /\ answers' = s.answers
         /\ skipped' = skipped \cup (s.running \cap H!ToSet(m_currentReplies))
         /\ m_currentReplies' = <<>>
  BY DEF H!CancelAll, Begun
<1> HIDE DEF n
<1>2. \E f : f = E(f)
  <2> HIDE DEF onward
  <2>1. PICK f : Solves(f, n, WalkState, Begun, onward)
    BY <1>0, <1>1, Recursion, Zenon
  <2>2. ASSUME NEW i \in 0..n PROVE f[i] = E(f)[i]
    <3>1. i # 0 => i \in 1..n /\ f[i - 1] \in WalkState
      <4>1. i # 0 => i \in 1..n /\ i - 1 \in 0..n
        BY <1>0
      <4> QED
        BY <2>1, <4>1 DEF Solves
    <3> QED
      BY <1>1, <2>1, <3>1 DEF Solves
  <2>3. f = E(f)
    BY <2>1, <2>2 DEF Solves
  <2> QED
    BY <2>3
<1>3. z = E(z)
  <2> HIDE DEF E
  <2> QED
    BY <1>2, Zenon
<1> HIDE DEF z, onward
<1>4. z[0] = Begun /\ \A i \in 1..n : z[i] = H!Visit(z[i - 1], i)
  <2>1. ASSUME NEW i \in 0..n PROVE z[i] = IF i = 0 THEN Begun ELSE H!Visit(z[i - 1], i)
    BY <1>3, Zenon
  <2>2. 0 \in 0..n /\ \A i \in 1..n : i \in 0..n /\ i # 0
    BY <1>0
  <2> HIDE DEF E
  <2> QED
    BY <2>1, <2>2, Zenon
<1>6. z \in [0..n -> WalkState]
  <2> DEFINE Good == {i \in 0..n : z[i] \in WalkState}
  <2>1. 0 \in Good
    BY <1>0, <1>4
  <2>2. ASSUME NEW i \in 1..n, i - 1 \in Good PROVE i \in Good
    <3>1. i \in 0..n /\ i \in Nat /\ z[i - 1] \in WalkState
      BY <1>0, <2>2
    <3>2. H!Visit(z[i - 1], i) \in WalkState
      BY <3>1, VisitType
    <3> QED
      BY <1>4, <3>1, <3>2
  <2> HIDE DEF Good
  <2>3. \A i \in 0..n : i \in Good
    BY <1>0, <2>1, <2>2, UpTo
  <2>4. DOMAIN z = 0..n /\ z = [i \in DOMAIN z |-> z[i]]
    BY <1>3
  <2> QED
    BY <2>3, <2>4 DEF Good
<1> QED
  BY <1>4, <1>5, <1>6, Zenon DEF n

At(m, n) == IF m < n THEN m ELSE n

\* What holds when k places of the list a were visited: each visit has taken out
\* an element at least two places behind the last, until it took the last one.
\* The places that follow hold what is as many places behind them in a.
Walked(s, k, a) ==
  /\ Distinct(s.list) /\ Len(s.memory) = Len(a)
  /\ Len(a) - k <= Len(s.list) /\ Len(s.list) <= Len(a)
  /\ \A j \in 1..Len(s.list) : s.list[j] = s.memory[j] /\ s.list[j] \in s.running
  /\ \A j \in 1..Len(a) : a[j] \in s.running => \E p \in 1..Len(s.list) : s.list[p] = a[j]
  /\ \A j \in (k + 1)..Len(a) : s.memory[j] = a[At(j + k, Len(a))]
  /\ \A j \in 1..k : a[At(2 * j - 1, Len(a))] \notin s.running

LEMMA WalkStep ==
  ASSUME NEW a \in Seq(Nat), Distinct(a), NEW s \in WalkState, NEW k \in 1..Len(a),
         Walked(s, k - 1, a)
  PROVE  Walked(H!Visit(s, k), k, a)
<1> DEFINE n == Len(a)
           m == s.memory
           l == s.list
           r == m[k]
           z == Len(l)
<1>0. n \in Nat /\ k \in 1..n /\ k \in Nat
  OBVIOUS
<1>1. /\ l \in Seq(Nat) /\ m \in Seq(Nat) /\ z \in Nat /\ Len(l) = z /\ Len(m) = n
      /\ \A i, j \in 1..z : l[i] = l[j] => i = j
      /\ n - (k - 1) <= z /\ z <= n
      /\ \A j \in 1..z : l[j] = m[j] /\ l[j] \in s.running
      /\ \A j \in 1..n : a[j] \in s.running => \E p \in 1..z : l[p] = a[j]
      /\ \A j \in k..n : m[j] = a[At(j + (k - 1), n)]
      /\ \A j \in 1..(k - 1) : a[At(2 * j - 1, n)] \notin s.running
  <2>1. l \in Seq(Nat) /\ m \in Seq(Nat)
    BY DEF WalkState
  <2>2. (k - 1) + 1 = k
    BY <1>0
  <2> QED
    BY <2>1, <2>2 DEF Walked, Distinct
<1>n. z \in Nat /\ n - (k - 1) <= z /\ z <= n
  BY <1>1
<1>d. \A i, j \in 1..n : a[i] = a[j] => i = j
  BY DEF Distinct
<1>w. \A t : Walked(t, k, a) <=>
        /\ Distinct(t.list) /\ Len(t.memory) = n
        /\ n - k <= Len(t.list) /\ Len(t.list) <= n
        /\ \A j \in 1..Len(t.list) : t.list[j] = t.memory[j] /\ t.list[j] \in t.running
        /\ \A j \in 1..n : a[j] \in t.running => \E p \in 1..Len(t.list) : t.list[p] = a[j]
        /\ \A j \in (k + 1)..n : t.memory[j] = a[At(j + k, n)]
        /\ \A j \in 1..k : a[At(2 * j - 1, n)] \notin t.running
  BY DEF Walked
<1>s. s.list = l /\ s.memory = m /\ Distinct(l)
  BY DEF Walked
<1> DEFINE q == At(2 * k - 1, n)
<1>2. r = a[q] /\ q \in 1..n
  <2>1. k + (k - 1) = 2 * k - 1 /\ k \in k..n
    BY <1>0
  <2>2. q \in 1..n
    <3> HIDE DEF n
    <3> QED
      BY <1>0 DEF At
  <2>3. r = a[At(k + (k - 1), n)]
    BY <1>1, <2>1
  <2> QED
    BY <2>1, <2>2, <2>3
<1>3. /\ r \notin s.running => H!Visit(s, k) = s
      /\ r \in s.running =>
           LET h == H!HandleResponse(s, r)
           IN H!Visit(s, k) = [h EXCEPT !.memory = h.list \o SubSeq(m, Len(h.list) + 1, Len(m))]
  BY <1>0, VisitType
<1>h. r \in s.running => /\ H!HandleResponse(s, r) \in WalkState
                        /\ H!HandleResponse(s, r).running = s.running \ {r}
                        /\ H!HandleResponse(s, r).list = H!Removed(l, r)
  BY HandledIs
<1> HIDE DEF n, m, l, z, r
<1>4. CASE r \notin s.running
  \* The last element is gone: what follows was the last one.
  <2>1. 2 * k - 1 >= n
    <3> SUFFICES ASSUME 2 * k - 1 < n PROVE FALSE
      BY <1>0
    <3>1. k \in 1..z
      BY <1>0, <1>1
    <3> QED
      BY <1>1, <1>4, <3>1 DEF r
  <2>2. \A j \in (k + 1)..n : /\ j \in k..n
                              /\ At(j + (k - 1), n) = n /\ At(j + k, n) = n
    BY <1>0, <2>1 DEF At
  <2>3. \A j \in (k + 1)..n : m[j] = a[At(j + k, n)]
    BY <1>1, <2>2
  <2>4. \A j \in 1..k : a[At(2 * j - 1, n)] \notin s.running
    <3>1. \A j \in 1..k : j = k \/ j \in 1..(k - 1)
      BY <1>0
    <3> QED
      BY <1>1, <1>2, <1>4, <3>1
  <2>5. n - k <= z
    BY <1>0, <1>n
  <2>6. /\ Distinct(s.list) /\ Len(s.memory) = n
        /\ n - k <= Len(s.list) /\ Len(s.list) <= n
        /\ \A j \in 1..Len(s.list) : s.list[j] = s.memory[j] /\ s.list[j] \in s.running
        /\ \A j \in 1..n : a[j] \in s.running => \E p \in 1..Len(s.list) : s.list[p] = a[j]
    BY <1>1, <1>s, <2>5
  <2>7. Walked(s, k, a)
    BY <1>w, <1>s, <2>3, <2>4, <2>6, Zenon
  <2> QED
    BY <1>3, <1>4, <2>7
<1>5. CASE r \in s.running
  <2>1. PICK p \in 1..z : l[p] = r
    BY <1>1, <1>2, <1>5
  <2>p. p \in 1..z /\ p \in Nat
    BY <1>n, <2>1
  <2> DEFINE h == H!HandleResponse(s, r)
             w == H!Removed(l, r)
             b == SubSeq(m, Len(w) + 1, Len(m))
             v == w \o b
  <2>2. /\ w \in Seq(Nat) /\ Len(w) = z - 1
        /\ \A j \in 1..(z - 1) : w[j] = IF j < p THEN l[j] ELSE l[j + 1]
    <3>1. l \in Seq(Nat) /\ Distinct(l) /\ p \in 1..Len(l) /\ l[p] = r /\ Len(l) = z
      BY <1>1, <1>s, <2>1
    <3> HIDE DEF l, r, z
    <3>2. /\ H!Removed(l, l[p]) \in Seq(Nat)
          /\ Len(H!Removed(l, l[p])) = Len(l) - 1
          /\ \A j \in 1..(Len(l) - 1) : H!Removed(l, l[p])[j] = IF j < p THEN l[j] ELSE l[j + 1]
      BY <3>1, RemovedIs
    <3> QED
      BY <3>1, <3>2
  <2>3. /\ H!Visit(s, k).running = s.running \ {r}
        /\ H!Visit(s, k).list = w /\ H!Visit(s, k).memory = v
    <3>1. h \in WalkState /\ h.running = s.running \ {r} /\ h.list = w
      BY <1>5, <1>h
    <3>2. H!Visit(s, k) = [h EXCEPT !.memory = v]
      BY <1>3, <1>5, <3>1, Zenon
    <3> HIDE DEF h, v, w, r
    <3> QED
      BY <3>1, <3>2 DEF WalkState
  <2> DEFINE c == Len(w)
  <2>4. c \in Nat /\ c = z - 1 /\ c + 1 <= n /\ Len(w) = c
    BY <1>1, <2>1, <2>2
  <2>5. /\ Len(v) = n
        /\ \A j \in 1..c : v[j] = w[j]
        /\ \A j \in (c + 1)..n : v[j] = m[j]
    <3> HIDE DEF w, c
    <3>1. \A j \in (c + 1)..n : m[j] \in Nat
      <4>1. \A j \in 1..n : m[j] \in Nat
        BY <1>1
      <4>2. \A j \in (c + 1)..n : j \in 1..n
        BY <1>0, <2>4
      <4> QED
        BY <4>1, <4>2
    <3>2. b \in Seq(Nat) /\ Len(b) = n - c /\ \A j \in 1..(n - c) : b[j] = m[c + j]
      <4>1. c + 1 \in Int /\ n \in Int /\ c + 1 >= 1
        BY <1>0, <2>4
      <4> DEFINE d == c + 1
      <4>2. d \in Int /\ d <= n + 1 /\ n - d + 1 = n - c /\ \A j \in 1..(n - c) : d + j - 1 = c + j
        BY <1>0, <2>4
      <4>3. SubSeq(m, d, n) \in Seq(Nat) /\ Len(SubSeq(m, d, n)) = (IF d <= n THEN n - d + 1 ELSE 0)
            /\ \A j \in 1..(n - d + 1) : SubSeq(m, d, n)[j] = m[d + j - 1]
        <5>1. d \in Nat /\ n \in Nat /\ d >= 1 /\ \A j \in d..n : m[j] \in Nat
          BY <1>0, <2>4, <3>1, <4>1
        <5> HIDE DEF d
        <5> QED
          BY <1>1, <5>1, SubSeqProperties
      <4>4. Len(SubSeq(m, d, n)) = n - c
        <5>1. d <= n
          BY <2>4
        <5> QED
          BY <4>2, <4>3, <5>1
      <4>5. b = SubSeq(m, d, n)
        BY <1>1, <2>4
      <4> HIDE DEF b, d
      <4> QED
        BY <4>2, <4>3, <4>4, <4>5
    <3> HIDE DEF b
    <3>3. Len(v) = c + Len(b) /\ \A j \in 1..(c + Len(b)) : v[j] = IF j <= c THEN w[j] ELSE b[j - c]
      <4>1. /\ Len(v) = Len(w) + Len(b)
            /\ \A j \in 1..(Len(w) + Len(b)) : v[j] = IF j <= Len(w) THEN w[j] ELSE b[j - Len(w)]
        BY <2>2, <3>2, ConcatProperties
      <4> QED
        BY <2>4, <4>1
    <3> HIDE DEF v
    <3>4. Len(v) = n /\ \A j \in 1..c : v[j] = w[j]
      <4>1. c + Len(b) = n /\ \A j \in 1..c : j \in 1..(c + Len(b)) /\ j <= c
        BY <1>0, <2>4, <3>2
      <4> QED
        BY <3>3, <4>1
    <3>6. Len(b) = n - c
      BY <3>2
    <3>5. ASSUME NEW j \in (c + 1)..n PROVE v[j] = m[j]
      <4>1. j \in 1..(c + Len(b)) /\ ~(j <= c) /\ j - c \in 1..(n - c) /\ c + (j - c) = j
        <5> DEFINE e == Len(b)
        <5>1. e = n - c
          BY <3>6
        <5> HIDE DEF e
        <5>2. j \in 1..(c + e) /\ ~(j <= c) /\ j - c \in 1..(n - c) /\ c + (j - c) = j
          BY <1>0, <2>4, <5>1
        <5> QED
          BY <5>2 DEF e
      <4>2. v[j] = b[j - c]
        BY <3>3, <4>1
      <4>3. b[j - c] = m[c + (j - c)]
        BY <3>2, <4>1
      <4> QED
        BY <4>1, <4>2, <4>3
    <3> QED
      BY <3>4, <3>5
  <2> HIDE DEF v, b, h, c
  <2>6. ASSUME NEW j \in 1..c
        PROVE  \E i \in 1..z : w[j] = l[i] /\ i # p /\ ((i = j /\ j < p) \/ (i = j + 1 /\ j >= p))
    <3> HIDE DEF w
    <3>1. j \in 1..(z - 1) /\ j \in 1..z /\ j + 1 \in 1..z /\ j \in Nat /\ p \in Nat
      BY <1>n, <2>p, <2>4
    <3>2. CASE j < p
      <4>1. w[j] = l[j] /\ j # p
        BY <2>2, <3>1, <3>2
      <4>2. w[j] = l[j] /\ j # p /\ ((j = j /\ j < p) \/ (j = j + 1 /\ j >= p))
        BY <3>2, <4>1
      <4> QED
        BY <3>1, <4>2, Zenon
    <3>3. CASE ~(j < p)
      <4>1. w[j] = l[j + 1] /\ j + 1 # p /\ j >= p
        BY <2>2, <3>1, <3>3
      <4> QED
        BY <3>1, <4>1
    <3> QED
      BY <3>2, <3>3
  <2>7. Distinct(w)
    <3> SUFFICES ASSUME NEW i \in 1..c, NEW j \in 1..c, w[i] = w[j] PROVE i = j
      BY <2>4 DEF Distinct
    <3>1. PICK x \in 1..z : w[i] = l[x] /\ ((x = i /\ i < p) \/ (x = i + 1 /\ i >= p))
      BY <2>6
    <3>2. PICK y \in 1..z : w[j] = l[y] /\ ((y = j /\ j < p) \/ (y = j + 1 /\ j >= p))
      BY <2>6
    <3>3. x = y
      <4>1. l[x] = l[y]
        BY <3>1, <3>2
      <4> QED
        BY <1>1, <4>1
    <3>4. i \in Nat /\ j \in Nat /\ p \in Nat
      BY <1>n, <2>p, <2>4
    <3>5. ((x = i /\ i < p) \/ (x = i + 1 /\ i >= p)) /\ ((x = j /\ j < p) \/ (x = j + 1 /\ j >= p))
      BY <3>1, <3>2, <3>3
    <3> HIDE DEF w
    <3> QED
      BY <3>4, <3>5
  <2>8. \A j \in 1..c : w[j] = v[j] /\ w[j] \in s.running \ {r}
    <3> SUFFICES ASSUME NEW j \in 1..c PROVE w[j] \in s.running /\ w[j] # r
      BY <2>5
    <3>1. PICK i \in 1..z : w[j] = l[i] /\ i # p
      BY <2>6
    <3> QED
      BY <1>1, <2>1, <3>1
  <2>9. ASSUME NEW j \in 1..n, a[j] \in s.running \ {r} PROVE \E i \in 1..c : w[i] = a[j]
    <3>1. PICK i \in 1..z : l[i] = a[j]
      BY <1>1, <2>9
    <3>2. i # p
      BY <2>1, <2>9, <3>1
    <3> DEFINE o == IF i < p THEN i ELSE i - 1
    <3>3. o \in 1..c /\ o \in 1..(z - 1) /\ (i < p => o < p /\ o = i) /\ (i > p => ~(o < p) /\ o + 1 = i)
      BY <1>n, <2>p, <2>4, <3>1, <3>2
    <3>4. w[o] = l[i]
      <4> HIDE DEF o, w
      <4>1. i < p \/ i > p
        BY <1>1, <2>1, <3>1, <3>2
      <4> QED
        BY <2>2, <3>3, <4>1
    <3> QED
      BY <3>1, <3>3, <3>4
  <2>10. ASSUME NEW j \in (k + 1)..n PROVE v[j] = a[At(j + k, n)]
    <3>1. j \in k..n /\ j \in 1..n
      BY <1>0
    <3>2. m[j] = a[At(j + (k - 1), n)]
      BY <1>1, <3>1
    <3>3. CASE j <= c /\ j >= p
      <4>0. j \in 1..c /\ j \in 1..(z - 1) /\ j + 1 \in 1..z /\ j + 1 \in k..n /\ ~(j < p)
        BY <1>0, <1>n, <2>p, <2>4, <3>1, <3>3
      <4>1. v[j] = l[j + 1] /\ l[j + 1] = m[j + 1]
        BY <1>1, <2>2, <2>5, <4>0
      <4>2. (j + 1) + (k - 1) = j + k
        BY <1>0
      <4> QED
        BY <1>1, <4>0, <4>1, <4>2
    <3>4. CASE j > c
      <4>1. v[j] = m[j]
        <5>1. j \in (c + 1)..n
          BY <1>0, <2>4, <3>1, <3>4
        <5> QED
          BY <2>5, <5>1
      <4>2. At(j + (k - 1), n) = At(j + k, n)
        <5>1. j + (k - 1) >= n
          BY <1>0, <1>1, <2>4, <3>4
        <5> QED
          BY <1>0, <5>1 DEF At
      <4> QED
        BY <3>2, <4>1, <4>2
    <3>5. CASE j <= c /\ j < p
      <4>0. j \in 1..c /\ j \in 1..(z - 1) /\ j \in 1..z /\ p \in k..n /\ p > k
        BY <1>0, <1>n, <2>p, <2>4, <3>1, <3>5
      <4>1. v[j] = l[j] /\ l[j] = m[j]
        BY <1>1, <2>2, <2>5, <3>5, <4>0
      <4>2. l[p] = m[p] /\ m[p] = a[At(p + (k - 1), n)] /\ a[At(p + (k - 1), n)] = a[q]
        BY <1>1, <1>2, <2>1, <4>0
      <4>3. At(p + (k - 1), n) \in 1..n
        BY <1>0, <4>0 DEF At
      <4>4. At(p + (k - 1), n) = q
        BY <1>2, <1>d, <4>2, <4>3
      <4>5. At(j + (k - 1), n) = At(j + k, n)
        <5>1. 2 * k - 1 >= n
          BY <1>0, <4>0, <4>4 DEF At
        <5> QED
          BY <1>0, <3>1, <5>1 DEF At
      <4> QED
        BY <3>2, <4>1, <4>5
    <3>6. (j <= c /\ j >= p) \/ j > c \/ (j <= c /\ j < p)
      BY <1>n, <2>p, <2>4, <3>1
    <3> QED
      BY <3>3, <3>4, <3>5, <3>6
  <2>11. \A j \in 1..k : a[At(2 * j - 1, n)] \notin s.running \ {r}
    <3>1. \A j \in 1..k : j = k \/ j \in 1..(k - 1)
      BY <1>0
    <3> QED
      BY <1>1, <1>2, <3>1
  <2>12. n - k <= c /\ c <= n
    BY <1>0, <1>n, <2>4
  <2> DEFINE t == H!Visit(s, k)
  <2>13. t.running = s.running \ {r} /\ t.list = w /\ t.memory = v /\ Len(w) = c
    BY <2>3, <2>4
  <2> HIDE DEF t, w
  <2>14. /\ Distinct(t.list) /\ Len(t.memory) = n
         /\ n - k <= Len(t.list) /\ Len(t.list) <= n
         /\ \A j \in 1..Len(t.list) : t.list[j] = t.memory[j] /\ t.list[j] \in t.running
    BY <2>5, <2>7, <2>8, <2>12, <2>13
  <2>15. /\ \A j \in 1..n : a[j] \in t.running => \E i \in 1..Len(t.list) : t.list[i] = a[j]
         /\ \A j \in (k + 1)..n : t.memory[j] = a[At(j + k, n)]
         /\ \A j \in 1..k : a[At(2 * j - 1, n)] \notin t.running
    BY <2>9, <2>10, <2>11, <2>13
  <2>16. Walked(t, k, a)
    BY <1>w, <2>14, <2>15, Zenon
  <2> QED
    BY <2>16 DEF t
<1> QED
  BY <1>4, <1>5

ToldOnce(counts, run, n) == \A x \in 1..MaxReplies : counts[x] = IF x \in (1..n) \ run THEN 1 ELSE 0

LEMMA HandledTold ==
  ASSUME MaxReplies \in Nat, NEW n \in Nat, n <= MaxReplies, NEW run \in SUBSET (1..n), NEW r \in run,
         NEW counts, ToldOnce(counts, run, n), NEW new,
         \A x \in 1..MaxReplies : new[x] = IF x = r THEN counts[x] + 1 ELSE counts[x]
  PROVE  ToldOnce(new, run \ {r}, n)
<1> SUFFICES ASSUME NEW x \in 1..MaxReplies
             PROVE  new[x] = IF x \in (1..n) \ (run \ {r}) THEN 1 ELSE 0
  BY DEF ToldOnce
<1>1. CASE x = r
  <2>1. x \in (1..n) \ (run \ {r}) /\ x \notin (1..n) \ run
    BY <1>1
  <2>2. counts[x] = 0
    BY <2>1 DEF ToldOnce
  <2>3. new[x] = counts[x] + 1
    BY <1>1
  <2>4. new[x] = 1
    BY <2>2, <2>3
  <2> QED
    BY <2>1, <2>4
<1>2. CASE x # r
  <2>1. x \in (1..n) \ (run \ {r}) <=> x \in (1..n) \ run
    BY <1>2
  <2>2. new[x] = counts[x]
    BY <1>2
  <2> QED
    BY <2>1, <2>2 DEF ToldOnce
<1> QED
  BY <1>1, <1>2

\* The requests are within the bound; the list has each reply once, and is what
\* runs and was not left running by a cancellation.
WebTypes == /\ requestsPosted \in Nat /\ replies \in Nat /\ replies + requestsPosted <= MaxReplies
            /\ repliesRunning \in SUBSET (1..replies) /\ skipped \in SUBSET (1..replies)
            /\ answers \in [1..MaxReplies -> Nat]
            /\ m_currentReplies \in Seq(Nat)

WebInv == /\ WebTypes /\ Distinct(m_currentReplies)
          /\ ToldOnce(answers, repliesRunning, replies)
          /\ {m_currentReplies[i] : i \in 1..Len(m_currentReplies)} = repliesRunning \ skipped

LEMMA WebSound == WebInv => H!EachToldOnce
<1> SUFFICES ASSUME WebInv PROVE H!EachToldOnce
  OBVIOUS
<1>1. DOMAIN m_currentReplies = 1..Len(m_currentReplies)
  BY DEF WebInv, WebTypes
<1> QED
  BY <1>1 DEF WebInv, ToldOnce, H!EachToldOnce, H!ToSet

\* After a walk what runs is what ran and was passed by, and nothing that was
\* passed by is the first of the list, the last, or next to another.
LEMMA CancelIs ==
  ASSUME H!HttpAssumption, WebInv, H!CancelAll
  PROVE  /\ repliesRunning' \in SUBSET repliesRunning
         /\ answers' \in [1..MaxReplies -> Nat]
         /\ ToldOnce(answers', repliesRunning', replies)
         /\ \A j \in 1..Len(m_currentReplies) :
              m_currentReplies[At(2 * j - 1, Len(m_currentReplies))] \notin repliesRunning'
         /\ skipped' = skipped \cup (repliesRunning' \cap H!ToSet(m_currentReplies))
         /\ m_currentReplies' = <<>>
<1> DEFINE a == m_currentReplies
           n == Len(a)
<1>1. MaxReplies \in Nat /\ replies \in Nat /\ replies <= MaxReplies /\ a \in Seq(Nat) /\ n \in Nat
  BY DEF H!HttpAssumption, WebInv, WebTypes
<1>2. Begun \in WalkState
  BY DEF WebInv, WebTypes, Begun, WalkState
<1>3. PICK z \in [0..n -> WalkState] :
        LET s == z[n]
        IN /\ z[0] = Begun
           /\ \A i \in 1..n : z[i] = H!Visit(z[i - 1], i)
           /\ repliesRunning' = s.running /\ answers' = s.answers
           /\ skipped' = skipped \cup (s.running \cap H!ToSet(a))
           /\ a' = <<>>
  BY <1>2, WalkIs
<1>4. Distinct(a) /\ {a[i] : i \in 1..n} = repliesRunning \ skipped
  BY DEF WebInv
<1>5. Walked(Begun, 0, a)
  <2>1. Begun.list = a /\ Begun.memory = a /\ Begun.running = repliesRunning
    BY DEF Begun
  <2>2. \A j \in 1..n : a[j] \in repliesRunning /\ \E p \in 1..n : a[p] = a[j]
    BY <1>4
  <2>3. \A j \in (0 + 1)..n : a[j] = a[At(j + 0, n)]
    <3> HIDE DEF n
    <3>1. \A j \in (0 + 1)..n : At(j + 0, n) = j
      BY <1>1 DEF At
    <3> QED
      BY <3>1
  <2>4. n - 0 <= n /\ n <= n /\ 1..0 = {}
    BY <1>1
  <2> HIDE DEF a
  <2> QED
    BY <1>4, <2>1, <2>2, <2>3, <2>4 DEF Walked
<1> HIDE DEF a, n
<1> DEFINE Sound(s, i) == /\ Walked(s, i, a)
                          /\ s.running \in SUBSET repliesRunning
                          /\ ToldOnce(s.answers, s.running, replies)
           Good == {i \in 0..n : Sound(z[i], i)}
<1>6. 0 \in Good
  <2>1. Begun.running \in SUBSET repliesRunning /\ ToldOnce(Begun.answers, Begun.running, replies)
    BY DEF Begun, WebInv
  <2>2. Sound(z[0], 0)
    BY <1>3, <1>5, <2>1
  <2> HIDE DEF Sound
  <2> QED
    BY <1>1, <2>2
<1>7. ASSUME NEW i \in 1..n, i - 1 \in Good PROVE i \in Good
  <2> DEFINE s == z[i - 1]
             r == s.memory[i]
             t == H!Visit(s, i)
  <2>1. s \in WalkState /\ Sound(s, i - 1) /\ z[i] = t /\ i \in Nat /\ i \in 0..n
    <3>1. i - 1 \in 0..n /\ i \in Nat /\ i \in 0..n
      BY <1>1
    <3> QED
      BY <1>3, <1>7, <3>1
  <2> HIDE DEF s
  <2>2. Walked(t, i, a)
    <3>1. i \in 1..Len(a)
      BY DEF n
    <3> QED
      BY <1>1, <1>4, <2>1, <3>1, WalkStep
  <2>3. CASE r \notin s.running
    <3>1. t = s
      BY <2>1, <2>3, VisitType
    <3>2. Sound(t, i)
      BY <2>1, <2>2, <3>1
    <3> QED
      BY <2>1, <3>2
  <2>4. CASE r \in s.running
    <3> DEFINE h == H!HandleResponse(s, r)
               m == h.list \o SubSeq(s.memory, Len(h.list) + 1, Len(s.memory))
    <3>1. /\ h \in WalkState /\ h.running = s.running \ {r}
          /\ \A x \in 1..MaxReplies : h.answers[x] = IF x = r THEN s.answers[x] + 1 ELSE s.answers[x]
      BY <2>1, <2>4, HandledIs
    <3>2. t = [h EXCEPT !.memory = m]
      BY <2>1, <2>4, VisitType
    <3> HIDE DEF h, m, t, r
    <3>3. t.running = s.running \ {r} /\ t.answers = h.answers
      BY <3>1, <3>2 DEF WalkState
    <3> DEFINE run == s.running
               counts == s.answers
               new == h.answers
    <3>4. run \in SUBSET (1..replies) /\ r \in run /\ ToldOnce(counts, run, replies) /\ run \in SUBSET repliesRunning
      BY <2>1, <2>4 DEF WebInv, WebTypes
    <3>5. \A x \in 1..MaxReplies : new[x] = IF x = r THEN counts[x] + 1 ELSE counts[x]
      BY <3>1
    <3> HIDE DEF run, counts, new
    <3>6. ToldOnce(new, run \ {r}, replies)
      BY <1>1, <3>4, <3>5, HandledTold
    <3>7. Sound(t, i)
      BY <2>2, <3>3, <3>4, <3>6 DEF run, new
    <3> HIDE DEF Sound
    <3> QED
      BY <2>1, <3>7
  <2> QED
    BY <2>3, <2>4
<1>8. Sound(z[n], n)
  <2> HIDE DEF Good, Sound
  <2>1. \A i \in 0..n : i \in Good
    BY <1>1, <1>6, <1>7, UpTo
  <2>2. n \in Good
    BY <1>1, <2>1
  <2> QED
    BY <2>2 DEF Good
<1>9. z[n] \in WalkState
  BY <1>1, <1>3
<1>10. \A j \in 1..n : a[At(2 * j - 1, n)] \notin repliesRunning'
  BY <1>3, <1>8 DEF Walked, n
<1> QED
  BY <1>3, <1>8, <1>9, <1>10 DEF WalkState, a, n

LEMMA WebInit == H!HttpAssumption /\ H!Init => WebInv
<1> SUFFICES ASSUME H!HttpAssumption, H!Init PROVE WebInv
  OBVIOUS
<1> USE DEF H!Init, H!HttpAssumption
<1>1. WebTypes
  BY DEF WebTypes
<1>2. Distinct(m_currentReplies) /\ {m_currentReplies[i] : i \in 1..Len(m_currentReplies)} = repliesRunning \ skipped
  <2>1. Len(m_currentReplies) = 0 /\ 1..0 = {}
    OBVIOUS
  <2> QED
    BY <2>1 DEF Distinct
<1>3. ToldOnce(answers, repliesRunning, replies)
  BY DEF ToldOnce
<1> QED
  BY <1>1, <1>2, <1>3 DEF WebInv

LEMMA SendStep ==
  ASSUME H!HttpAssumption, WebInv, NEW k \in {0, 1}, k <= requestsPosted, H!SendRawData(k)
  PROVE  WebInv'
<1> DEFINE a == m_currentReplies
           l == Len(a)
           r == replies + 1
<1>1. /\ requestsPosted \in Nat /\ replies \in Nat /\ replies + requestsPosted <= MaxReplies /\ MaxReplies \in Nat
      /\ repliesRunning \in SUBSET (1..replies) /\ skipped \in SUBSET (1..replies)
      /\ a \in Seq(Nat) /\ l \in Nat /\ answers \in [1..MaxReplies -> Nat]
      /\ Distinct(a) /\ {a[i] : i \in 1..l} = repliesRunning \ skipped
  BY DEF WebInv, WebTypes, H!HttpAssumption
<1>2. /\ requestsPosted' = requestsPosted - k /\ replies' = r /\ replies + requestsPosted' < MaxReplies
      /\ repliesRunning' = repliesRunning \cup {r} /\ a' = Append(a, r)
      /\ answers' = answers /\ skipped' = skipped
  BY DEF H!SendRawData
<1>3. requestsPosted' \in Nat /\ r \in Nat /\ r + requestsPosted' <= MaxReplies /\ r \in 1..r /\ r \notin 1..replies
      /\ 1..replies \subseteq 1..r /\ r \in 1..MaxReplies
  BY <1>1, <1>2
<1> DEFINE b == Append(a, r)
<1>4. b \in Seq(Nat) /\ Len(b) = l + 1 /\ b[l + 1] = r /\ \A i \in 1..l : b[i] = a[i]
  BY <1>1, <1>3
<1> HIDE DEF b, r
<1>5. WebTypes'
  <2>1. repliesRunning \cup {r} \in SUBSET (1..r) /\ skipped \in SUBSET (1..r)
    BY <1>1, <1>3
  <2> QED
    BY <1>1, <1>2, <1>3, <1>4, <2>1 DEF WebTypes, b
<1>6. \A i \in 1..(l + 1) : i = l + 1 \/ i \in 1..l
  BY <1>1
<1>7. \A i \in 1..l : a[i] # r /\ a[i] \in repliesRunning \ skipped
  BY <1>1, <1>3
<1>8. Distinct(b)
  BY <1>1, <1>4, <1>6, <1>7 DEF Distinct
<1>9. {b[i] : i \in 1..Len(b)} = (repliesRunning \cup {r}) \ skipped
  <2>1. \A i \in 1..Len(b) : b[i] \in (repliesRunning \cup {r}) \ skipped
    BY <1>1, <1>3, <1>4, <1>6, <1>7
  <2>2. ASSUME NEW x \in (repliesRunning \cup {r}) \ skipped PROVE \E i \in 1..Len(b) : x = b[i]
    <3>1. CASE x = r
      <4>1. l + 1 \in 1..Len(b)
        BY <1>1, <1>4
      <4> QED
        BY <1>4, <3>1, <4>1
    <3>2. CASE x # r
      <4>1. PICK i \in 1..l : a[i] = x
        BY <1>1, <3>2
      <4>2. i \in 1..Len(b) /\ b[i] = x
        BY <1>1, <1>4, <4>1
      <4> QED
        BY <4>2
    <3> QED
      BY <3>1, <3>2
  <2> QED
    BY <2>1, <2>2
<1>10. ToldOnce(answers, repliesRunning \cup {r}, r)
  <2> SUFFICES ASSUME NEW x \in 1..MaxReplies
               PROVE  x \in (1..replies) \ repliesRunning <=> x \in (1..r) \ (repliesRunning \cup {r})
    BY DEF ToldOnce, WebInv
  <2>1. x \in 1..r <=> x = r \/ x \in 1..replies
    BY <1>1, <1>3 DEF r
  <2> QED
    BY <1>3, <2>1
<1> QED
  BY <1>2, <1>5, <1>8, <1>9, <1>10 DEF WebInv, b

LEMMA FinishedStep ==
  ASSUME H!HttpAssumption, WebInv, H!OnFinished
  PROVE  WebInv'
<1> DEFINE a == m_currentReplies
           l == Len(a)
<1>1. /\ replies \in Nat /\ replies <= MaxReplies /\ MaxReplies \in Nat
      /\ repliesRunning \in SUBSET (1..replies) /\ skipped \in SUBSET (1..replies)
      /\ a \in Seq(Nat) /\ l \in Nat /\ answers \in [1..MaxReplies -> Nat]
      /\ Distinct(a) /\ {a[i] : i \in 1..l} = repliesRunning \ skipped
      /\ ToldOnce(answers, repliesRunning, replies)
  BY DEF WebInv, WebTypes, H!HttpAssumption
<1>2. PICK r \in repliesRunning :
         LET s == H!HandleResponse([running |-> repliesRunning, answers |-> answers,
                                  list |-> m_currentReplies], r)
         IN repliesRunning' = s.running /\ answers' = s.answers /\ m_currentReplies' = s.list
  BY DEF H!OnFinished
<1> DEFINE w == H!Removed(a, r)
           new == [answers EXCEPT ![r] = answers[r] + 1]
<1>3. /\ repliesRunning' = repliesRunning \ {r} /\ m_currentReplies' = w /\ answers' = new
      /\ UNCHANGED <<requestsPosted, replies, skipped>>
  BY <1>2 DEF H!HandleResponse, H!OnFinished
<1>4. new \in [1..MaxReplies -> Nat] /\ \A x \in 1..MaxReplies : new[x] = IF x = r THEN answers[x] + 1 ELSE answers[x]
  <2>1. r \in 1..MaxReplies /\ answers[r] + 1 \in Nat
    BY <1>1
  <2> QED
    BY <1>1, <2>1
<1> HIDE DEF new
<1>5. ToldOnce(new, repliesRunning \ {r}, replies)
  BY <1>1, <1>4, HandledTold
<1>6. /\ w \in Seq(Nat) /\ Distinct(w)
      /\ {w[i] : i \in 1..Len(w)} = (repliesRunning \ {r}) \ skipped
  <2>1. CASE \A i \in 1..l : a[i] # r
    <3>1. w = a
      BY <1>1, <2>1, RemovedNone
    <3>2. r \notin repliesRunning \ skipped
      BY <1>1, <2>1
    <3> QED
      BY <1>1, <3>1, <3>2
  <2>2. CASE \E i \in 1..l : a[i] = r
    <3>1. PICK p \in 1..l : a[p] = r
      BY <2>2
    <3>2. /\ w \in Seq(Nat) /\ Len(w) = l - 1
          /\ \A j \in 1..(l - 1) : w[j] = IF j < p THEN a[j] ELSE a[j + 1]
      <4>1. /\ H!Removed(a, a[p]) \in Seq(Nat) /\ Len(H!Removed(a, a[p])) = Len(a) - 1
            /\ \A j \in 1..(Len(a) - 1) : H!Removed(a, a[p])[j] = IF j < p THEN a[j] ELSE a[j + 1]
        BY <1>1, <3>1, RemovedIs
      <4> QED
        BY <3>1, <4>1
    <3> HIDE DEF w, a, l
    <3> DEFINE From(i, j) == (i = j /\ j < p) \/ (i = j + 1 /\ j >= p)
    <3>3. ASSUME NEW j \in 1..(l - 1) PROVE \E i \in 1..l : w[j] = a[i] /\ i # p /\ From(i, j)
      <4>1. j \in 1..l /\ j + 1 \in 1..l /\ j \in Nat /\ p \in Nat
        BY <1>1, <3>1
      <4>2. CASE j < p
        <5>1. w[j] = a[j] /\ j # p /\ From(j, j)
          BY <3>2, <4>1, <4>2
        <5> HIDE DEF From
        <5> QED
          BY <4>1, <5>1
      <4>3. CASE ~(j < p)
        <5>1. w[j] = a[j + 1] /\ j + 1 # p /\ From(j + 1, j)
          BY <3>2, <4>1, <4>3
        <5> HIDE DEF From
        <5> QED
          BY <4>1, <5>1
      <4> QED
        BY <4>2, <4>3
    <3>4. Distinct(w)
      <4> SUFFICES ASSUME NEW i \in 1..(l - 1), NEW j \in 1..(l - 1), w[i] = w[j] PROVE i = j
        BY <3>2 DEF Distinct
      <4>1. PICK x \in 1..l : w[i] = a[x] /\ From(x, i)
        BY <3>3
      <4>2. PICK y \in 1..l : w[j] = a[y] /\ From(y, j)
        BY <3>3
      <4>3. x = y
        <5>1. a[x] = a[y]
          BY <4>1, <4>2
        <5> QED
          BY <1>1, <5>1 DEF Distinct, l
      <4>4. i \in Nat /\ j \in Nat /\ p \in Nat /\ From(x, i) /\ From(x, j)
        BY <1>1, <3>1, <4>1, <4>2, <4>3
      <4> QED
        BY <4>4
    <3>5. \A j \in 1..(l - 1) : w[j] \in (repliesRunning \ {r}) \ skipped
      <4> SUFFICES ASSUME NEW j \in 1..(l - 1) PROVE w[j] \in repliesRunning \ skipped /\ w[j] # r
        OBVIOUS
      <4>1. PICK i \in 1..l : w[j] = a[i] /\ i # p
        BY <3>3
      <4> QED
        BY <1>1, <3>1, <4>1 DEF Distinct, l
    <3>6. ASSUME NEW x \in (repliesRunning \ {r}) \ skipped PROVE \E j \in 1..(l - 1) : x = w[j]
      <4>1. PICK i \in 1..l : a[i] = x
        BY <1>1
      <4>2. i # p
        BY <3>1, <3>6, <4>1
      <4> DEFINE o == IF i < p THEN i ELSE i - 1
      <4>3. o \in 1..(l - 1) /\ (i < p => o < p /\ o = i) /\ (i > p => ~(o < p) /\ o + 1 = i)
        BY <1>1, <3>1, <4>1, <4>2
      <4>4. i < p \/ i > p
        BY <1>1, <3>1, <4>1, <4>2
      <4> HIDE DEF o
      <4>5. w[o] = a[i]
        BY <3>2, <4>3, <4>4
      <4> QED
        BY <4>1, <4>3, <4>5
    <3> QED
      BY <3>2, <3>4, <3>5, <3>6
  <2> QED
    BY <2>1, <2>2
<1> HIDE DEF w
<1>7. WebTypes'
  BY <1>3, <1>4, <1>6 DEF WebInv, WebTypes
<1> QED
  BY <1>3, <1>5, <1>6, <1>7 DEF WebInv

LEMMA CancelStep ==
  ASSUME H!HttpAssumption, WebInv, H!CancelAll, UNCHANGED <<requestsPosted, replies>>
  PROVE  WebInv' /\ H!CancelSkipsSingly
<1> DEFINE a == m_currentReplies
           n == Len(a)
<1>1. /\ replies \in Nat /\ repliesRunning \in SUBSET (1..replies) /\ skipped \in SUBSET (1..replies)
      /\ a \in Seq(Nat) /\ n \in Nat /\ DOMAIN a = 1..n
      /\ Distinct(a) /\ {a[i] : i \in 1..n} = repliesRunning \ skipped
  BY DEF WebInv, WebTypes
<1>2. /\ repliesRunning' \in SUBSET repliesRunning /\ answers' \in [1..MaxReplies -> Nat]
      /\ ToldOnce(answers', repliesRunning', replies)
      /\ \A j \in 1..n : a[At(2 * j - 1, n)] \notin repliesRunning'
      /\ skipped' = skipped \cup (repliesRunning' \cap H!ToSet(a))
      /\ a' = <<>>
  BY CancelIs
<1>3. H!ToSet(a) = repliesRunning \ skipped
  BY <1>1 DEF H!ToSet
<1>4. WebInv'
  <2>1. WebTypes'
    BY <1>1, <1>2, <1>3 DEF WebInv, WebTypes
  <2>2. Len(<<>>) = 0 /\ 1..0 = {}
    OBVIOUS
  <2>3. Distinct(a') /\ {a'[i] : i \in 1..Len(a')} = repliesRunning' \ skipped'
    BY <1>2, <1>3, <2>2 DEF Distinct
  <2> QED
    BY <1>2, <2>1, <2>3 DEF WebInv
<1>5. H!CancelSkipsSingly
  <2> SUFFICES ASSUME NEW i \in 1..n, a[i] \in skipped' \ skipped
               PROVE  1 < i /\ i < n /\ a[i + 1] \notin skipped'
    BY <1>1 DEF H!CancelSkipsSingly
  <2>1. a[i] \in repliesRunning'
    BY <1>2
  <2> HIDE DEF a, n
  <2>2. \A j \in 1..n : a[At(2 * j - 1, n)] \notin repliesRunning'
    BY <1>2 DEF a, n
  <2>3. \A j \in Nat : i # 2 * j - 1
    <3> SUFFICES ASSUME NEW j \in Nat, i = 2 * j - 1 PROVE FALSE
      OBVIOUS
    <3>1. j \in 1..n /\ At(2 * j - 1, n) = i
      BY <1>1 DEF At
    <3> QED
      BY <2>1, <2>2, <3>1
  <2>4. i # 1
    <3>1. 1 = 2 * 1 - 1
      OBVIOUS
    <3> QED
      BY <2>3, <3>1
  <2>5. i # n
    <3>1. At(2 * n - 1, n) = n /\ (i = n => n \in 1..n)
      BY <1>1 DEF At
    <3> QED
      BY <2>1, <2>2, <3>1
  <2>6. 1 < i /\ i < n
    BY <1>1, <2>4, <2>5
  <2>7. a[i + 1] \notin repliesRunning'
    <3>1. PICK j \in Nat : i = 2 * j
      <4>1. \E j \in Nat : i = 2 * j \/ i = 2 * j - 1
        <5> DEFINE h == i \div 2
        <5>1. h \in Nat /\ (i = 2 * h \/ i = 2 * (h + 1) - 1)
          BY <1>1
        <5> HIDE DEF h
        <5>2. h + 1 \in Nat
          BY <5>1
        <5> QED
          BY <5>1, <5>2
      <4> QED
        BY <2>3, <4>1
    <3>2. j + 1 \in 1..n /\ At(2 * (j + 1) - 1, n) = i + 1
      BY <1>1, <2>6, <3>1 DEF At
    <3> QED
      BY <2>2, <3>2
  <2>8. a[i + 1] \in repliesRunning \ skipped
    <3>1. i + 1 \in 1..n
      BY <1>1, <2>6
    <3> QED
      BY <1>1, <3>1 DEF a, n
  <2> QED
    BY <1>2, <2>6, <2>7, <2>8
<1> QED
  BY <1>4, <1>5

LEMMA WebStep ==
  ASSUME H!HttpAssumption, WebInv, [H!Next]_(H!httpVars)
  PROVE  WebInv' /\ (H!CancelSkipsSingly \/ UNCHANGED H!httpVars)
<1>1. CASE UNCHANGED H!httpVars
  BY <1>1 DEF H!httpVars, WebInv, WebTypes, ToldOnce, Distinct
<1>2. ASSUME skipped' = skipped PROVE H!CancelSkipsSingly
  BY <1>2 DEF H!CancelSkipsSingly
<1>3. CASE H!Post
  <2>1. WebTypes'
    BY <1>3 DEF H!Post, WebInv, WebTypes, H!HttpAssumption
  <2> QED
    BY <1>2, <1>3, <2>1 DEF H!Post, WebInv, ToldOnce, Distinct
<1>4. CASE H!SendRequest \/ H!SendPosted
  <2>1. PICK k \in {0, 1} : k <= requestsPosted /\ H!SendRawData(k)
    BY <1>4 DEF H!SendRequest, H!SendPosted, WebInv, WebTypes
  <2>2. skipped' = skipped
    BY <2>1 DEF H!SendRawData
  <2> QED
    BY <1>2, <2>1, <2>2, SendStep
<1>5. CASE H!OnFinished
  <2>1. skipped' = skipped
    BY <1>5 DEF H!OnFinished
  <2> QED
    BY <1>2, <1>5, <2>1, FinishedStep
<1>6. CASE H!CancelAllRequests
  BY <1>6, CancelStep DEF H!CancelAllRequests
<1>7. CASE H!Destroy
  BY <1>7, CancelStep DEF H!Destroy
<1> QED
  BY <1>1, <1>3, <1>4, <1>5, <1>6, <1>7 DEF H!Next

-----------------------------------------------------------------------------
(* The overruns of the radar.                                               *)

\* The numbers of elements that RadarOverrun speaks of.
LEMMA SameCardinality == \A S : O!Cardinality(S) = Cardinality(S)
  BY DEF O!Cardinality, Cardinality

\* An object has more points than a region needs, and some angle.
Objects == [pts : {q \in Seq(Nat) : Len(q) > MinPoints}, angle : Nat]

\* What a walk through a scan has in hand: inside a region there is a point that
\* the object was not made with.
Walks == {s \in [inside : BOOLEAN, miss : Nat, listed : Nat, pts : Seq(Nat), angle : Nat] :
            Len(s.pts) > MinPoints /\ (s.inside => Len(s.pts) > 1)}
WalkBegin(obj) == [inside |-> FALSE, miss |-> 0, listed |-> 0, pts |-> obj.pts, angle |-> obj.angle]
Point(scan, s, p) == IF scan[p] THEN O!Inside(s, p) ELSE O!Outside(s)

\* The fields of what is in hand.
LEMMA WalkFields ==
  ASSUME NEW s \in Walks
  PROVE  /\ s \in [inside : BOOLEAN, miss : Nat, listed : Nat, pts : Seq(Nat), angle : Nat]
         /\ s.inside \in BOOLEAN /\ s.miss \in Nat /\ s.listed \in Nat /\ s.pts \in Seq(Nat)
         /\ Len(s.pts) \in Nat /\ Len(s.pts) > MinPoints /\ (s.inside => Len(s.pts) > 1)
<1>1. s.pts \in Seq(Nat)
  BY DEF Walks
<1>2. Len(s.pts) \in Nat
  <2> DEFINE q == s.pts
  <2> HIDE DEF q
  <2>1. q \in Seq(Nat)
    BY <1>1 DEF q
  <2>2. Len(q) \in Nat
    BY <2>1
  <2> QED
    BY <2>2 DEF q
<1> QED
  BY <1>1, <1>2 DEF Walks

LEMMA InsideIs ==
  ASSUME O!OverrunAssumption, NEW s \in Walks, NEW p \in Nat
  PROVE  /\ O!Inside(s, p) \in Walks
         /\ O!Inside(s, p).inside = TRUE /\ O!Inside(s, p).miss = 0 /\ O!Inside(s, p).listed = s.listed
<1> DEFINE q == s.pts
           v == Append(q, p)
<1>1. /\ q \in Seq(Nat) /\ Len(q) \in Nat /\ Len(q) > MinPoints /\ MinPoints \in Nat
      /\ s \in [inside : BOOLEAN, miss : Nat, listed : Nat, pts : Seq(Nat), angle : Nat]
  BY WalkFields DEF O!OverrunAssumption
<1> HIDE DEF q
<1>2. v \in Seq(Nat) /\ Len(v) = Len(q) + 1
  BY <1>1
<1> HIDE DEF v
<1>3. O!Inside(s, p) = [s EXCEPT !.inside = TRUE, !.miss = 0, !.pts = v]
  BY <1>1 DEF O!Inside, q, v
<1>4. Len(v) > MinPoints /\ Len(v) > 1
  BY <1>1, <1>2
<1> DEFINE t == O!Inside(s, p)
<1>5. t.inside = TRUE /\ t.miss = 0 /\ t.listed = s.listed /\ t.pts = v
  BY <1>1, <1>3
<1>6. t \in [inside : BOOLEAN, miss : Nat, listed : Nat, pts : Seq(Nat), angle : Nat]
  <2>1. TRUE \in BOOLEAN /\ 0 \in Nat
    OBVIOUS
  <2> QED
    BY <1>1, <1>2, <1>3, <2>1
<1> HIDE DEF t
<1>7. t \in Walks
  BY <1>4, <1>5, <1>6 DEF Walks
<1> QED
  BY <1>5, <1>7 DEF t

LEMMA OutsideIs ==
  ASSUME O!OverrunAssumption, NEW s \in Walks
  PROVE  /\ O!Outside(s) \in Walks
         /\ s.miss + 1 < Gap => /\ O!Outside(s).inside = s.inside /\ O!Outside(s).listed = s.listed
                                /\ O!Outside(s).miss = s.miss + 1
         /\ ~(s.miss + 1 < Gap) => /\ O!Outside(s).inside = FALSE /\ O!Outside(s).miss = 0
                                   /\ O!Outside(s).listed = IF s.inside THEN s.listed + 1 ELSE s.listed
<1> DEFINE q == s.pts
           a == q[Len(q) \div 2]
           m == s.miss + 1
           l == s.listed + 1
           All == [inside : BOOLEAN, miss : Nat, listed : Nat, pts : Seq(Nat), angle : Nat]
           t == O!Outside(s)
<1>1. /\ q \in Seq(Nat) /\ Len(q) \in Nat /\ Len(q) > MinPoints /\ (s.inside => Len(q) > 1)
      /\ m \in Nat /\ l \in Nat /\ s \in All /\ s.inside \in BOOLEAN
  BY WalkFields
<1>2. s.inside => a \in Nat
  <2> SUFFICES ASSUME s.inside PROVE a \in Nat
    OBVIOUS
  <2> HIDE DEF q
  <2> DEFINE n == Len(q)
  <2>1. n \in Nat /\ n > 1
    BY <1>1
  <2>2. n \div 2 \in 1..n
    <3> HIDE DEF n
    <3> QED
      BY <2>1
  <2> QED
    BY <1>1, <2>2
<1>3. t = IF m < Gap THEN [s EXCEPT !.miss = m]
          ELSE IF s.inside
               THEN [s EXCEPT !.inside = FALSE, !.miss = 0, !.angle = a, !.listed = l]
               ELSE [s EXCEPT !.inside = FALSE, !.miss = 0]
  BY <1>1 DEF O!Outside
<1> HIDE DEF q, a, m, l, t
<1>4. CASE m < Gap
  <2>1. t = [s EXCEPT !.miss = m]
    BY <1>3, <1>4
  <2>2. t \in All /\ t.inside = s.inside /\ t.listed = s.listed /\ t.miss = m /\ t.pts = s.pts
    BY <1>1, <2>1
  <2> HIDE DEF All
  <2>3. t \in Walks
    BY <1>1, <2>2 DEF Walks, q, All
  <2> QED
    BY <1>4, <2>2, <2>3 DEF m, t
<1>5. CASE ~(m < Gap) /\ s.inside = TRUE
  <2>1. t = [s EXCEPT !.inside = FALSE, !.miss = 0, !.angle = a, !.listed = l]
    BY <1>3, <1>5
  <2>2. t \in All /\ t.inside = FALSE /\ t.listed = l /\ t.miss = 0 /\ t.pts = s.pts
    <3>1. FALSE \in BOOLEAN /\ 0 \in Nat /\ a \in Nat
      BY <1>2, <1>5
    <3> QED
      BY <1>1, <2>1, <3>1
  <2> HIDE DEF All
  <2>3. t \in Walks
    BY <1>1, <2>2 DEF Walks, q, All
  <2> QED
    BY <1>5, <2>2, <2>3 DEF m, l, t
<1>6. CASE ~(m < Gap) /\ s.inside = FALSE
  <2>1. t = [s EXCEPT !.inside = FALSE, !.miss = 0]
    BY <1>3, <1>6
  <2>2. t \in All /\ t.inside = FALSE /\ t.listed = s.listed /\ t.miss = 0 /\ t.pts = s.pts
    <3>1. FALSE \in BOOLEAN /\ 0 \in Nat
      OBVIOUS
    <3> QED
      BY <1>1, <2>1, <3>1
  <2> HIDE DEF All
  <2>3. t \in Walks
    BY <1>1, <2>2 DEF Walks, q, All
  <2> QED
    BY <1>6, <2>2, <2>3 DEF m, t
<1> QED
  BY <1>1, <1>4, <1>5, <1>6

LEMMA PointIs ==
  ASSUME O!OverrunAssumption, NEW scan \in Seq(BOOLEAN), NEW p \in 1..Len(scan), NEW s \in Walks
  PROVE  Point(scan, s, p) \in Walks
<1>1. p \in Nat
  OBVIOUS
<1> QED
  BY <1>1, InsideIs, OutsideIs DEF Point

\* The walk, place by place.
ScanWalked(scan, obj, z) ==
  /\ z \in [0..Len(scan) -> Walks]
  /\ z[0] = WalkBegin(obj)
  /\ \A p \in 1..Len(scan) : z[p] = Point(scan, z[p - 1], p)

LEMMA ScanWalkIs ==
  ASSUME O!OverrunAssumption, NEW obj \in Objects, NEW scan \in Seq(BOOLEAN)
  PROVE  \E z : /\ ScanWalked(scan, obj, z)
                /\ O!Detect(scan, obj) =
                     [object |-> [pts |-> z[Len(scan)].pts, angle |-> z[Len(scan)].angle],
                      listed |-> z[Len(scan)].listed + IF z[Len(scan)].inside THEN 1 ELSE 0]
<1> DEFINE n == Len(scan)
           E(f) == [p \in 0..n |->
                      IF p = 0
                      THEN [inside |-> FALSE, miss |-> 0, listed |-> 0, pts |-> obj.pts, angle |-> obj.angle]
                      ELSE IF scan[p] THEN O!Inside(f[p - 1], p) ELSE O!Outside(f[p - 1])]
           onward == [q \in (1..n) \X Walks |-> Point(scan, q[2], q[1])]
           z == CHOOSE f : f = E(f)
<1>0. n \in Nat
  OBVIOUS
<1>1. /\ onward \in [(1..n) \X Walks -> Walks]
      /\ \A p \in 1..n, s \in Walks : onward[<<p, s>>] = Point(scan, s, p)
  <2>1. ASSUME NEW p \in 1..n, NEW s \in Walks PROVE Point(scan, s, p) \in Walks
    BY PointIs
  <2> QED
    BY <2>1
<1>2. WalkBegin(obj) \in Walks
  <2>1. 0 \in Nat /\ FALSE \in BOOLEAN /\ obj.pts \in Seq(Nat) /\ Len(obj.pts) > MinPoints /\ obj.angle \in Nat
    BY DEF Objects
  <2> QED
    BY <2>1 DEF WalkBegin, Walks
<1>3. O!Detect(scan, obj) =
         [object |-> [pts |-> z[n].pts, angle |-> z[n].angle],
          listed |-> z[n].listed + IF z[n].inside THEN 1 ELSE 0]
  BY DEF O!Detect
<1>e. \A f : E(f) = [p \in 0..n |-> IF p = 0 THEN WalkBegin(obj) ELSE Point(scan, f[p - 1], p)]
  BY DEF WalkBegin, Point
<1> HIDE DEF n, E
<1>4. \E f : f = E(f)
  <2> HIDE DEF onward
  <2>1. PICK f : Solves(f, n, Walks, WalkBegin(obj), onward)
    BY <1>0, <1>1, <1>2, Recursion, Zenon
  <2>2. ASSUME NEW p \in 0..n
        PROVE  f[p] = IF p = 0 THEN WalkBegin(obj) ELSE Point(scan, f[p - 1], p)
    <3>1. p # 0 => p \in 1..n /\ f[p - 1] \in Walks
      <4>1. p # 0 => p \in 1..n /\ p - 1 \in 0..n
        BY <1>0
      <4> QED
        BY <2>1, <4>1 DEF Solves
    <3> QED
      BY <1>1, <2>1, <3>1 DEF Solves
  <2>3. f = [p \in 0..n |-> IF p = 0 THEN WalkBegin(obj) ELSE Point(scan, f[p - 1], p)]
    BY <2>1, <2>2 DEF Solves
  <2> QED
    BY <1>e, <2>3
<1>5. z = E(z)
  BY <1>4, Zenon
<1> HIDE DEF z, onward
<1>6. z = [p \in 0..n |-> IF p = 0 THEN WalkBegin(obj) ELSE Point(scan, z[p - 1], p)]
  BY <1>5, <1>e
<1>7. z[0] = WalkBegin(obj) /\ \A p \in 1..n : z[p] = Point(scan, z[p - 1], p)
  <2>1. ASSUME NEW p \in 0..n PROVE z[p] = IF p = 0 THEN WalkBegin(obj) ELSE Point(scan, z[p - 1], p)
    BY <1>6, Zenon
  <2>2. 0 \in 0..n /\ \A p \in 1..n : p \in 0..n /\ p # 0
    BY <1>0
  <2> QED
    BY <2>1, <2>2, Zenon
<1>8. \A p \in 0..n : z[p] \in Walks
  <2> DEFINE Good == {p \in 0..n : z[p] \in Walks}
  <2>1. 0 \in Good
    <3>1. 0 \in 0..n
      BY <1>0
    <3> QED
      BY <1>2, <1>7, <3>1
  <2>2. ASSUME NEW p \in 1..n, p - 1 \in Good PROVE p \in Good
    <3>1. z[p - 1] \in Walks /\ p \in 0..n
      BY <1>0, <2>2
    <3>2. Point(scan, z[p - 1], p) \in Walks
      BY <3>1, PointIs DEF n
    <3> QED
      BY <1>7, <3>1, <3>2
  <2> HIDE DEF Good
  <2>3. \A p \in 0..n : p \in Good
    BY <1>0, <2>1, <2>2, UpTo
  <2> QED
    BY <2>3 DEF Good
<1>9. z \in [0..n -> Walks]
  BY <1>6, <1>8
<1>10. ScanWalked(scan, obj, z)
  BY <1>7, <1>8, <1>9 DEF ScanWalked, n
<1> QED
  BY <1>3, <1>10 DEF n

\* The groups that a scan has up to a place, and what the walk knows of them there.
LeadsGroup(scan, q) == scan[q] /\ \A r \in 1..(q - 1) : scan[r] => q - r > Gap
GroupsTo(scan, p) == {q \in 1..p : LeadsGroup(scan, q)}
InGroup(scan, s, p) == \E q \in 1..p : /\ scan[q] /\ p - q = s.miss /\ s.miss < Gap
                                       /\ \A r \in 1..p : scan[r] => r <= q
Between(scan, p) == \A q \in 1..p : scan[q] => p - q >= Gap
Count(s) == s.listed + IF s.inside THEN 1 ELSE 0

Counted(scan, s, p) == /\ s.inside => InGroup(scan, s, p)
                       /\ ~s.inside => Between(scan, p)
                       /\ IsFiniteSet(GroupsTo(scan, p))
                       /\ Count(s) = Cardinality(GroupsTo(scan, p))

\* A point outside leads no group, a point inside leads one if it is not in one.
LEMMA GroupsGrow ==
  ASSUME NEW scan \in Seq(BOOLEAN), NEW p \in 1..Len(scan), IsFiniteSet(GroupsTo(scan, p - 1))
  PROVE  /\ IsFiniteSet(GroupsTo(scan, p))
         /\ LeadsGroup(scan, p) =>
              Cardinality(GroupsTo(scan, p)) = Cardinality(GroupsTo(scan, p - 1)) + 1
         /\ ~LeadsGroup(scan, p) => GroupsTo(scan, p) = GroupsTo(scan, p - 1)
<1> DEFINE g == GroupsTo(scan, p - 1)
<1>1. p \in Nat /\ 1..p = (1..(p - 1)) \cup {p} /\ p \notin 1..(p - 1)
  OBVIOUS
<1>2. p \notin g
  BY <1>1 DEF GroupsTo
<1>3. CASE LeadsGroup(scan, p)
  <2>1. GroupsTo(scan, p) = g \cup {p}
    BY <1>1, <1>3 DEF GroupsTo
  <2> HIDE DEF g
  <2>2. IsFiniteSet(g)
    BY DEF g
  <2> QED
    BY <1>2, <1>3, <2>1, <2>2, FS_AddElement DEF g
<1>4. CASE ~LeadsGroup(scan, p)
  <2>1. GroupsTo(scan, p) = g
    BY <1>1, <1>4 DEF GroupsTo
  <2> QED
    BY <1>4, <2>1
<1> QED
  BY <1>3, <1>4

LEMMA CountInside ==
  ASSUME O!OverrunAssumption, NEW s \in Walks, NEW scan \in Seq(BOOLEAN),
         NEW p \in 1..Len(scan), Counted(scan, s, p - 1), scan[p]
  PROVE  Counted(scan, O!Inside(s, p), p)
<1> DEFINE t == O!Inside(s, p)
<1>0. p \in Nat
  OBVIOUS
<1>1. t.inside = TRUE /\ t.miss = 0 /\ t.listed = s.listed /\ p \in Nat
  BY <1>0, InsideIs, Zenon
<1>2. s.listed \in Nat /\ s.inside \in BOOLEAN /\ Gap \in Nat /\ Gap > 0
  BY DEF Walks, O!OverrunAssumption
<1> HIDE DEF t
<1>3. InGroup(scan, t, p)
  <2>1. p \in 1..p /\ p - p = 0 /\ 0 < Gap /\ \A r \in 1..p : r <= p
    BY <1>1, <1>2
  <2> QED
    BY <1>1, <2>1 DEF InGroup
<1>4. Count(t) = s.listed + 1
  BY <1>1 DEF Count
<1>5. CASE s.inside = TRUE
  <2>1. PICK q \in 1..(p - 1) : scan[q] /\ (p - 1) - q = s.miss /\ s.miss < Gap
    BY <1>5 DEF Counted, InGroup
  <2>2. ~(p - q > Gap)
    <3> DEFINE m == s.miss
    <3>1. m \in Nat
      BY DEF Walks
    <3> HIDE DEF m
    <3> QED
      BY <1>1, <1>2, <2>1, <3>1 DEF m
  <2>3. ~LeadsGroup(scan, p)
    BY <2>1, <2>2 DEF LeadsGroup
  <2>4. Count(s) = s.listed + 1
    BY <1>5 DEF Count
  <2> QED
    BY <1>1, <1>3, <1>4, <2>3, <2>4, GroupsGrow DEF Counted, t
<1>6. CASE s.inside = FALSE
  <2>1. \A q \in 1..(p - 1) : scan[q] => (p - 1) - q >= Gap
    BY <1>6 DEF Counted, Between
  <2>2. \A q \in 1..(p - 1) : (p - 1) - q >= Gap => p - q > Gap
    BY <1>1, <1>2
  <2>3. LeadsGroup(scan, p)
    BY <2>1, <2>2 DEF LeadsGroup
  <2>4. Count(s) = s.listed
    BY <1>2, <1>6 DEF Count
  <2>5. Cardinality(GroupsTo(scan, p)) = s.listed + 1 /\ IsFiniteSet(GroupsTo(scan, p))
    BY <2>3, <2>4, GroupsGrow DEF Counted
  <2> QED
    BY <1>1, <1>3, <1>4, <2>5 DEF Counted, t
<1> QED
  BY <1>2, <1>5, <1>6

LEMMA CountOutside ==
  ASSUME O!OverrunAssumption, NEW s \in Walks, NEW scan \in Seq(BOOLEAN),
         NEW p \in 1..Len(scan), Counted(scan, s, p - 1), ~scan[p]
  PROVE  Counted(scan, O!Outside(s), p)
<1> DEFINE t == O!Outside(s)
           m == s.miss
<1>1. /\ m + 1 < Gap => t.inside = s.inside /\ t.listed = s.listed /\ t.miss = m + 1
      /\ ~(m + 1 < Gap) => /\ t.inside = FALSE /\ t.miss = 0
                           /\ t.listed = IF s.inside THEN s.listed + 1 ELSE s.listed
  BY OutsideIs
<1>2. s.listed \in Nat /\ s.inside \in BOOLEAN /\ Gap \in Nat /\ Gap > 0 /\ m \in Nat /\ p \in Nat
  BY DEF Walks, O!OverrunAssumption
<1>3. ~LeadsGroup(scan, p)
  BY DEF LeadsGroup
<1>4. /\ IsFiniteSet(GroupsTo(scan, p)) /\ GroupsTo(scan, p) = GroupsTo(scan, p - 1)
      /\ Count(s) = Cardinality(GroupsTo(scan, p))
  BY <1>3, GroupsGrow DEF Counted
<1> HIDE DEF t, m
<1>5. Count(t) = Count(s)
  <2>1. CASE m + 1 < Gap
    BY <1>1, <2>1 DEF Count
  <2>2. CASE ~(m + 1 < Gap) /\ s.inside = TRUE
    BY <1>1, <1>2, <2>2 DEF Count
  <2>3. CASE ~(m + 1 < Gap) /\ s.inside = FALSE
    BY <1>1, <1>2, <2>3 DEF Count
  <2> QED
    BY <1>2, <2>1, <2>2, <2>3
<1>6. ASSUME t.inside = TRUE PROVE InGroup(scan, t, p)
  <2>1. m + 1 < Gap /\ s.inside = TRUE /\ t.miss = m + 1
    BY <1>1, <1>6
  <2>2. PICK q \in 1..(p - 1) : /\ scan[q] /\ (p - 1) - q = s.miss
                                /\ \A r \in 1..(p - 1) : scan[r] => r <= q
    BY <2>1 DEF Counted, InGroup
  <2>3. q \in 1..p /\ p - q = m + 1
    BY <1>2, <2>2 DEF m
  <2>4. \A r \in 1..p : scan[r] => r <= q
    <3>1. \A r \in 1..p : r = p \/ r \in 1..(p - 1)
      BY <1>2
    <3> QED
      BY <2>2, <3>1
  <2> QED
    BY <2>1, <2>2, <2>3, <2>4 DEF InGroup
<1>7. ASSUME t.inside = FALSE PROVE Between(scan, p)
  <2> SUFFICES ASSUME NEW q \in 1..p, scan[q] PROVE p - q >= Gap
    BY DEF Between
  <2>1. q \in 1..(p - 1)
    BY <1>2
  <2>2. CASE s.inside = TRUE
    <3>1. ~(m + 1 < Gap)
      BY <1>1, <1>7, <2>2
    <3>2. PICK r \in 1..(p - 1) : /\ (p - 1) - r = s.miss
                                  /\ \A x \in 1..(p - 1) : scan[x] => x <= r
      BY <2>2 DEF Counted, InGroup
    <3>3. q <= r /\ (p - 1) - r = m
      BY <2>1, <3>2 DEF m
    <3> QED
      BY <1>2, <2>1, <3>1, <3>3
  <2>3. CASE s.inside = FALSE
    <3>1. (p - 1) - q >= Gap
      BY <2>1, <2>3 DEF Counted, Between
    <3> QED
      BY <1>2, <2>1, <3>1
  <2> QED
    BY <1>2, <2>2, <2>3
<1>8. t.inside \in BOOLEAN
  BY <1>1, <1>2
<1> QED
  BY <1>4, <1>5, <1>6, <1>7, <1>8 DEF Counted, t

\* What is listed of a scan is its number of groups, whatever the object holds.
LEMMA DetectCounts ==
  ASSUME O!OverrunAssumption, NEW obj \in Objects, NEW scan \in Seq(BOOLEAN)
  PROVE  /\ O!Detect(scan, obj).listed = Cardinality(O!Groups(scan))
         /\ O!Detect(scan, obj).listed \in Nat
         /\ O!Detect(scan, obj).object \in Objects
<1> DEFINE n == Len(scan)
<1>0. n \in Nat
  OBVIOUS
<1>1. PICK z : /\ ScanWalked(scan, obj, z)
               /\ O!Detect(scan, obj) =
                    [object |-> [pts |-> z[n].pts, angle |-> z[n].angle],
                     listed |-> z[n].listed + IF z[n].inside THEN 1 ELSE 0]
  BY ScanWalkIs
<1> HIDE DEF n
<1>2. /\ \A p \in 0..n : z[p] \in Walks
      /\ z[0] = WalkBegin(obj)
      /\ \A p \in 1..n : z[p] = IF scan[p] THEN O!Inside(z[p - 1], p) ELSE O!Outside(z[p - 1])
  BY <1>1 DEF ScanWalked, Point, n
<1> DEFINE Good == {p \in 0..n : Counted(scan, z[p], p)}
<1>3. 0 \in Good
  <2>1. GroupsTo(scan, 0) = {} /\ 0 \in 0..n /\ 1..0 = {}
    BY <1>0 DEF GroupsTo
  <2>2. z[0].inside = FALSE /\ z[0].listed = 0
    BY <1>2 DEF WalkBegin
  <2>3. Counted(scan, z[0], 0)
    <3>1. Count(z[0]) = 0
      BY <2>2 DEF Count
    <3>2. Between(scan, 0)
      BY <2>1 DEF Between
    <3> QED
      BY <2>1, <2>2, <3>1, <3>2, FS_EmptySet DEF Counted
  <2> QED
    BY <2>1, <2>3
<1>4. ASSUME NEW p \in 1..n, p - 1 \in Good PROVE p \in Good
  <2>1. p \in 0..n /\ p - 1 \in 0..n /\ p \in 1..Len(scan)
    BY <1>0 DEF n
  <2>2. Counted(scan, z[p - 1], p - 1) /\ z[p - 1] \in Walks
    BY <1>2, <1>4, <2>1
  <2>3. Counted(scan, z[p], p)
    <3>1. CASE scan[p]
      BY <1>2, <2>1, <2>2, <3>1, CountInside
    <3>2. CASE ~scan[p]
      BY <1>2, <2>1, <2>2, <3>2, CountOutside
    <3> QED
      BY <3>1, <3>2
  <2> QED
    BY <2>1, <2>3
<1>5. Counted(scan, z[n], n) /\ z[n] \in Walks
  <2>1. \A p \in 0..n : p \in Good
    <3> HIDE DEF Good
    <3> QED
      BY <1>0, <1>3, <1>4, UpTo
  <2>2. n \in 0..n
    BY <1>0
  <2> QED
    BY <1>2, <2>1, <2>2
<1>6. O!Groups(scan) = GroupsTo(scan, n)
  <2>1. \A p \in 1..n : scan[p] => ((\A q \in {x \in 1..n : scan[x]} : q < p => p - q > Gap)
                                    <=> \A q \in 1..(p - 1) : scan[q] => p - q > Gap)
    <3> SUFFICES ASSUME NEW p \in 1..n
                 PROVE  (\A q \in {x \in 1..n : scan[x]} : q < p => p - q > Gap)
                           <=> \A q \in 1..(p - 1) : scan[q] => p - q > Gap
      OBVIOUS
    <3>1. \A q \in 1..n : q < p => q \in 1..(p - 1)
      BY <1>0
    <3>2. \A q \in 1..(p - 1) : q \in 1..n /\ q < p
      BY <1>0
    <3> QED
      BY <3>1, <3>2
  <2> QED
    BY <2>1 DEF O!Groups, GroupsTo, LeadsGroup, n
<1>7. /\ O!Detect(scan, obj).listed = z[n].listed + (IF z[n].inside THEN 1 ELSE 0)
      /\ O!Detect(scan, obj).object = [pts |-> z[n].pts, angle |-> z[n].angle]
  BY <1>1 DEF n
<1>8. O!Detect(scan, obj).listed \in Nat
  <2>1. z[n].listed \in Nat /\ z[n].inside \in BOOLEAN
    BY <1>5 DEF Walks
  <2> QED
    BY <1>7, <2>1
<1>9. O!Detect(scan, obj).object \in Objects
  <2>1. z[n].pts \in Seq(Nat) /\ z[n].angle \in Nat /\ Len(z[n].pts) > MinPoints
    BY <1>5 DEF Walks
  <2> QED
    BY <1>7, <2>1 DEF Objects
<1> QED
  BY <1>5, <1>6, <1>7, <1>8, <1>9 DEF Counted, Count

-----------------------------------------------------------------------------
(* The indexes of open overruns.                                            *)

IndexTable(t) == /\ IsFiniteSet(DOMAIN t) /\ DOMAIN t \subseteq Nat
                 /\ \A i \in DOMAIN t : t[i] \in BOOLEAN

\* No call, and one call.
LEMMA CallsNone == O!GetHashIndexes(0) = {<< <<>>, used >>}
<1> DEFINE E(f) == [i \in 0..0 |->
                      IF i = 0 THEN {<< <<>>, used >>}
                      ELSE UNION {{<<Append(c[1], g[1]), g[2]>> : g \in O!GetHashIndex(c[2])} : c \in f[i - 1]}]
           calls == CHOOSE f : f = E(f)
<1>1. O!GetHashIndexes(0) = calls[0]
  BY DEF O!GetHashIndexes
<1>2. \E f : f = E(f)
  <2> DEFINE f == [i \in 0..0 |-> {<< <<>>, used >>}]
  <2>1. f = E(f)
    BY \A i \in 0..0 : i = 0
  <2> QED
    BY <2>1
<1>3. calls = E(calls)
  <2> HIDE DEF E
  <2> QED
    BY <1>2, Zenon
<1>4. E(calls)[0] = {<< <<>>, used >>}
  <2>1. 0 \in 0..0
    OBVIOUS
  <2> QED
    BY <2>1
<1> HIDE DEF calls, E
<1> QED
  BY <1>1, <1>3, <1>4

LEMMA CallsOne ==
  ASSUME NEW c \in O!GetHashIndexes(1)
  PROVE  \E g \in O!GetHashIndex(used) : c[1] = <<g[1]>> /\ c[2] = g[2]
<1> DEFINE Calls(s) == UNION {{<<Append(x[1], g[1]), g[2]>> : g \in O!GetHashIndex(x[2])} : x \in s}
           begun == {<< <<>>, used >>}
           E(f) == [i \in 0..1 |-> IF i = 0 THEN begun ELSE Calls(f[i - 1])]
           calls == CHOOSE f : f = E(f)
<1>1. O!GetHashIndexes(1) = calls[1]
  BY DEF O!GetHashIndexes
<1> HIDE DEF Calls, begun
<1>2. \E f : f = E(f)
  <2> DEFINE f == [i \in 0..1 |-> IF i = 0 THEN begun ELSE Calls(begun)]
  <2>1. ASSUME NEW i \in 0..1 PROVE f[i] = E(f)[i]
    <3>1. 0 \in 0..1 /\ (i = 0 \/ (i = 1 /\ i - 1 = 0))
      OBVIOUS
    <3>2. f[0] = begun
      BY <3>1
    <3> HIDE DEF f
    <3>3. CASE i = 0
      BY <3>2, <3>3
    <3>4. CASE i = 1
      <4>1. E(f)[i] = Calls(f[0])
        BY <3>1, <3>4
      <4>2. f[i] = Calls(begun)
        BY <3>4 DEF f
      <4> QED
        BY <3>2, <4>1, <4>2
    <3> QED
      BY <3>1, <3>3, <3>4
  <2>2. f = E(f)
    BY <2>1
  <2> QED
    BY <2>2
<1>3. calls = E(calls)
  <2> HIDE DEF E
  <2> QED
    BY <1>2, Zenon
<1> HIDE DEF calls
<1>4. calls[0] = begun /\ calls[1] = Calls(calls[0])
  <2>1. 0 \in 0..1 /\ 1 \in 0..1 /\ 1 # 0 /\ 1 - 1 = 0
    OBVIOUS
  <2>2. \A i \in 0..1 : calls[i] = IF i = 0 THEN begun ELSE Calls(calls[i - 1])
    BY <1>3
  <2> QED
    BY <2>1, <2>2
<1>5. PICK x \in begun : c \in {<<Append(x[1], g[1]), g[2]>> : g \in O!GetHashIndex(x[2])}
  BY <1>1, <1>4 DEF Calls
<1>6. x = << <<>>, used >>
  BY <1>5 DEF begun
<1>7. PICK g \in O!GetHashIndex(used) : c = <<Append(<<>>, g[1]), g[2]>>
  BY <1>5, <1>6
<1>8. Append(<<>>, g[1]) = <<g[1]>>
  OBVIOUS
<1> QED
  BY <1>7, <1>8

\* A table that is not empty grows beyond Grow.
LEMMA TableGrows ==
  ASSUME O!OverrunAssumption, NEW d, IsFiniteSet(d), d \subseteq Nat, NEW k \in d
  PROVE  /\ IsFiniteSet(d \cup (k + 1)..(k + Grow))
         /\ ~(Cardinality(d \cup (k + 1)..(k + Grow)) <= Grow)
<1> DEFINE more == (k + 1)..(k + Grow)
<1>1. k \in Nat /\ Grow \in Nat /\ Grow > 0
  BY DEF O!OverrunAssumption
<1>2. IsFiniteSet(more) /\ Cardinality(more) = Grow
  <2>1. k + 1 \in Int /\ k + Grow \in Int /\ k + 1 <= k + Grow /\ (k + Grow) - (k + 1) + 1 = Grow
    BY <1>1
  <2> QED
    BY <2>1, FS_Interval
<1>3. k \notin more
  BY <1>1
<1> HIDE DEF more
<1>4. IsFiniteSet(d \cup more)
  BY <1>2, FS_Union
<1>5. IsFiniteSet(more \cup {k}) /\ Cardinality(more \cup {k}) = Grow + 1
  BY <1>2, <1>3, FS_AddElement
<1>6. Grow + 1 <= Cardinality(d \cup more) /\ Cardinality(d \cup more) \in Nat
  <2>1. more \cup {k} \in SUBSET (d \cup more)
    OBVIOUS
  <2> QED
    BY <1>4, <1>5, <2>1, FS_Subset, FS_CardinalityType
<1> QED
  BY <1>1, <1>4, <1>6 DEF more

\* An index that is taken was free, and while the table lasts it is not one in use.
LEMMA IndexTaken ==
  ASSUME O!OverrunAssumption, NEW t, IndexTable(t), NEW g \in O!GetHashIndex(t)
  PROVE  /\ IndexTable(g[2]) /\ DOMAIN t \subseteq DOMAIN g[2]
         /\ g[1] \in DOMAIN g[2] /\ g[2][g[1]] = TRUE
         /\ Cardinality(DOMAIN g[2]) <= Grow =>
              \A j \in DOMAIN t : t[j] = TRUE => j # g[1] /\ g[2][j] = TRUE
<1> DEFINE Takes(x) == {<<i, [x EXCEPT ![i] = TRUE]>> : i \in {i \in DOMAIN x : ~x[i]}}
           From(k) == [i \in DOMAIN t \cup k..(k + Grow - 1) |-> i \notin k..(k + Grow - 1) /\ t[i]]
<1>1. ASSUME NEW x, IndexTable(x), g \in Takes(x)
      PROVE  /\ IndexTable(g[2]) /\ DOMAIN g[2] = DOMAIN x
             /\ g[1] \in DOMAIN x /\ g[2][g[1]] = TRUE /\ ~x[g[1]]
             /\ \A j \in DOMAIN x : j # g[1] => g[2][j] = x[j]
  <2>1. PICK i \in DOMAIN x : ~x[i] /\ g = <<i, [x EXCEPT ![i] = TRUE]>>
    BY <1>1
  <2> DEFINE y == [x EXCEPT ![i] = TRUE]
  <2>2. g[1] = i /\ g[2] = y
    BY <2>1
  <2>3. DOMAIN y = DOMAIN x /\ y[i] = TRUE /\ \A j \in DOMAIN x : j # i => y[j] = x[j]
    OBVIOUS
  <2> HIDE DEF y
  <2>4. IndexTable(y)
    <3>1. \A j \in DOMAIN x : y[j] \in BOOLEAN
      BY <1>1, <2>3 DEF IndexTable
    <3> QED
      BY <1>1, <2>3, <3>1 DEF IndexTable
  <2> QED
    BY <2>1, <2>2, <2>3, <2>4
<1>2. g \in Takes(t) \/ \E x \in O!Expand(t) : g \in Takes(x)
  BY DEF O!GetHashIndex
<1> HIDE DEF Takes
<1>3. CASE g \in Takes(t)
  BY <1>1, <1>3
<1>4. ASSUME NEW x \in O!Expand(t), g \in Takes(x)
      PROVE  /\ IndexTable(g[2]) /\ DOMAIN t \subseteq DOMAIN g[2]
             /\ g[1] \in DOMAIN g[2] /\ g[2][g[1]] = TRUE
             /\ Cardinality(DOMAIN g[2]) <= Grow =>
                  \A j \in DOMAIN t : t[j] = TRUE => j # g[1] /\ g[2][j] = TRUE
  <2>1. ASSUME NEW k \in Nat, x = From(k), IsFiniteSet(DOMAIN t \cup k..(k + Grow - 1))
        PROVE  IndexTable(x) /\ DOMAIN x = DOMAIN t \cup k..(k + Grow - 1)
    <3>1. DOMAIN x = DOMAIN t \cup k..(k + Grow - 1)
      BY <2>1
    <3>2. \A i \in DOMAIN x : x[i] \in BOOLEAN
      BY <2>1
    <3>3. k..(k + Grow - 1) \subseteq Nat
      BY DEF O!OverrunAssumption
    <3> QED
      BY <2>1, <3>1, <3>2, <3>3 DEF IndexTable
  <2>2. CASE DOMAIN t = {}
    <3>1. x = From(0)
      BY <2>2 DEF O!Expand
    <3>2. IsFiniteSet(DOMAIN t \cup 0..(0 + Grow - 1))
      <4>1. 0 \in Int /\ 0 + Grow - 1 \in Int
        BY DEF O!OverrunAssumption
      <4>2. IsFiniteSet(0..(0 + Grow - 1))
        BY <4>1, FS_Interval
      <4> QED
        BY <2>2, <4>2
    <3>3. IndexTable(x)
      BY <2>1, <3>1, <3>2
    <3> QED
      BY <1>1, <1>4, <2>2, <3>3
  <2>3. CASE DOMAIN t # {}
    <3>1. PICK k \in DOMAIN t : x = From(k + 1)
      BY <2>3 DEF O!Expand
    <3>2. k \in Nat /\ (k + 1) + Grow - 1 = k + Grow
      BY DEF IndexTable, O!OverrunAssumption
    <3>3. /\ IsFiniteSet(DOMAIN t \cup (k + 1)..((k + 1) + Grow - 1))
          /\ ~(Cardinality(DOMAIN t \cup (k + 1)..((k + 1) + Grow - 1)) <= Grow)
      BY <3>2, TableGrows DEF IndexTable
    <3>4. IndexTable(x) /\ DOMAIN x = DOMAIN t \cup (k + 1)..((k + 1) + Grow - 1)
      BY <2>1, <3>1, <3>2, <3>3
    <3> HIDE DEF From
    <3> QED
      BY <1>1, <1>4, <3>3, <3>4
  <2> QED
    BY <2>2, <2>3
<1> QED
  BY <1>2, <1>3, <1>4

-----------------------------------------------------------------------------
(* Objects.                                                                 *)

OverrunTypes == /\ now \in 0..MaxObjects /\ pool \in Seq(Objects) /\ several \in BOOLEAN
                /\ DOMAIN object \subseteq 1..now /\ \A s \in DOMAIN object : object[s] \in Objects

\* The object that a scan is given, what stays in the pool, what is found with it.
Hand == IF pool = <<>> THEN O!NewObject ELSE O!Last(pool)
Rest == IF pool = <<>> THEN pool ELSE O!Front(pool)
Again(d) == d.listed > 0 /\ before # NoScan /\ O!Near(object[before.scan].angle, d.object.angle)
Indexes(again, calls) == (IF again THEN <<before.index>> ELSE <<>>) \o calls[1]
Wanted(again, d) == IF again THEN d.listed - 1 ELSE d.listed

LEMMA NewObjectIs == O!OverrunAssumption => O!NewObject \in Objects
<1> SUFFICES ASSUME O!OverrunAssumption PROVE O!NewObject \in Objects
  OBVIOUS
<1> DEFINE q == [i \in 1..Prealloc |-> 0]
<1>1. Prealloc \in Nat /\ Prealloc > MinPoints
  BY DEF O!OverrunAssumption
<1>2. q \in Seq(Nat) /\ Len(q) = Prealloc
  BY <1>1
<1> HIDE DEF q
<1>3. O!NewObject = [pts |-> q, angle |-> 0]
  BY DEF O!NewObject, q
<1> QED
  BY <1>1, <1>2, <1>3 DEF Objects

LEMMA HandIs ==
  ASSUME O!OverrunAssumption, OverrunTypes
  PROVE  Hand \in Objects /\ Rest \in Seq(Objects)
<1>1. pool \in Seq(Objects)
  BY DEF OverrunTypes
<1>2. CASE pool = <<>>
  BY <1>1, <1>2, NewObjectIs DEF Hand, Rest
<1>3. CASE pool # <<>>
  <2> DEFINE l == Len(pool)
  <2>1. l \in Nat /\ l # 0
    BY <1>1, <1>3, EmptySeq
  <2>2. l \in 1..l /\ l - 1 \in 0..l
    <3> HIDE DEF l
    <3> QED
      BY <2>1
  <2>3. O!Last(pool) \in Objects
    BY <1>1, <2>2, ElementOfSeq DEF O!Last
  <2>4. O!Front(pool) \in Seq(Objects)
    <3>1. SubSeq(pool, 1, l - 1) \in Seq(Objects)
      <4> HIDE DEF l
      <4>1. \A k \in 1..(l - 1) : k \in 1..l
        BY <2>1
      <4>2. \A k \in 1..(l - 1) : pool[k] \in Objects
        BY <1>1, <4>1, ElementOfSeq DEF l
      <4>3. 1 \in Nat /\ l - 1 \in Nat
        BY <2>1
      <4> QED
        BY <1>1, <4>2, <4>3, SubSeqProperties
    <3> QED
      BY <3>1 DEF O!Front
  <2> QED
    BY <1>3, <2>3, <2>4 DEF Hand, Rest
<1> QED
  BY <1>2, <1>3

\* What isOverrun does, with its parts by name.
LEMMA ScanIs ==
  ASSUME NEW scan, O!IsOverrun(scan)
  PROVE  LET d == O!Detect(scan, Hand)
         IN \E calls \in O!GetHashIndexes(Wanted(Again(d), d)) :
              LET indexes == Indexes(Again(d), calls)
                  lists   == O!Listed(indexes)
              IN /\ IF before = NoScan \/ Again(d) \/ before.index \notin DOMAIN lists
                    THEN hash' = lists /\ used' = calls[2] /\ UNCHANGED <<handed, writing>>
                    ELSE O!Finish(lists, calls[2], before.index)
                 /\ IF d.listed = 0
                    THEN before' = NoScan /\ pool' = Append(Rest, d.object) /\ UNCHANGED object
                    ELSE /\ before' = [scan |-> now + 1, index |-> O!Last(indexes)]
                         /\ object' = [s \in DOMAIN object \cup {now + 1} |->
                                         IF s = now + 1 THEN d.object ELSE object[s]]
                         /\ pool' = Rest
                 /\ several' = (several \/ d.listed > 1)
                 /\ now' = now + 1 /\ now < MaxObjects
  BY Zenon DEF O!IsOverrun, Hand, Rest, Again, Indexes, Wanted

\* Taking the objects of a list back: a set of them as a sequence.
LEMMA FreeIs ==
  ASSUME OverrunTypes, NEW free \in SUBSET DOMAIN object
  PROVE  O!SetToSeq({object[s] : s \in free}) \in Seq(Objects)
<1> DEFINE S == {object[s] : s \in free}
           f == [s \in free |-> object[s]]
<1>1. now \in Nat /\ IsFiniteSet(1..now)
  <2>1. now \in Nat /\ 1 \in Int /\ now \in Int
    BY DEF OverrunTypes
  <2> QED
    BY <2>1, FS_Interval
<1>2. IsFiniteSet(free)
  <2>1. free \in SUBSET (1..now)
    BY DEF OverrunTypes
  <2> QED
    BY <1>1, <2>1, FS_Subset
<1>3. f \in Surjection(free, S)
  BY DEF Surjection
<1>4. IsFiniteSet(S)
  BY <1>2, <1>3, FS_Surjection
<1>5. S \subseteq Objects
  BY DEF OverrunTypes
<1> HIDE DEF S, f
<1> DEFINE n == O!Cardinality(S)
<1>6. n \in Nat /\ \E b : b \in Bijection(1..n, S)
  BY <1>4, FS_CardinalityType, SameCardinality DEF ExistsBijection
<1>7. \E b \in [1..n -> S] : O!IsInjective(b)
  BY <1>6 DEF Bijection, Injection, IsInjective, O!IsInjective
<1>8. O!SetToSeq(S) \in [1..n -> S]
  BY <1>7 DEF O!SetToSeq
<1> HIDE DEF n
<1>9. O!SetToSeq(S) \in [1..n -> Objects]
  BY <1>5, <1>8
<1> QED
  BY <1>6, <1>9 DEF S

LEMMA OverrunTypesInit == O!OverrunAssumption /\ O!Init => OverrunTypes
<1> SUFFICES ASSUME O!OverrunAssumption, O!Init PROVE OverrunTypes
  OBVIOUS
<1>1. MaxObjects \in Nat /\ now = 0 /\ pool = <<>> /\ several = FALSE /\ object = <<>>
  BY DEF O!OverrunAssumption, O!Init
<1>2. DOMAIN object = {}
  BY <1>1
<1>3. now \in 0..MaxObjects /\ pool \in Seq(Objects)
  BY <1>1
<1> QED
  BY <1>1, <1>2, <1>3 DEF OverrunTypes

LEMMA OverrunTypesScan ==
  ASSUME O!OverrunAssumption, OverrunTypes, NEW scan \in Scans, O!IsOverrun(scan)
  PROVE  OverrunTypes'
<1> DEFINE d == O!Detect(scan, Hand)
<1>1. scan \in Seq(BOOLEAN) /\ now \in Nat /\ MaxObjects \in Nat
  BY DEF O!OverrunAssumption, OverrunTypes
<1>2. d.object \in Objects /\ d.listed \in Nat
  BY <1>1, HandIs, DetectCounts
<1> HIDE DEF d
<1>3. /\ IF d.listed = 0
         THEN before' = NoScan /\ pool' = Append(Rest, d.object) /\ UNCHANGED object
         ELSE /\ object' = [s \in DOMAIN object \cup {now + 1} |->
                              IF s = now + 1 THEN d.object ELSE object[s]]
              /\ pool' = Rest
      /\ several' = (several \/ d.listed > 1)
      /\ now' = now + 1 /\ now < MaxObjects
  BY ScanIs DEF d
<1>4. Rest \in Seq(Objects) /\ Append(Rest, d.object) \in Seq(Objects)
  <2>1. Rest \in Seq(Objects)
    BY HandIs
  <2> HIDE DEF Rest
  <2> QED
    BY <1>2, <2>1
<1>5. pool' \in Seq(Objects)
  BY <1>3, <1>4
<1>6. now' \in 0..MaxObjects /\ 1..now \subseteq 1..now' /\ now + 1 \in 1..now'
  BY <1>1, <1>3
<1>7. several' \in BOOLEAN
  <2> DEFINE more == d.listed > 1
  <2>1. more \in BOOLEAN
    BY <1>2
  <2> HIDE DEF more
  <2>2. several' = (several \/ more)
    BY <1>3 DEF more
  <2> QED
    BY <2>2
<1>8. DOMAIN object' \subseteq 1..now' /\ \A s \in DOMAIN object' : object'[s] \in Objects
  <2>1. CASE d.listed = 0
    BY <1>3, <1>6, <2>1 DEF OverrunTypes
  <2>2. CASE d.listed # 0
    <3>1. object' = [s \in DOMAIN object \cup {now + 1} |->
                        IF s = now + 1 THEN d.object ELSE object[s]]
      BY <1>3, <2>2
    <3> QED
      BY <1>2, <1>6, <3>1 DEF OverrunTypes
  <2> QED
    BY <2>1, <2>2
<1> QED
  BY <1>5, <1>6, <1>7, <1>8 DEF OverrunTypes

LEMMA OverrunTypesRecorded ==
  ASSUME O!OverrunAssumption, OverrunTypes, NEW n \in writing, O!Recorded(n)
  PROVE  OverrunTypes' /\ DOMAIN object' \subseteq DOMAIN object
<1>1. PICK free \in SUBSET DOMAIN object :
         /\ pool' = pool \o O!SetToSeq({object[s] : s \in free})
         /\ object' = [s \in DOMAIN object \ free |-> object[s]]
         /\ UNCHANGED <<now, several>>
  <2> DEFINE kept == (IF before = NoScan THEN {} ELSE {before.scan})
                     \cup UNION {O!ToSet(hash[i]) : i \in DOMAIN hash}
                     \cup UNION {O!ToSet(handed[m]) : m \in writing'}
             free == (O!ToSet(handed[n]) \cap DOMAIN object) \ kept
  <2>1. /\ pool' = pool \o O!SetToSeq({object[s] : s \in free})
        /\ object' = [s \in DOMAIN object \ free |-> object[s]]
        /\ UNCHANGED <<now, several>>
    BY DEF O!Recorded
  <2>2. free \in SUBSET DOMAIN object
    OBVIOUS
  <2> HIDE DEF free
  <2> QED
    BY <2>1, <2>2
<1>2. pool' \in Seq(Objects)
  <2> DEFINE q == O!SetToSeq({object[s] : s \in free})
  <2>1. q \in Seq(Objects) /\ pool \in Seq(Objects)
    BY FreeIs DEF OverrunTypes
  <2> HIDE DEF q
  <2>2. pool \o q \in Seq(Objects)
    BY <2>1
  <2> QED
    BY <1>1, <2>2 DEF q
<1> QED
  BY <1>1, <1>2 DEF OverrunTypes

-----------------------------------------------------------------------------
(* Lists of scans.                                                          *)

\* A list is a run of scans that ends with the h-th.
RunTo(l, h) == /\ l \in Seq(Nat) /\ Len(l) \in 1..h
               /\ \A j \in 1..Len(l) : l[j] = h - Len(l) + j

Lasting == ~several /\ Cardinality(DOMAIN used) <= Grow

\* How many scans the open overrun has; its list and its index.
Open == IF before = NoScan THEN 0 ELSE Len(hash[before.index])
OpenRun ==
  IF before = NoScan THEN DOMAIN hash = {}
  ELSE /\ before \in [scan : Nat, index : Nat] /\ DOMAIN hash = {before.index}
       /\ before.index \in DOMAIN used /\ used[before.index] = TRUE
       /\ RunTo(hash[before.index], now)

\* What was handed over are runs, one behind the other, all before the open one.
HandedRuns == /\ handed \in Seq(Seq(Nat))
              /\ \A n \in 1..Len(handed) : \E h \in 1..(now - Open) : RunTo(handed[n], h)
HandedApart == \A n, m \in 1..Len(handed) : n < m =>
                 \A i \in 1..Len(handed[n]), j \in 1..Len(handed[m]) : handed[n][i] < handed[m][j]
EachSomewhere == \A s \in DOMAIN object :
                    s > now - Open \/ \E n \in 1..Len(handed) : \E j \in 1..Len(handed[n]) : handed[n][j] = s

ListsInv == OpenRun /\ HandedRuns /\ HandedApart /\ EachSomewhere
OverrunInv == /\ OverrunTypes
              /\ ~several => IndexTable(used)
              /\ Lasting => ListsInv

\* A scan that is added to the lists of no index, or of one.
LEMMA ListedNone ==
  ASSUME \A i \in DOMAIN hash : hash[i] \in Seq(Nat)
  PROVE  DOMAIN O!Listed(<<>>) = DOMAIN hash /\ \A i \in DOMAIN hash : O!Listed(<<>>)[i] = hash[i]
<1>1. \A i : {k \in DOMAIN <<>> : <<>>[k] = i} = {}
  OBVIOUS
<1>2. O!Cardinality({}) = 0 /\ O!ToSet(<<>>) = {}
  BY FS_EmptySet, SameCardinality DEF O!ToSet
<1>3. [j \in 1..0 |-> now + 1] = <<>>
  OBVIOUS
<1>4. O!Listed(<<>>) = [i \in DOMAIN hash |-> hash[i] \o <<>>]
  BY <1>1, <1>2, <1>3 DEF O!Listed
<1>5. \A i \in DOMAIN hash : hash[i] \o <<>> = hash[i]
  BY ConcatEmptySeq
<1> QED
  BY <1>4, <1>5

LEMMA ListedOne ==
  ASSUME now \in Nat, \A i \in DOMAIN hash : hash[i] \in Seq(Nat), NEW g
  PROVE  /\ DOMAIN O!Listed(<<g>>) = DOMAIN hash \cup {g}
         /\ \A i \in DOMAIN hash : i # g => O!Listed(<<g>>)[i] = hash[i]
         /\ g \in DOMAIN hash => O!Listed(<<g>>)[g] = Append(hash[g], now + 1)
         /\ g \notin DOMAIN hash => O!Listed(<<g>>)[g] = <<now + 1>>
<1> DEFINE w == <<g>>
           ks(i) == {k \in DOMAIN w : w[k] = i}
           adds(i) == [j \in 1..O!Cardinality(ks(i)) |-> now + 1]
<1>1. DOMAIN w = {1} /\ w[1] = g
  OBVIOUS
<1>2. O!ToSet(w) = {g}
  BY <1>1 DEF O!ToSet
<1>3. ks(g) = {1} /\ \A i : i # g => ks(i) = {}
  BY <1>1
<1> HIDE DEF ks
<1>4. O!Cardinality(ks(g)) = 1 /\ \A i : i # g => O!Cardinality(ks(i)) = 0
  BY <1>3, FS_EmptySet, FS_Singleton, SameCardinality
<1>5. adds(g) = <<now + 1>>
  <2>1. 1..1 = {1}
    OBVIOUS
  <2>2. adds(g) = [j \in 1..1 |-> now + 1]
    BY <1>4
  <2> QED
    BY <2>1, <2>2
<1>6. \A i : i # g => adds(i) = <<>>
  <2>1. [j \in 1..0 |-> now + 1] = <<>>
    OBVIOUS
  <2> QED
    BY <1>4, <2>1
<1>7. O!Listed(w) = [i \in DOMAIN hash \cup {g} |-> (IF i \in DOMAIN hash THEN hash[i] ELSE <<>>) \o adds(i)]
  BY <1>2 DEF O!Listed, ks
<1> HIDE DEF adds, w
<1>8. \A i \in DOMAIN hash : i # g => O!Listed(w)[i] = hash[i]
  <2> SUFFICES ASSUME NEW i \in DOMAIN hash, i # g PROVE O!Listed(w)[i] = hash[i]
    OBVIOUS
  <2>1. O!Listed(w)[i] = hash[i] \o <<>>
    BY <1>6, <1>7
  <2> QED
    BY <2>1, ConcatEmptySeq
<1>9. ASSUME g \in DOMAIN hash PROVE O!Listed(w)[g] = Append(hash[g], now + 1)
  <2> DEFINE h == hash[g]
  <2>1. O!Listed(w)[g] = h \o <<now + 1>> /\ h \in Seq(Nat) /\ now + 1 \in Nat
    <3>1. g \in DOMAIN hash \cup {g}
      OBVIOUS
    <3>2. O!Listed(w)[g] = h \o adds(g)
      BY <1>7, <1>9, <3>1
    <3> QED
      BY <1>5, <1>9, <3>2
  <2> HIDE DEF h
  <2>2. h \o <<now + 1>> = Append(h, now + 1)
    BY <2>1, AppendIsConcat
  <2> QED
    BY <2>1, <2>2 DEF h
<1>10. ASSUME g \notin DOMAIN hash PROVE O!Listed(w)[g] = <<now + 1>>
  <2>1. O!Listed(w)[g] = <<>> \o <<now + 1>>
    BY <1>5, <1>7, <1>10
  <2>2. <<>> \o <<now + 1>> = <<now + 1>>
    BY <2>1
  <2> QED
    BY <2>1, <2>2
<1> QED
  BY <1>7, <1>8, <1>9, <1>10 DEF w

\* A run goes on with the next scan, and a scan alone is a run.
LEMMA RunGoesOn ==
  ASSUME NEW h \in Nat, NEW l, RunTo(l, h)
  PROVE  RunTo(Append(l, h + 1), h + 1) /\ Len(Append(l, h + 1)) = Len(l) + 1
<1> DEFINE n == Len(l)
           a == Append(l, h + 1)
<1>1. l \in Seq(Nat) /\ n \in 1..h /\ \A j \in 1..n : l[j] = h - n + j
  BY DEF RunTo
<1>2. a \in Seq(Nat) /\ Len(a) = n + 1 /\ a[n + 1] = h + 1 /\ \A j \in 1..n : a[j] = l[j]
  BY <1>1
<1> HIDE DEF n, a
<1>3. \A j \in 1..(n + 1) : a[j] = (h + 1) - (n + 1) + j
  <2> SUFFICES ASSUME NEW j \in 1..(n + 1) PROVE a[j] = (h + 1) - (n + 1) + j
    OBVIOUS
  <2>1. CASE j = n + 1
    BY <1>1, <1>2, <2>1
  <2>2. CASE j \in 1..n
    <3>1. a[j] = h - n + j
      BY <1>1, <1>2, <2>2
    <3> QED
      BY <1>1, <2>2, <3>1
  <2> QED
    BY <1>1, <2>1, <2>2
<1>4. n + 1 \in 1..(h + 1)
  BY <1>1
<1> QED
  BY <1>2, <1>3, <1>4 DEF RunTo, n, a

LEMMA RunBegins ==
  ASSUME NEW h \in Nat
  PROVE  RunTo(<<h + 1>>, h + 1) /\ Len(<<h + 1>>) = 1
<1> DEFINE l == <<h + 1>>
<1>1. l \in Seq(Nat) /\ Len(l) = 1 /\ l[1] = h + 1
  OBVIOUS
<1> HIDE DEF l
<1>2. 1 \in 1..(h + 1) /\ \A j \in 1..1 : j = 1
  OBVIOUS
<1>3. h + 1 = (h + 1) - 1 + 1
  OBVIOUS
<1> QED
  BY <1>1, <1>2, <1>3 DEF RunTo, l

\* An open run is handed over: it comes behind what was handed over before.
LEMMA HandedOver ==
  ASSUME now \in Nat, before # NoScan, ListsInv, NEW h, h = Append(handed, hash[before.index])
  PROVE  /\ h \in Seq(Seq(Nat)) /\ Len(h) = Len(handed) + 1 /\ Len(handed) \in Nat
         /\ \A n \in 1..Len(h) : \E e \in 1..now : RunTo(h[n], e)
         /\ \A n, m \in 1..Len(h) : n < m =>
              \A i \in 1..Len(h[n]), j \in 1..Len(h[m]) : h[n][i] < h[m][j]
         /\ \A s \in DOMAIN object : s \in 1..now =>
              \E n \in 1..Len(h) : \E j \in 1..Len(h[n]) : h[n][j] = s
<1> DEFINE l == hash[before.index]
           c == Len(handed)
           o == Open
<1>1. l \in Seq(Nat) /\ o = Len(l) /\ o \in 1..now /\ \A j \in 1..o : l[j] = now - o + j
  BY DEF ListsInv, OpenRun, Open, RunTo
<1>2. handed \in Seq(Seq(Nat)) /\ c \in Nat
  BY DEF ListsInv, HandedRuns
<1>3. /\ \A n \in 1..c : \E e \in 1..(now - o) : RunTo(handed[n], e)
      /\ \A n, m \in 1..c : n < m =>
           \A i \in 1..Len(handed[n]), j \in 1..Len(handed[m]) : handed[n][i] < handed[m][j]
      /\ \A s \in DOMAIN object : s > now - o \/ \E n \in 1..c : \E j \in 1..Len(handed[n]) : handed[n][j] = s
  BY DEF ListsInv, HandedRuns, HandedApart, EachSomewhere
<1>r. RunTo(l, now)
  BY DEF ListsInv, OpenRun
<1> HIDE DEF o, l
<1>4. h \in Seq(Seq(Nat)) /\ Len(h) = c + 1 /\ h[c + 1] = l /\ \A n \in 1..c : h[n] = handed[n]
  BY <1>1, <1>2 DEF l
<1> HIDE DEF c
<1>5. \A n \in 1..(c + 1) : n = c + 1 \/ n \in 1..c
  BY <1>2
<1>6. ASSUME NEW n \in 1..(c + 1) PROVE \E e \in 1..now : RunTo(h[n], e)
  <2>1. now \in 1..now /\ \A e \in 1..(now - o) : e \in 1..now
    BY <1>1
  <2>2. CASE n = c + 1
    BY <1>r, <1>4, <2>1, <2>2
  <2>3. CASE n \in 1..c
    BY <1>3, <1>4, <2>1, <2>3
  <2> QED
    BY <1>5, <2>2, <2>3
<1>7. ASSUME NEW n \in 1..c, NEW i \in 1..Len(handed[n]), NEW j \in 1..o
      PROVE  handed[n][i] < l[j]
  <2>1. PICK e \in 1..(now - o) : RunTo(handed[n], e)
    BY <1>3
  <2> DEFINE z == Len(handed[n])
  <2>2. z \in 1..e /\ handed[n][i] = e - z + i
    BY <2>1 DEF RunTo
  <2> HIDE DEF z
  <2>3. i \in 1..z
    BY DEF z
  <2>4. e - z + i <= now - o
    BY <1>1, <2>2, <2>3
  <2>5. l[j] = now - o + j
    BY <1>1
  <2> DEFINE x == handed[n][i]
  <2>6. x = e - z + i
    BY <2>2
  <2> HIDE DEF x
  <2>7. x < now - o + j
    BY <1>1, <2>2, <2>3, <2>4, <2>6
  <2> QED
    BY <2>5, <2>7 DEF x
<1>8. ASSUME NEW n \in 1..(c + 1), NEW m \in 1..(c + 1), n < m,
             NEW i \in 1..Len(h[n]), NEW j \in 1..Len(h[m])
      PROVE  h[n][i] < h[m][j]
  <2>1. n \in 1..c
    BY <1>2, <1>8
  <2>2. h[n] = handed[n]
    BY <1>4, <2>1
  <2>3. CASE m = c + 1
    BY <1>1, <1>4, <1>7, <2>1, <2>2, <2>3
  <2>4. CASE m \in 1..c
    BY <1>3, <1>4, <1>8, <2>1, <2>2, <2>4
  <2> QED
    BY <1>5, <2>3, <2>4
<1>9. ASSUME NEW s \in DOMAIN object, s \in 1..now
      PROVE  \E n \in 1..(c + 1) : \E j \in 1..Len(h[n]) : h[n][j] = s
  <2>1. CASE s > now - o
    <3>1. s - (now - o) \in 1..o /\ now - o + (s - (now - o)) = s
      BY <1>1, <1>9, <2>1
    <3>2. l[s - (now - o)] = s
      BY <1>1, <3>1
    <3>3. c + 1 \in 1..(c + 1)
      BY <1>2
    <3> QED
      BY <1>1, <1>4, <3>1, <3>2, <3>3
  <2>2. CASE ~(s > now - o)
    <3>1. PICK n \in 1..c : \E j \in 1..Len(handed[n]) : handed[n][j] = s
      BY <1>3, <2>2
    <3>2. n \in 1..(c + 1)
      BY <1>2
    <3> QED
      BY <1>4, <3>1, <3>2
  <2> QED
    BY <2>1, <2>2
<1>10. 1..Len(h) = 1..(c + 1)
  BY <1>4
<1>11. \A n, m \in 1..(c + 1) : n < m => \A i \in 1..Len(h[n]), j \in 1..Len(h[m]) : h[n][i] < h[m][j]
  BY <1>8
<1>12. /\ \A n \in 1..Len(h) : \E e \in 1..now : RunTo(h[n], e)
       /\ \A n, m \in 1..Len(h) : n < m => \A i \in 1..Len(h[n]), j \in 1..Len(h[m]) : h[n][i] < h[m][j]
       /\ \A s \in DOMAIN object : s \in 1..now =>
            \E n \in 1..Len(h) : \E j \in 1..Len(h[n]) : h[n][j] = s
  BY <1>6, <1>9, <1>10, <1>11, Zenon
<1> QED
  BY <1>2, <1>4, <1>12 DEF c

\* What is handed over in a step, whether there was an open run or not.
LEMMA HandedAfter ==
  ASSUME OverrunTypes, ListsInv,
         \/ before = NoScan /\ handed' = handed
         \/ before # NoScan /\ handed' = Append(handed, hash[before.index])
  PROVE  /\ handed' \in Seq(Seq(Nat))
         /\ \A n \in 1..Len(handed') : \E e \in 1..now : RunTo(handed'[n], e)
         /\ \A n, m \in 1..Len(handed') : n < m =>
              \A i \in 1..Len(handed'[n]), j \in 1..Len(handed'[m]) : handed'[n][i] < handed'[m][j]
         /\ \A s \in DOMAIN object :
              \E n \in 1..Len(handed') : \E j \in 1..Len(handed'[n]) : handed'[n][j] = s
<1>1. now \in Nat /\ \A s \in DOMAIN object : s \in 1..now
  BY DEF OverrunTypes
<1>2. CASE before = NoScan
  <2>1. Open = 0 /\ now - 0 = now /\ handed' = handed
    BY <1>1, <1>2 DEF Open
  <2>2. \A s \in DOMAIN object : ~(s > now)
    BY <1>1
  <2>3. handed \in Seq(Seq(Nat)) /\ \A n \in 1..Len(handed) : \E e \in 1..now : RunTo(handed[n], e)
    BY <2>1 DEF ListsInv, HandedRuns
  <2>4. \A s \in DOMAIN object : \E n \in 1..Len(handed) : \E j \in 1..Len(handed[n]) : handed[n][j] = s
    BY <2>1, <2>2 DEF ListsInv, EachSomewhere
  <2>5. \A n, m \in 1..Len(handed) : n < m =>
          \A i \in 1..Len(handed[n]), j \in 1..Len(handed[m]) : handed[n][i] < handed[m][j]
    BY DEF ListsInv, HandedApart
  <2>6. handed' = handed
    BY <2>1
  <2> QED
    BY <2>3, <2>4, <2>5, <2>6, Zenon
<1>3. CASE before # NoScan
  <2> DEFINE h == Append(handed, hash[before.index])
  <2>1. handed' = h
    BY <1>3
  <2>2. /\ h \in Seq(Seq(Nat)) /\ \A n \in 1..Len(h) : \E e \in 1..now : RunTo(h[n], e)
        /\ \A n, m \in 1..Len(h) : n < m =>
              \A i \in 1..Len(h[n]), j \in 1..Len(h[m]) : h[n][i] < h[m][j]
        /\ \A s \in DOMAIN object : s \in 1..now =>
              \E n \in 1..Len(h) : \E j \in 1..Len(h[n]) : h[n][j] = s
    BY <1>1, <1>3, HandedOver
  <2> HIDE DEF h
  <2> QED
    BY <1>1, <2>1, <2>2, Zenon
<1> QED
  BY <1>2, <1>3

\* The open lists are sequences; the index of the open one is an index.
LEMMA OpenLists ==
  ASSUME ListsInv
  PROVE  \A i \in DOMAIN hash : hash[i] \in Seq(Nat)
  BY DEF ListsInv, OpenRun, RunTo

\* A scan without a region ends the open overrun.
LEMMA NoneFound ==
  ASSUME OverrunTypes, ListsInv, now' = now + 1, before' = NoScan, UNCHANGED object,
         IF before = NoScan \/ before.index \notin DOMAIN O!Listed(<<>>)
         THEN hash' = O!Listed(<<>>) /\ UNCHANGED handed
         ELSE O!Finish(O!Listed(<<>>), used, before.index)
  PROVE  ListsInv'
<1>1. DOMAIN O!Listed(<<>>) = DOMAIN hash /\ \A i \in DOMAIN hash : O!Listed(<<>>)[i] = hash[i]
  BY OpenLists, ListedNone
<1>2. /\ DOMAIN hash' = {}
      /\ \/ before = NoScan /\ handed' = handed
         \/ before # NoScan /\ handed' = Append(handed, hash[before.index])
  <2>1. CASE before = NoScan
    BY <1>1, <2>1 DEF ListsInv, OpenRun
  <2>2. CASE before # NoScan
    <3>1. DOMAIN hash = {before.index}
      BY <2>2 DEF ListsInv, OpenRun
    <3>2. O!Finish(O!Listed(<<>>), used, before.index)
      BY <1>1, <2>2, <3>1
    <3>3. /\ hash' = [i \in DOMAIN O!Listed(<<>>) \ {before.index} |-> O!Listed(<<>>)[i]]
          /\ handed' = Append(handed, O!Listed(<<>>)[before.index])
      BY <3>2 DEF O!Finish
    <3>4. O!Listed(<<>>)[before.index] = hash[before.index]
      BY <1>1, <3>1
    <3>5. DOMAIN hash' = {}
      BY <1>1, <3>1, <3>3
    <3> QED
      BY <2>2, <3>3, <3>4, <3>5
  <2> QED
    BY <2>1, <2>2
<1>3. /\ handed' \in Seq(Seq(Nat))
      /\ \A n \in 1..Len(handed') : \E e \in 1..now : RunTo(handed'[n], e)
      /\ HandedApart'
      /\ \A s \in DOMAIN object :
           \E n \in 1..Len(handed') : \E j \in 1..Len(handed'[n]) : handed'[n][j] = s
  BY <1>2, HandedAfter DEF HandedApart
<1>4. OpenRun' /\ Open' = 0
  BY <1>2 DEF OpenRun, Open
<1>5. HandedRuns'
  <2>1. \A e \in 1..now : e \in 1..(now' - Open')
    BY <1>4 DEF OverrunTypes
  <2> QED
    BY <1>3, <2>1 DEF HandedRuns
<1>6. EachSomewhere'
  BY <1>3 DEF EachSomewhere
<1> QED
  BY <1>3, <1>4, <1>5, <1>6 DEF ListsInv

\* A region that is found again adds the scan to the open run.
LEMMA FoundAgain ==
  ASSUME OverrunTypes, ListsInv, before # NoScan, now' = now + 1,
         before' = [scan |-> now + 1, index |-> before.index], before' # NoScan,
         hash' = O!Listed(<<before.index>>), UNCHANGED <<used, handed>>,
         DOMAIN object' = DOMAIN object \cup {now + 1}
  PROVE  ListsInv'
<1> DEFINE b == before.index
           l == hash[b]
           v == Append(l, now + 1)
<1>1. /\ now \in Nat /\ b \in Nat /\ DOMAIN hash = {b} /\ b \in DOMAIN used /\ used[b] = TRUE
      /\ RunTo(l, now)
  BY DEF ListsInv, OpenRun, OverrunTypes
<1>2. DOMAIN hash' = {b} /\ hash'[b] = v
  <2>1. DOMAIN O!Listed(<<b>>) = DOMAIN hash \cup {b} /\ (b \in DOMAIN hash => O!Listed(<<b>>)[b] = v)
    BY <1>1, OpenLists, ListedOne
  <2> QED
    BY <1>1, <2>1
<1>3. RunTo(v, now + 1) /\ Len(v) = Len(l) + 1
  BY <1>1, RunGoesOn
<1> HIDE DEF v
<1>4. before'.index = b /\ before' \in [scan : Nat, index : Nat]
  BY <1>1
<1>5. OpenRun'
  BY <1>1, <1>2, <1>3, <1>4 DEF OpenRun
<1>6. now' - Open' = now - Open
  <2> DEFINE n == Len(l)
  <2>1. n \in Nat /\ Open = n /\ Open' = n + 1
    BY <1>1, <1>2, <1>3, <1>4 DEF Open, RunTo
  <2> HIDE DEF n
  <2> QED
    BY <1>1, <2>1
<1>7. HandedRuns' /\ HandedApart'
  BY <1>6 DEF ListsInv, HandedRuns, HandedApart
<1>8. EachSomewhere'
  <2>1. now + 1 > now - Open
    <3> DEFINE n == Len(l)
    <3>1. n \in Nat /\ Open = n
      BY <1>1 DEF Open, RunTo
    <3> HIDE DEF n
    <3> QED
      BY <1>1, <3>1
  <2>2. ASSUME NEW s \in DOMAIN object'
        PROVE  s > now - Open \/ \E n \in 1..Len(handed) : \E j \in 1..Len(handed[n]) : handed[n][j] = s
    <3>1. CASE s = now + 1
      BY <2>1, <3>1
    <3>2. CASE s \in DOMAIN object
      BY <3>2 DEF ListsInv, EachSomewhere
    <3> QED
      BY <3>1, <3>2
  <2>3. handed' = handed
    OBVIOUS
  <2> QED
    BY <1>6, <2>2, <2>3 DEF EachSomewhere
<1> QED
  BY <1>5, <1>7, <1>8 DEF ListsInv

\* A new region begins a run, and ends the one before.
LEMMA FoundNew ==
  ASSUME OverrunTypes, ListsInv, NEW g \in Nat, NEW t,
         before # NoScan => g # before.index,
         g \in DOMAIN t, t[g] = TRUE, now' = now + 1,
         before' = [scan |-> now + 1, index |-> g], before' # NoScan,
         IF before = NoScan \/ before.index \notin DOMAIN O!Listed(<<g>>)
         THEN hash' = O!Listed(<<g>>) /\ used' = t /\ UNCHANGED handed
         ELSE O!Finish(O!Listed(<<g>>), t, before.index),
         DOMAIN object' = DOMAIN object \cup {now + 1}
  PROVE  ListsInv'
<1> DEFINE x == O!Listed(<<g>>)
<1>1. /\ now \in Nat
      /\ DOMAIN hash = IF before = NoScan THEN {} ELSE {before.index}
  BY DEF ListsInv, OpenRun, OverrunTypes
<1>2. /\ DOMAIN x = DOMAIN hash \cup {g} /\ x[g] = <<now + 1>>
      /\ \A i \in DOMAIN hash : i # g => x[i] = hash[i]
  <2>1. g \notin DOMAIN hash
    BY <1>1
  <2> QED
    BY <1>1, <2>1, OpenLists, ListedOne
<1> HIDE DEF x
<1>3. /\ DOMAIN hash' = {g} /\ hash'[g] = <<now + 1>>
      /\ g \in DOMAIN used' /\ used'[g] = TRUE
      /\ \/ before = NoScan /\ handed' = handed
         \/ before # NoScan /\ handed' = Append(handed, hash[before.index])
  <2>1. CASE before = NoScan
    BY <1>1, <1>2, <2>1 DEF x
  <2>2. CASE before # NoScan
    <3> DEFINE b == before.index
    <3>1. DOMAIN hash = {b} /\ b # g
      BY <1>1, <2>2
    <3>2. O!Finish(x, t, b)
      BY <1>2, <2>2, <3>1 DEF x
    <3>3. /\ hash' = [i \in DOMAIN x \ {b} |-> x[i]]
          /\ handed' = Append(handed, x[b])
          /\ used' \in {t, [t EXCEPT ![b] = FALSE]}
      BY <3>2 DEF O!Finish
    <3>4. x[b] = hash[b] /\ DOMAIN x \ {b} = {g}
      BY <1>2, <3>1
    <3>5. DOMAIN hash' = {g} /\ hash'[g] = <<now + 1>>
      BY <1>2, <3>3, <3>4
    <3>6. g \in DOMAIN used' /\ used'[g] = TRUE
      BY <3>1, <3>3
    <3> QED
      BY <2>2, <3>3, <3>4, <3>5, <3>6
  <2> QED
    BY <2>1, <2>2
<1>4. /\ handed' \in Seq(Seq(Nat))
      /\ \A n \in 1..Len(handed') : \E e \in 1..now : RunTo(handed'[n], e)
      /\ HandedApart'
      /\ \A s \in DOMAIN object :
           \E n \in 1..Len(handed') : \E j \in 1..Len(handed'[n]) : handed'[n][j] = s
  BY <1>3, HandedAfter DEF HandedApart
<1>5. before'.index = g /\ before' \in [scan : Nat, index : Nat]
  BY <1>1
<1>6. OpenRun' /\ Open' = 1
  <2>1. RunTo(<<now + 1>>, now + 1) /\ Len(<<now + 1>>) = 1
    BY <1>1, RunBegins
  <2> QED
    BY <1>3, <1>5, <2>1 DEF OpenRun, Open
<1>7. now' - Open' = now
  BY <1>1, <1>6
<1>8. HandedRuns'
  BY <1>4, <1>7 DEF HandedRuns
<1>9. EachSomewhere'
  <2>1. now + 1 > now
    BY <1>1
  <2>2. ASSUME NEW s \in DOMAIN object'
        PROVE  s > now \/ \E n \in 1..Len(handed') : \E j \in 1..Len(handed'[n]) : handed'[n][j] = s
    BY <1>4, <2>1
  <2> QED
    BY <1>7, <2>2 DEF EachSomewhere
<1> QED
  BY <1>4, <1>6, <1>8, <1>9 DEF ListsInv

-----------------------------------------------------------------------------
(* The overruns as a whole.                                                 *)

\* The entry of an index that is returned.
LEMMA IndexReturned ==
  ASSUME NEW t, IndexTable(t), NEW b, NEW u \in {t, [t EXCEPT ![b] = FALSE]}
  PROVE  IndexTable(u) /\ DOMAIN u = DOMAIN t
<1>1. CASE u = t
  BY <1>1
<1>2. CASE u = [t EXCEPT ![b] = FALSE]
  <2>1. DOMAIN u = DOMAIN t /\ \A i \in DOMAIN t : u[i] = FALSE \/ u[i] = t[i]
    BY <1>2
  <2>2. \A i \in DOMAIN t : u[i] \in BOOLEAN
    BY <2>1 DEF IndexTable
  <2> QED
    BY <2>1, <2>2 DEF IndexTable
<1> QED
  BY <1>1, <1>2

LEMMA ListsScan ==
  ASSUME O!OverrunAssumption, OverrunInv, NEW scan \in Scans, O!IsOverrun(scan), ~several'
  PROVE  IndexTable(used') /\ (Lasting' => ListsInv')
<1> DEFINE d == O!Detect(scan, Hand)
           a == Again(d)
<1>0. OverrunTypes /\ (~several => IndexTable(used)) /\ (Lasting => ListsInv)
  BY DEF OverrunInv
<1>1. scan \in Seq(BOOLEAN)
  BY DEF O!OverrunAssumption
<1>2. d.listed \in Nat
  BY <1>0, <1>1, HandIs, DetectCounts
<1>3. PICK calls \in O!GetHashIndexes(Wanted(a, d)) :
         LET indexes == Indexes(a, calls)
             lists   == O!Listed(indexes)
         IN /\ IF before = NoScan \/ a \/ before.index \notin DOMAIN lists
               THEN hash' = lists /\ used' = calls[2] /\ UNCHANGED <<handed, writing>>
               ELSE O!Finish(lists, calls[2], before.index)
            /\ IF d.listed = 0
               THEN before' = NoScan /\ pool' = Append(Rest, d.object) /\ UNCHANGED object
               ELSE /\ before' = [scan |-> now + 1, index |-> O!Last(indexes)]
                    /\ object' = [s \in DOMAIN object \cup {now + 1} |->
                                    IF s = now + 1 THEN d.object ELSE object[s]]
                    /\ pool' = Rest
            /\ several' = (several \/ d.listed > 1)
            /\ now' = now + 1 /\ now < MaxObjects
  BY ScanIs
<1>a. a \in BOOLEAN /\ (a => d.listed > 0 /\ before # NoScan)
  BY DEF Again
<1> HIDE DEF d, a
<1>4. ~several /\ (d.listed = 0 \/ d.listed = 1)
  <2>1. several' = (several \/ d.listed > 1)
    BY <1>3, Zenon
  <2>2. ~several /\ ~(d.listed > 1)
    BY <2>1
  <2> QED
    BY <1>2, <2>2
<1>t. IndexTable(used)
  BY <1>0, <1>4
<1>u. used' = calls[2] \/ used' \in {calls[2], [calls[2] EXCEPT ![before.index] = FALSE]}
  BY <1>3, Zenon DEF O!Finish
<1>v. ASSUME IndexTable(calls[2]), DOMAIN used \subseteq DOMAIN calls[2], Lasting'
      PROVE  ListsInv /\ Cardinality(DOMAIN calls[2]) <= Grow
  <2>1. IndexTable(used') /\ DOMAIN used' = DOMAIN calls[2]
    BY <1>u, <1>v, IndexReturned
  <2>2. Cardinality(DOMAIN calls[2]) <= Grow
    BY <1>v, <2>1 DEF Lasting
  <2>3. /\ Cardinality(DOMAIN used) <= Cardinality(DOMAIN calls[2])
        /\ Cardinality(DOMAIN used) \in Nat /\ Cardinality(DOMAIN calls[2]) \in Nat
    <3>1. IsFiniteSet(DOMAIN used) /\ IsFiniteSet(DOMAIN calls[2])
      BY <1>t, <1>v DEF IndexTable
    <3> QED
      BY <1>v, <3>1, FS_Subset, FS_CardinalityType
  <2>4. Cardinality(DOMAIN used) <= Grow
    <3>1. Grow \in Nat
      BY DEF O!OverrunAssumption
    <3> QED
      BY <2>2, <2>3, <3>1
  <2> QED
    BY <1>0, <1>4, <2>2, <2>4 DEF Lasting
<1>5. CASE d.listed = 0
  <2>1. ~a /\ Wanted(a, d) = 0
    BY <1>a, <1>5 DEF Wanted
  <2>2. calls[1] = <<>> /\ calls[2] = used
    <3>1. calls = << <<>>, used >>
      BY <2>1, CallsNone
    <3> QED
      BY <3>1
  <2>3. Indexes(a, calls) = <<>>
    BY <2>1, <2>2 DEF Indexes
  <2>4. /\ IF before = NoScan \/ before.index \notin DOMAIN O!Listed(<<>>)
           THEN hash' = O!Listed(<<>>) /\ used' = used /\ UNCHANGED handed
           ELSE O!Finish(O!Listed(<<>>), used, before.index)
        /\ before' = NoScan /\ UNCHANGED object /\ now' = now + 1
    BY <1>3, <1>5, <2>1, <2>2, <2>3
  <2>5. IndexTable(used')
    BY <1>t, <1>u, <2>2, IndexReturned
  <2>6. Lasting' => ListsInv'
    <3>1. Lasting' => ListsInv
      BY <1>t, <1>v, <2>2
    <3> QED
      BY <1>0, <2>4, <3>1, NoneFound
  <2> QED
    BY <2>5, <2>6
<1>6. CASE d.listed = 1 /\ a
  <2>1. Wanted(a, d) = 0 /\ before # NoScan
    BY <1>a, <1>6 DEF Wanted
  <2>2. calls[1] = <<>> /\ calls[2] = used
    <3>1. calls = << <<>>, used >>
      BY <2>1, CallsNone
    <3> QED
      BY <3>1
  <2> DEFINE b == before.index
  <2>3. Indexes(a, calls) = <<b>> /\ O!Last(<<b>>) = b
    BY <1>6, <2>2 DEF Indexes, O!Last
  <2>4. /\ hash' = O!Listed(<<b>>) /\ used' = used /\ UNCHANGED handed
        /\ before' = [scan |-> now + 1, index |-> b]
        /\ DOMAIN object' = DOMAIN object \cup {now + 1} /\ now' = now + 1
    <3>1. hash' = O!Listed(Indexes(a, calls)) /\ used' = calls[2] /\ UNCHANGED handed
      BY <1>3, <1>6
    <3>2. /\ before' = [scan |-> now + 1, index |-> O!Last(Indexes(a, calls))]
          /\ object' = [s \in DOMAIN object \cup {now + 1} |->
                          IF s = now + 1 THEN d.object ELSE object[s]]
          /\ now' = now + 1
      <4>1. d.listed # 0
        BY <1>6
      <4> QED
        BY <1>3, <4>1, Zenon
    <3> QED
      BY <2>2, <2>3, <3>1, <3>2
  <2>5. IndexTable(used')
    BY <1>t, <2>4
  <2>6. ASSUME Lasting' PROVE ListsInv'
    <3>1. ListsInv
      BY <1>t, <1>v, <2>2, <2>6
    <3>2. b \in Nat /\ now \in Nat
      BY <1>0, <2>1, <3>1 DEF ListsInv, OpenRun, OverrunTypes
    <3>3. before' # NoScan
      BY <2>4, <3>2 DEF O!OverrunAssumption
    <3> QED
      BY <1>0, <2>1, <2>4, <3>1, <3>3, FoundAgain
  <2> QED
    BY <2>5, <2>6
<1>7. CASE d.listed = 1 /\ ~a
  <2>1. Wanted(a, d) = 1
    BY <1>7 DEF Wanted
  <2>2. PICK x \in O!GetHashIndex(used) : calls[1] = <<x[1]>> /\ calls[2] = x[2]
    BY <2>1, CallsOne
  <2> DEFINE g == x[1]
             t == x[2]
  <2>3. /\ IndexTable(t) /\ DOMAIN used \subseteq DOMAIN t /\ g \in DOMAIN t /\ t[g] = TRUE
        /\ Cardinality(DOMAIN t) <= Grow => \A j \in DOMAIN used : used[j] = TRUE => j # g /\ t[j] = TRUE
    BY <1>t, IndexTaken
  <2>4. Indexes(a, calls) = <<g>> /\ O!Last(<<g>>) = g
    BY <1>7, <2>2 DEF Indexes, O!Last
  <2>5. /\ IF before = NoScan \/ before.index \notin DOMAIN O!Listed(<<g>>)
           THEN hash' = O!Listed(<<g>>) /\ used' = t /\ UNCHANGED handed
           ELSE O!Finish(O!Listed(<<g>>), t, before.index)
        /\ before' = [scan |-> now + 1, index |-> g]
        /\ DOMAIN object' = DOMAIN object \cup {now + 1} /\ now' = now + 1
    BY <1>3, <1>7, <2>2, <2>4
  <2>6. IndexTable(used')
    BY <1>u, <2>2, <2>3, IndexReturned
  <2>7. ASSUME Lasting' PROVE ListsInv'
    <3>1. ListsInv /\ Cardinality(DOMAIN t) <= Grow
      BY <1>v, <2>2, <2>3, <2>7
    <3>2. before # NoScan => g # before.index
      BY <2>3, <3>1 DEF ListsInv, OpenRun
    <3>3. g \in Nat /\ now \in Nat
      BY <1>0, <2>3 DEF IndexTable, OverrunTypes
    <3>4. before' # NoScan
      BY <2>5, <3>3 DEF O!OverrunAssumption
    <3> HIDE DEF g, t
    <3> QED
      BY <1>0, <2>3, <2>5, <3>1, <3>2, <3>3, <3>4, FoundNew
  <2> QED
    BY <2>6, <2>7
<1> QED
  BY <1>4, <1>5, <1>6, <1>7

LEMMA ListsRecorded ==
  ASSUME ListsInv, NEW n \in writing, O!Recorded(n), DOMAIN object' \subseteq DOMAIN object
  PROVE  ListsInv'
<1>1. UNCHANGED <<now, before, hash, used, handed>>
  BY DEF O!Recorded
<1>2. OpenRun' /\ HandedRuns' /\ HandedApart' /\ Open' = Open
  BY <1>1 DEF ListsInv, OpenRun, HandedRuns, HandedApart, Open
<1>3. EachSomewhere'
  BY <1>1, <1>2 DEF ListsInv, EachSomewhere
<1> QED
  BY <1>2, <1>3 DEF ListsInv

LEMMA OverrunInit == O!OverrunAssumption /\ O!Init => OverrunInv
<1> SUFFICES ASSUME O!OverrunAssumption, O!Init PROVE OverrunInv
  OBVIOUS
<1>1. OverrunTypes
  BY OverrunTypesInit
<1>2. now = 0 /\ object = <<>> /\ before = NoScan /\ hash = <<>> /\ used = <<>> /\ handed = <<>>
  BY DEF O!Init
<1>3. IndexTable(used)
  <2>1. DOMAIN used = {}
    BY <1>2
  <2> QED
    BY <2>1, FS_EmptySet DEF IndexTable
<1>4. OpenRun
  BY <1>2 DEF OpenRun
<1>5. HandedRuns /\ HandedApart
  <2>1. handed \in Seq(Seq(Nat)) /\ 1..Len(handed) = {}
    BY <1>2
  <2> QED
    BY <2>1 DEF HandedRuns, HandedApart
<1>6. EachSomewhere
  <2>1. DOMAIN object = {}
    BY <1>2
  <2> QED
    BY <2>1 DEF EachSomewhere
<1> QED
  BY <1>1, <1>3, <1>4, <1>5, <1>6 DEF OverrunInv, ListsInv

LEMMA OverrunStep == O!OverrunAssumption /\ OverrunInv /\ [O!Next]_(O!vars) => OverrunInv'
<1> SUFFICES ASSUME O!OverrunAssumption, OverrunInv, [O!Next]_(O!vars) PROVE OverrunInv'
  OBVIOUS
<1>1. ASSUME NEW scan \in Scans, O!IsOverrun(scan) PROVE OverrunInv'
  <2>1. OverrunTypes'
    BY <1>1, OverrunTypesScan DEF OverrunInv
  <2>2. ~several' => IndexTable(used') /\ (Lasting' => ListsInv')
    BY <1>1, ListsScan
  <2>3. Lasting' => ~several'
    BY DEF Lasting
  <2> QED
    BY <2>1, <2>2, <2>3 DEF OverrunInv
<1>2. ASSUME NEW n \in writing, O!Recorded(n) PROVE OverrunInv'
  <2>1. OverrunTypes' /\ DOMAIN object' \subseteq DOMAIN object
    BY <1>2, OverrunTypesRecorded DEF OverrunInv
  <2>2. UNCHANGED <<used, several>>
    BY <1>2 DEF O!Recorded
  <2>3. ~several' => IndexTable(used')
    BY <2>2 DEF OverrunInv
  <2>4. Lasting' => ListsInv'
    <3>1. Lasting' => ListsInv
      BY <2>2 DEF OverrunInv, Lasting
    <3> QED
      BY <1>2, <2>1, <3>1, ListsRecorded
  <2> QED
    BY <2>1, <2>3, <2>4 DEF OverrunInv
<1>3. CASE UNCHANGED O!vars
  BY <1>3 DEF O!vars, OverrunInv, OverrunTypes, Lasting, ListsInv, OpenRun, HandedRuns, HandedApart,
              EachSomewhere, Open, IndexTable
<1> QED
  BY <1>1, <1>2, <1>3 DEF O!Next

-----------------------------------------------------------------------------
LEMMA OccursOnce ==
  ASSUME NEW lists, NEW s, NEW n \in DOMAIN lists, NEW j \in DOMAIN lists[n],
         lists[n][j] = s,
         \A m \in DOMAIN lists : \A i \in DOMAIN lists[m] : lists[m][i] = s => m = n /\ i = j
  PROVE  O!Occurrences(s, lists) = 1
<1> DEFINE Places == UNION {{i} \X DOMAIN lists[i] : i \in DOMAIN lists}
           There == {o \in Places : lists[o[1]][o[2]] = s}
<1>1. There = {<<n, j>>}
  <2>1. <<n, j>> \in There
    <3>1. <<n, j>> \in {n} \X DOMAIN lists[n]
      OBVIOUS
    <3> QED
      BY <3>1
  <2>2. ASSUME NEW o \in There PROVE o = <<n, j>>
    <3>1. PICK i \in DOMAIN lists : o \in {i} \X DOMAIN lists[i]
      OBVIOUS
    <3>2. o = <<i, o[2]>> /\ o[1] = i /\ o[2] \in DOMAIN lists[i]
      BY <3>1
    <3>3. lists[i][o[2]] = s
      BY <3>2
    <3>4. i = n /\ o[2] = j
      BY <3>2, <3>3
    <3> QED
      BY <3>2, <3>4
  <2> QED
    BY <2>1, <2>2
<1> HIDE DEF There
<1>2. O!Cardinality(There) = 1
  BY <1>1, FS_Singleton, SameCardinality
<1> QED
  BY <1>2 DEF O!Occurrences, There

LEMMA OccursNot ==
  ASSUME NEW lists, NEW s, \A m \in DOMAIN lists : \A i \in DOMAIN lists[m] : lists[m][i] # s
  PROVE  O!Occurrences(s, lists) = 0
<1> DEFINE Places == UNION {{i} \X DOMAIN lists[i] : i \in DOMAIN lists}
           There == {o \in Places : lists[o[1]][o[2]] = s}
<1>1. There = {}
  <2> SUFFICES ASSUME NEW o \in There PROVE FALSE
    OBVIOUS
  <2>1. PICK i \in DOMAIN lists : o \in {i} \X DOMAIN lists[i]
    OBVIOUS
  <2>2. o[1] = i /\ o[2] \in DOMAIN lists[i]
    BY <2>1
  <2>3. lists[i][o[2]] = s
    BY <2>2
  <2> QED
    BY <2>2, <2>3
<1> HIDE DEF There
<1>2. O!Cardinality(There) = 0
  BY <1>1, FS_EmptySet, SameCardinality
<1> QED
  BY <1>2 DEF O!Occurrences, There

LEMMA RegionsFound == O!OverrunAssumption /\ OverrunInv => O!FindsEachGroup
<1> SUFFICES ASSUME O!OverrunAssumption, OverrunInv, NEW scan \in Scans, NEW i \in 0..Len(pool)
             PROVE  O!Detect(scan, IF i = 0 THEN O!NewObject ELSE pool[i]).listed = O!Cardinality(O!Groups(scan))
  BY DEF O!FindsEachGroup
<1> DEFINE obj == IF i = 0 THEN O!NewObject ELSE pool[i]
<1>1. scan \in Seq(BOOLEAN) /\ pool \in Seq(Objects)
  BY DEF O!OverrunAssumption, OverrunInv, OverrunTypes
<1>2. obj \in Objects
  <2>1. CASE i = 0
    BY <2>1, NewObjectIs
  <2>2. CASE i # 0
    <3>1. i \in 1..Len(pool)
      BY <1>1, <2>2
    <3>2. pool[i] \in Objects
      BY <1>1, <3>1, ElementOfSeq
    <3> QED
      BY <2>2, <3>2
  <2> QED
    BY <2>1, <2>2
<1> HIDE DEF obj
<1>3. O!Detect(scan, obj).listed = O!Cardinality(O!Groups(scan))
  BY <1>1, <1>2, DetectCounts, SameCardinality
<1> QED
  BY <1>3 DEF obj

LEMMA ScansListedOnce == O!OverrunAssumption /\ OverrunInv => O!EachScanOnce
<1> SUFFICES ASSUME O!OverrunAssumption, OverrunInv, Lasting
             PROVE  /\ \A s \in DOMAIN object : O!Occurrences(s, handed) + O!Occurrences(s, hash) = 1
                    /\ DOMAIN hash = IF before = NoScan THEN {} ELSE {before.index}
                    /\ \A n \in DOMAIN handed : \A j \in 2..Len(handed[n]) :
                          handed[n][j] = handed[n][j - 1] + 1
  BY SameCardinality DEF O!EachScanOnce, Lasting
<1> DEFINE o == Open
           l == hash[before.index]
           c == Len(handed)
<1>1. OpenRun /\ HandedRuns /\ HandedApart /\ EachSomewhere
  BY DEF OverrunInv, ListsInv
<1>2. now \in Nat /\ MaxObjects \in Nat /\ now <= MaxObjects /\ \A s \in DOMAIN object : s \in 1..now
  BY DEF OverrunInv, OverrunTypes, O!OverrunAssumption
<1>3. DOMAIN hash = IF before = NoScan THEN {} ELSE {before.index}
  BY <1>1 DEF OpenRun
<1>4. handed \in Seq(Seq(Nat)) /\ c \in Nat /\ DOMAIN handed = 1..c
  BY <1>1 DEF HandedRuns
<1>5. /\ o \in 0..now
      /\ before # NoScan => /\ RunTo(l, now) /\ l \in Seq(Nat) /\ Len(l) = o /\ o >= 1
                          /\ DOMAIN l = 1..o /\ \A j \in 1..o : l[j] = now - o + j
  <2>1. CASE before = NoScan
    BY <1>2, <2>1 DEF Open
  <2>2. CASE before # NoScan
    <3>1. l \in Seq(Nat) /\ o = Len(l) /\ Len(l) \in 1..now /\ DOMAIN l = 1..Len(l) /\ RunTo(l, now)
          /\ \A j \in 1..Len(l) : l[j] = now - Len(l) + j
      BY <1>1, <2>2 DEF OpenRun, RunTo, Open
    <3> HIDE DEF l, o
    <3>2. o \in 0..now /\ o >= 1
      BY <1>2, <3>1
    <3> QED
      BY <3>1, <3>2
  <2> QED
    BY <2>1, <2>2
<1>6. \A n \in 1..c : \E h \in 1..(now - o) : RunTo(handed[n], h)
  BY <1>1 DEF HandedRuns
<1>7. \A s \in DOMAIN object : s > now - o \/ \E n \in 1..c : \E j \in 1..Len(handed[n]) : handed[n][j] = s
  BY <1>1 DEF EachSomewhere
<1>8. \A n, m \in 1..c : n < m => \A i \in 1..Len(handed[n]), j \in 1..Len(handed[m]) : handed[n][i] < handed[m][j]
  BY <1>1 DEF HandedApart
<1> HIDE DEF o, l, c
<1>9. ASSUME NEW n \in 1..c
      PROVE  /\ handed[n] \in Seq(Nat) /\ Len(handed[n]) \in 1..now /\ DOMAIN handed[n] = 1..Len(handed[n])
             /\ \A j \in 1..Len(handed[n]) : handed[n][j] <= now - o
             /\ \A i, j \in 1..Len(handed[n]) : handed[n][i] = handed[n][j] => i = j
             /\ \A j \in 2..Len(handed[n]) : handed[n][j] = handed[n][j - 1] + 1
  <2> DEFINE q == handed[n]
             k == Len(q)
  <2>1. PICK h \in 1..(now - o) : RunTo(q, h)
    BY <1>6
  <2> HIDE DEF q
  <2>2. q \in Seq(Nat) /\ k \in 1..h /\ DOMAIN q = 1..k /\ \A j \in 1..k : q[j] = h - k + j
    <3>1. q \in Seq(Nat)
      BY <2>1 DEF RunTo
    <3>2. DOMAIN q = 1..k
      BY <3>1
    <3> QED
      BY <2>1, <3>1, <3>2 DEF RunTo
  <2> HIDE DEF k
  <2>3. h \in Nat /\ h <= now - o /\ k \in 1..now
    BY <1>2, <1>5, <2>2
  <2>4. \A j \in 1..k : q[j] <= now - o
    <3>1. \A j \in 1..k : h - k + j <= now - o
      BY <1>2, <1>5, <2>2, <2>3
    <3> QED
      BY <2>2, <3>1
  <2>5. \A i, j \in 1..k : q[i] = q[j] => i = j
    <3>1. \A i, j \in 1..k : h - k + i = h - k + j => i = j
      BY <2>3
    <3> QED
      BY <2>2, <3>1
  <2>6. \A j \in 2..k : q[j] = q[j - 1] + 1
    <3> SUFFICES ASSUME NEW j \in 2..k PROVE q[j] = q[j - 1] + 1
      OBVIOUS
    <3>1. j \in 1..k /\ j - 1 \in 1..k
      BY <2>3
    <3>2. q[j] = h - k + j /\ q[j - 1] = h - k + (j - 1)
      BY <2>2, <3>1
    <3> QED
      BY <2>3, <3>2
  <2> QED
    BY <2>2, <2>3, <2>4, <2>5, <2>6 DEF k, q
<1>10. ASSUME NEW s \in DOMAIN object PROVE O!Occurrences(s, handed) + O!Occurrences(s, hash) = 1
  <2>1. CASE s > now - o
    <3>1. O!Occurrences(s, handed) = 0
      <4>1. ASSUME NEW m \in 1..c, NEW i \in 1..Len(handed[m]) PROVE handed[m][i] # s
        <5> DEFINE x == handed[m][i]
        <5>1. x <= now - o
          BY <1>9
        <5>2. x # s
          <6> HIDE DEF x
          <6>1. s \in Nat
            BY <1>2
          <6> QED
            BY <1>2, <1>5, <2>1, <5>1, <6>1
        <5> QED
          BY <5>2
      <4> QED
        BY <1>4, <1>9, <4>1, OccursNot
    <3>2. before # NoScan /\ s - (now - o) \in 1..o /\ s \in 1..now
      <4>1. s \in 1..now
        BY <1>2
      <4>2. s - (now - o) \in 1..o /\ o # 0
        BY <1>2, <1>5, <2>1, <4>1
      <4>3. before # NoScan
        BY <4>2 DEF o, Open
      <4> QED
        BY <4>1, <4>2, <4>3
    <3> DEFINE j == s - (now - o)
    <3>3. l[j] = s
      <4>1. now - o + j = s
        BY <1>2, <1>5, <3>2
      <4> QED
        BY <1>5, <3>2, <4>1
    <3>4. j \in 1..MaxObjects
      BY <1>2, <1>5, <3>2
    <3>5. \A i \in 1..o : l[i] = s => i = j
      <4>1. \A i \in 1..o : now - o + i = s => i = j
        BY <1>2, <1>5, <3>2
      <4> QED
        BY <1>5, <3>2, <4>1
    <3> HIDE DEF j
    <3>6. O!Occurrences(s, hash) = 1
      <4>1. DOMAIN hash = {before.index} /\ j \in DOMAIN l
        BY <1>3, <1>5, <3>2 DEF j
      <4>2. \A m \in DOMAIN hash : \A i \in DOMAIN hash[m] : hash[m][i] = s => m = before.index /\ i = j
        BY <1>5, <3>2, <3>5, <4>1 DEF l
      <4> QED
        BY <3>3, <3>4, <4>1, <4>2, OccursOnce DEF l
    <3> QED
      BY <3>1, <3>6
  <2>2. CASE ~(s > now - o)
    <3>1. PICK n \in 1..c : \E j \in 1..Len(handed[n]) : handed[n][j] = s
      BY <1>7, <2>2
    <3>2. PICK j \in 1..Len(handed[n]) : handed[n][j] = s
      BY <3>1
    <3>3. j \in 1..MaxObjects /\ j \in DOMAIN handed[n] /\ n \in DOMAIN handed
      <4> DEFINE k == Len(handed[n])
      <4>1. k \in 1..now /\ j \in 1..k
        BY <1>9
      <4> HIDE DEF k
      <4>2. j \in 1..MaxObjects
        BY <1>2, <4>1
      <4> QED
        BY <1>4, <1>9, <4>2
    <3>4. \A m \in 1..c : \A i \in 1..Len(handed[m]) : handed[m][i] = s => m = n /\ i = j
      <4> SUFFICES ASSUME NEW m \in 1..c, NEW i \in 1..Len(handed[m]), handed[m][i] = s
                   PROVE  m = n /\ i = j
        OBVIOUS
      <4>1. s \in Nat
        BY <1>2
      <4>2. ~(m < n) /\ ~(n < m)
        <5>1. m < n => handed[m][i] < handed[n][j]
          BY <1>8
        <5>2. n < m => handed[n][j] < handed[m][i]
          BY <1>8
        <5>3. ~(s < s)
          BY <4>1
        <5> QED
          BY <3>2, <5>1, <5>2, <5>3
      <4>3. m = n
        BY <1>4, <4>2
      <4> QED
        BY <1>9, <3>2, <4>3
    <3>5. O!Occurrences(s, handed) = 1
      <4>1. \A m \in DOMAIN handed : \A i \in DOMAIN handed[m] : handed[m][i] = s => m = n /\ i = j
        BY <1>4, <1>9, <3>4
      <4> QED
        BY <3>2, <3>3, <4>1, OccursOnce
    <3>6. O!Occurrences(s, hash) = 0
      <4>1. ASSUME NEW m \in DOMAIN hash, NEW i \in DOMAIN hash[m] PROVE hash[m][i] # s
        <5>1. before # NoScan /\ m = before.index
          BY <1>3
        <5>2. i \in 1..o /\ hash[m][i] = now - o + i
          BY <1>5, <5>1 DEF l
        <5>3. s \in Nat /\ now - o + i # s
          BY <1>2, <1>5, <2>2, <5>2
        <5> QED
          BY <5>2, <5>3
      <4> QED
        BY <4>1, OccursNot
    <3> QED
      BY <3>5, <3>6
  <2> QED
    BY <2>1, <2>2
<1> QED
  BY <1>3, <1>4, <1>9, <1>10

-----------------------------------------------------------------------------
(* The machines side by side.                                               *)

\* A step of all is a step of each of the two, or leaves it alone.
LEMMA StepsOfTwo ==
  ASSUME [MCNext]_vars
  PROVE  [H!Next]_(H!httpVars) /\ [O!Next]_(O!vars)
<1> USE DEF MCNext, vars, NotConsumer, NotCounter, NotCameras, NotDetect, NotStation, NotVideo,
            NotWeb, NotBasler, NotRfid, NotPage
<1>1. [H!Next]_(H!httpVars)
  BY DEF webVars, H!httpVars
<1>2. [O!Next]_(O!vars)
  BY DEF overrunVars, O!vars
<1> QED
  BY <1>1, <1>2

\* A reply is told once, when it ends, and the list holds none that has ended;
\* a cancellation ends the first and the last reply and of two neighbours at least
\* one (HttpClient.cpp:108-249), whatever the number of replies.
THEOREM RepliesAreToldOnce == MCSpec => RepliesAreTold
<1> USE DevicesAssumption
<1>1. MCInit => WebInv
  BY WebInit DEF MCInit, DevicesAssumption
<1>2. WebInv /\ [MCNext]_vars => WebInv' /\ [H!CancelSkipsSingly]_webVars
  <2> SUFFICES ASSUME WebInv, [MCNext]_vars
               PROVE  WebInv' /\ [H!CancelSkipsSingly]_webVars
    OBVIOUS
  <2>1. H!HttpAssumption
    BY DEF DevicesAssumption
  <2>2. [H!Next]_(H!httpVars)
    BY StepsOfTwo
  <2>3. WebInv' /\ (H!CancelSkipsSingly \/ UNCHANGED H!httpVars)
    BY <2>1, <2>2, WebStep
  <2> QED
    BY <2>3 DEF webVars, H!httpVars
<1>3. WebInv => H!EachToldOnce
  BY WebSound
<1>4. H!EachToldOnce' /\ [H!CancelSkipsSingly]_webVars
        => [H!EachToldOnce' /\ H!CancelSkipsSingly]_webVars
  OBVIOUS
<1> QED
  BY <1>1, <1>2, <1>3, <1>4, PTL DEF MCSpec, RepliesAreTold

\* The regions found in a scan are its groups of points, whatever the object that
\* it is given holds; while no scan shows two and the first table of indexes lasts,
\* every scan that is kept is in one list, open or handed over (RadarOverrun.cpp:12-239),
\* for any scans, sizes and differences.
THEOREM RegionsAreSound == MCSpec => [](O!FindsEachGroup /\ O!EachScanOnce)
<1> USE DevicesAssumption
<1>1. O!OverrunAssumption
  BY DEF DevicesAssumption
<1>2. MCInit => OverrunInv
  BY <1>1, OverrunInit DEF MCInit
<1>3. OverrunInv /\ [MCNext]_vars => OverrunInv'
  BY <1>1, StepsOfTwo, OverrunStep
<1>4. OverrunInv => O!FindsEachGroup /\ O!EachScanOnce
  BY <1>1, RegionsFound, ScansListedOnce
<1> QED
  BY <1>2, <1>3, <1>4, PTL DEF MCSpec
=============================================================================
