-------------------------- MODULE ObjectPoolProofs --------------------------
(***************************************************************************)
(* Proofs about ObjectPool.  With any number of threads dropping objects    *)
(* and at most one thread getting them, memory safety and exclusive         *)
(* ownership hold for every heap, every set of threads and every maximum.   *)
(* (With two getters they do not: see the run object_pool_aba.)             *)
(*                                                                          *)
(* The stack is defined by reachability, which is not inductive.  The       *)
(* invariant speaks of the linked nodes instead: those allocated and not    *)
(* in the hands of a thread.  They are closed under next, no two of them    *)
(* have the same successor, and none points to the head.                    *)
(*                                                                          *)
(* With it, a CAS takes exactly the top from the stack or adds exactly one  *)
(* node to it, which gives the implementation of AbstractPool and the       *)
(* counter.                                                                 *)
(***************************************************************************)
EXTENDS ObjectPool, FiniteSetTheorems, TLAPS

OneGetter == \A t, u \in Getters : t = u

Linked == live \ ({node[t] : t \in Pushing} \cup {old[t] : t \in Popping})

GetterLabels == {"popLoad", "popNext", "popCas", "popSub", "take", "make"}

\* Only getters run popNode, and a successful CAS leaves old the popped node.
GettersPop == \A t \in Threads : pc[t] \in GetterLabels => t \in Getters

\* Nodes in the hands of a thread are allocated, and in one thread's hands only.
NodesOwned == /\ \A t \in Pushing : node[t] \in live
              /\ \A t, u \in Pushing : node[t] = node[u] => t = u
              /\ \A t \in Popping : old[t] \in live
              /\ \A t \in Popping, u \in Pushing : old[t] # node[u]

\* The linked nodes form lists that do not merge, and none leads to the head.
LinkedList == /\ Closed(Linked)
              /\ \A m, n \in Linked : next[m] = next[n] /\ next[m] # Null => m = n
              /\ \A n \in Linked : head # Null => next[n] # head

\* What a thread read before its CAS.
LocalReads == /\ \A t \in At("pushCas") : next[node[t]] = old[t]
              /\ \A t \in At("popNext") \cup At("popCas") : old[t] \in Linked
              /\ \A t \in At("popCas") : nxt[t] = next[old[t]]

\* Every allocated node has an object of its own, and so has every thread that
\* is about to push one; none of these is referenced by clients.
ObjectsOwned ==
  /\ \A n \in live : obj[n] \in made \ held
  /\ \A m, n \in live : obj[m] = obj[n] => m = n
  /\ \A t \in At("pushCheck") : arg[t] \in made \ held
  /\ \A t \in At("pushCheck"), n \in live : arg[t] # obj[n]
  /\ \A t, u \in At("pushCheck") : arg[t] = arg[u] => t = u
  /\ held \subseteq made

PoolInv == TypeOK /\ GettersPop /\ NodesOwned /\ LinkedList /\ LocalReads /\ ObjectsOwned
-----------------------------------------------------------------------------
(* Type correctness, for any number of getters.                            *)

\* A thread past the test of line 152 holds an address in old_head.
OldIsNode == \A t \in Threads :
               pc[t] \in {"popNext", "popCas", "popSub", "take"} => old[t] \in Nodes

TypeInv == TypeOK /\ OldIsNode

\* The constructor leaves every field of its type.
LEMMA TypeInit == Init => TypeInv
BY PoolAssumption DEF Init, TypeInv, TypeOK, OldIsNode, Labels

\* Every access to the stack keeps the types.
LEMMA TypeStep == TypeInv /\ [Next]_vars => TypeInv'
<1> SUFFICES ASSUME TypeInv, [Next]_vars PROVE TypeInv'
  OBVIOUS
<1> USE PoolAssumption DEF TypeInv, TypeOK, OldIsNode, Goto, Labels, shared
<1>0. CASE UNCHANGED vars
  BY <1>0 DEF vars
<1>1. ASSUME NEW t \in Threads, GetObject(t) PROVE TypeInv'
  BY <1>1 DEF GetObject
<1>2. ASSUME NEW t \in Threads, PopLoad(t) PROVE TypeInv'
  BY <1>2 DEF PopLoad
<1>3. ASSUME NEW t \in Threads, PopNext(t) PROVE TypeInv'
  BY <1>3 DEF PopNext
<1>4. ASSUME NEW t \in Threads, PopCas(t) PROVE TypeInv'
  BY <1>4 DEF PopCas
<1>5. ASSUME NEW t \in Threads, PopSub(t) PROVE TypeInv'
  BY <1>5 DEF PopSub
<1>6. ASSUME NEW t \in Threads, Take(t) PROVE TypeInv'
  BY <1>6 DEF Take
<1>7. ASSUME NEW t \in Threads, MakeObject(t) PROVE TypeInv'
  BY <1>7 DEF MakeObject
<1>8. ASSUME NEW t \in Threads, DropLast(t) PROVE TypeInv'
  BY <1>8 DEF DropLast
<1>9. ASSUME NEW t \in Threads, PushFull(t) PROVE TypeInv'
  BY <1>9 DEF PushFull
<1>10. ASSUME NEW t \in Threads, PushNew(t) PROVE TypeInv'
  BY <1>10 DEF PushNew
<1>11. ASSUME NEW t \in Threads, PushLoad(t) PROVE TypeInv'
  BY <1>11 DEF PushLoad
<1>12. ASSUME NEW t \in Threads, PushCas(t) PROVE TypeInv'
  BY <1>12 DEF PushCas
<1>13. ASSUME NEW t \in Threads, PushAdd(t) PROVE TypeInv'
  BY <1>13 DEF PushAdd
<1> QED
  BY <1>0, <1>1, <1>2, <1>3, <1>4, <1>5, <1>6, <1>7, <1>8, <1>9, <1>10, <1>11, <1>12, <1>13 DEF Next

\* Every variable keeps its type, whatever the threads do: m_count stays a
\* size_t and every pointer an address or nullptr.
THEOREM PoolTypeCorrect == Spec => []TypeOK
<1>1. TypeInv => TypeOK
  BY DEF TypeInv
<1> QED
  BY TypeInit, TypeStep, <1>1, PTL DEF Spec

-----------------------------------------------------------------------------
(* The invariant is inductive when at most one thread gets objects.   *)

\* The preallocated nodes form the stack, and nobody holds one.
LEMMA PoolInvInit == Init => PoolInv
<1> SUFFICES ASSUME Init PROVE PoolInv
  OBVIOUS
<1>1. TypeOK
  BY TypeInit DEF TypeInv
<1> QED
  BY <1>1, PoolAssumption DEF Init, PoolInv, GettersPop, NodesOwned, LinkedList, LocalReads,
     ObjectsOwned, Closed, Linked, At, Popping, Pushing, GetterLabels

\* With one getter, every access to the stack keeps it a list of parked nodes.
LEMMA PoolInvStep == OneGetter /\ PoolInv /\ [Next]_vars => PoolInv'
<1> SUFFICES ASSUME OneGetter, PoolInv, [Next]_vars PROVE PoolInv'
  OBVIOUS
<1>t. TypeOK'
  <2>1. TypeInv
    BY DEF PoolInv, TypeInv, OldIsNode, NodesOwned, LocalReads, Linked, At, Popping, TypeOK
  <2> QED
    BY <2>1, TypeStep DEF TypeInv
<1> USE PoolAssumption DEF PoolInv, Goto, shared, At, Popping, Pushing, GetterLabels
<1>0. CASE UNCHANGED vars
  BY <1>0, <1>t DEF vars, TypeOK, GettersPop, NodesOwned, LinkedList, LocalReads, ObjectsOwned, Closed, Linked
<1>1. ASSUME NEW t \in Threads, GetObject(t) PROVE PoolInv'
  <2>1. GettersPop'
    BY <1>1 DEF GetObject, TypeOK, GettersPop
  <2>2. NodesOwned'
    BY <1>1 DEF GetObject, TypeOK, NodesOwned, LocalReads, Linked, GettersPop, OneGetter
  <2>3. LinkedList'
    BY <1>1 DEF GetObject, TypeOK, NodesOwned, LocalReads, LinkedList, Linked, Closed
  <2>4. LocalReads'
    BY <1>1 DEF GetObject, TypeOK, NodesOwned, LocalReads, LinkedList, Linked, Closed, GettersPop, OneGetter
  <2>5. ObjectsOwned'
    BY <1>1 DEF GetObject, TypeOK, NodesOwned, ObjectsOwned
  <2> QED
    BY <1>t, <2>1, <2>2, <2>3, <2>4, <2>5
<1>2. ASSUME NEW t \in Threads, PopLoad(t) PROVE PoolInv'
  <2>1. GettersPop'
    BY <1>2 DEF PopLoad, TypeOK, GettersPop
  <2>2. NodesOwned'
    BY <1>2 DEF PopLoad, TypeOK, NodesOwned, LocalReads, Linked, GettersPop, OneGetter
  <2>3. LinkedList'
    BY <1>2 DEF PopLoad, TypeOK, NodesOwned, LocalReads, LinkedList, Linked, Closed
  <2>4. LocalReads'
    BY <1>2 DEF PopLoad, TypeOK, NodesOwned, LocalReads, LinkedList, Linked, Closed, GettersPop, OneGetter
  <2>5. ObjectsOwned'
    BY <1>2 DEF PopLoad, TypeOK, NodesOwned, ObjectsOwned
  <2> QED
    BY <1>t, <2>1, <2>2, <2>3, <2>4, <2>5
<1>3. ASSUME NEW t \in Threads, PopNext(t) PROVE PoolInv'
  <2>1. GettersPop'
    BY <1>3 DEF PopNext, TypeOK, GettersPop
  <2>2. NodesOwned'
    BY <1>3 DEF PopNext, TypeOK, NodesOwned, LocalReads, Linked, GettersPop, OneGetter
  <2>3. LinkedList'
    BY <1>3 DEF PopNext, TypeOK, NodesOwned, LocalReads, LinkedList, Linked, Closed
  <2>4. LocalReads'
    BY <1>3 DEF PopNext, TypeOK, NodesOwned, LocalReads, LinkedList, Linked, Closed, GettersPop, OneGetter
  <2>5. ObjectsOwned'
    BY <1>3 DEF PopNext, TypeOK, NodesOwned, ObjectsOwned
  <2> QED
    BY <1>t, <2>1, <2>2, <2>3, <2>4, <2>5
<1>4. ASSUME NEW t \in Threads, PopCas(t) PROVE PoolInv'
  <2>1. GettersPop'
    BY <1>4 DEF PopCas, TypeOK, GettersPop
  <2>2. NodesOwned'
    BY <1>4 DEF PopCas, TypeOK, NodesOwned, LocalReads, Linked, GettersPop, OneGetter
  <2>3. LinkedList'
    BY <1>4 DEF PopCas, TypeOK, NodesOwned, LocalReads, LinkedList, Linked, Closed
  <2>4. LocalReads'
    BY <1>4 DEF PopCas, TypeOK, NodesOwned, LocalReads, LinkedList, Linked, Closed, GettersPop, OneGetter
  <2>5. ObjectsOwned'
    BY <1>4 DEF PopCas, TypeOK, NodesOwned, ObjectsOwned
  <2> QED
    BY <1>t, <2>1, <2>2, <2>3, <2>4, <2>5
<1>5. ASSUME NEW t \in Threads, PopSub(t) PROVE PoolInv'
  <2>1. GettersPop'
    BY <1>5 DEF PopSub, TypeOK, GettersPop
  <2>2. NodesOwned'
    BY <1>5 DEF PopSub, TypeOK, NodesOwned, LocalReads, Linked, GettersPop, OneGetter
  <2>3. LinkedList'
    BY <1>5 DEF PopSub, TypeOK, NodesOwned, LocalReads, LinkedList, Linked, Closed
  <2>4. LocalReads'
    BY <1>5 DEF PopSub, TypeOK, NodesOwned, LocalReads, LinkedList, Linked, Closed, GettersPop, OneGetter
  <2>5. ObjectsOwned'
    BY <1>5 DEF PopSub, TypeOK, NodesOwned, ObjectsOwned
  <2> QED
    BY <1>t, <2>1, <2>2, <2>3, <2>4, <2>5
<1>6. ASSUME NEW t \in Threads, Take(t) PROVE PoolInv'
  <2>1. GettersPop'
    BY <1>6 DEF Take, TypeOK, GettersPop
  <2>2. NodesOwned'
    BY <1>6 DEF Take, TypeOK, NodesOwned, LocalReads, Linked, GettersPop, OneGetter
  <2>3. LinkedList'
    BY <1>6 DEF Take, TypeOK, NodesOwned, LocalReads, LinkedList, Linked, Closed
  <2>4. LocalReads'
    BY <1>6 DEF Take, TypeOK, NodesOwned, LocalReads, LinkedList, Linked, Closed, GettersPop, OneGetter
  <2>5. ObjectsOwned'
    BY <1>6 DEF Take, TypeOK, NodesOwned, ObjectsOwned
  <2> QED
    BY <1>t, <2>1, <2>2, <2>3, <2>4, <2>5
<1>7. ASSUME NEW t \in Threads, MakeObject(t) PROVE PoolInv'
  <2>1. GettersPop'
    BY <1>7 DEF MakeObject, TypeOK, GettersPop
  <2>2. NodesOwned'
    BY <1>7 DEF MakeObject, TypeOK, NodesOwned, LocalReads, Linked, GettersPop, OneGetter
  <2>3. LinkedList'
    BY <1>7 DEF MakeObject, TypeOK, NodesOwned, LocalReads, LinkedList, Linked, Closed
  <2>4. LocalReads'
    BY <1>7 DEF MakeObject, TypeOK, NodesOwned, LocalReads, LinkedList, Linked, Closed, GettersPop, OneGetter
  <2>5. ObjectsOwned'
    BY <1>7 DEF MakeObject, TypeOK, NodesOwned, ObjectsOwned
  <2> QED
    BY <1>t, <2>1, <2>2, <2>3, <2>4, <2>5
<1>8. ASSUME NEW t \in Threads, DropLast(t) PROVE PoolInv'
  <2>1. GettersPop'
    BY <1>8 DEF DropLast, TypeOK, GettersPop
  <2>2. NodesOwned'
    BY <1>8 DEF DropLast, TypeOK, NodesOwned, LocalReads, Linked, GettersPop, OneGetter
  <2>3. LinkedList'
    BY <1>8 DEF DropLast, TypeOK, NodesOwned, LocalReads, LinkedList, Linked, Closed
  <2>4. LocalReads'
    BY <1>8 DEF DropLast, TypeOK, NodesOwned, LocalReads, LinkedList, Linked, Closed, GettersPop, OneGetter
  <2>5. ObjectsOwned'
    BY <1>8 DEF DropLast, TypeOK, NodesOwned, ObjectsOwned
  <2> QED
    BY <1>t, <2>1, <2>2, <2>3, <2>4, <2>5
<1>9. ASSUME NEW t \in Threads, PushFull(t) PROVE PoolInv'
  <2>1. GettersPop'
    BY <1>9 DEF PushFull, TypeOK, GettersPop
  <2>2. NodesOwned'
    BY <1>9 DEF PushFull, TypeOK, NodesOwned, LocalReads, Linked, GettersPop, OneGetter
  <2>3. LinkedList'
    BY <1>9 DEF PushFull, TypeOK, NodesOwned, LocalReads, LinkedList, Linked, Closed
  <2>4. LocalReads'
    BY <1>9 DEF PushFull, TypeOK, NodesOwned, LocalReads, LinkedList, Linked, Closed, GettersPop, OneGetter
  <2>5. ObjectsOwned'
    BY <1>9 DEF PushFull, TypeOK, NodesOwned, ObjectsOwned
  <2> QED
    BY <1>t, <2>1, <2>2, <2>3, <2>4, <2>5
<1>10. ASSUME NEW t \in Threads, PushNew(t) PROVE PoolInv'
  <2>1. GettersPop'
    BY <1>10 DEF PushNew, TypeOK, GettersPop
  <2>2. NodesOwned'
    BY <1>10 DEF PushNew, TypeOK, NodesOwned, LocalReads, Linked, GettersPop, OneGetter
  <2>3. LinkedList'
    BY <1>10 DEF PushNew, TypeOK, NodesOwned, LocalReads, LinkedList, Linked, Closed
  <2>4. LocalReads'
    BY <1>10 DEF PushNew, TypeOK, NodesOwned, LocalReads, LinkedList, Linked, Closed, GettersPop, OneGetter
  <2>5. ObjectsOwned'
    BY <1>10 DEF PushNew, TypeOK, NodesOwned, ObjectsOwned
  <2> QED
    BY <1>t, <2>1, <2>2, <2>3, <2>4, <2>5
<1>11. ASSUME NEW t \in Threads, PushLoad(t) PROVE PoolInv'
  <2>1. GettersPop'
    BY <1>11 DEF PushLoad, TypeOK, GettersPop
  <2>2. NodesOwned'
    BY <1>11 DEF PushLoad, TypeOK, NodesOwned, LocalReads, Linked, GettersPop, OneGetter
  <2>3. LinkedList'
    <3>1. Linked' = Linked
      BY <1>11 DEF PushLoad, TypeOK, Linked
    <3>2. \A n \in Linked : n # node[t] /\ n \in Nodes
      BY <1>11 DEF PushLoad, Linked, TypeOK
    <3>3. head' = head /\ \A n \in Linked : next'[n] = next[n]
      BY <1>11, <3>2 DEF PushLoad, TypeOK
    <3> QED
      BY <3>1, <3>3 DEF LinkedList, Closed
  <2>4. LocalReads'
    BY <1>11 DEF PushLoad, TypeOK, NodesOwned, LocalReads, LinkedList, Linked, Closed, GettersPop, OneGetter
  <2>5. ObjectsOwned'
    BY <1>11 DEF PushLoad, TypeOK, NodesOwned, ObjectsOwned
  <2> QED
    BY <1>t, <2>1, <2>2, <2>3, <2>4, <2>5
<1>12. ASSUME NEW t \in Threads, PushCas(t) PROVE PoolInv'
  <2>1. GettersPop'
    BY <1>12 DEF PushCas, TypeOK, GettersPop
  <2>2. NodesOwned'
    BY <1>12 DEF PushCas, TypeOK, NodesOwned, LocalReads, Linked, GettersPop, OneGetter
  <2>3. LinkedList'
    BY <1>12 DEF PushCas, TypeOK, NodesOwned, LocalReads, LinkedList, Linked, Closed
  <2>4. LocalReads'
    BY <1>12 DEF PushCas, TypeOK, NodesOwned, LocalReads, LinkedList, Linked, Closed, GettersPop, OneGetter
  <2>5. ObjectsOwned'
    BY <1>12 DEF PushCas, TypeOK, NodesOwned, ObjectsOwned
  <2> QED
    BY <1>t, <2>1, <2>2, <2>3, <2>4, <2>5
<1>13. ASSUME NEW t \in Threads, PushAdd(t) PROVE PoolInv'
  <2>1. GettersPop'
    BY <1>13 DEF PushAdd, TypeOK, GettersPop
  <2>2. NodesOwned'
    BY <1>13 DEF PushAdd, TypeOK, NodesOwned, LocalReads, Linked, GettersPop, OneGetter
  <2>3. LinkedList'
    BY <1>13 DEF PushAdd, TypeOK, NodesOwned, LocalReads, LinkedList, Linked, Closed
  <2>4. LocalReads'
    BY <1>13 DEF PushAdd, TypeOK, NodesOwned, LocalReads, LinkedList, Linked, Closed, GettersPop, OneGetter
  <2>5. ObjectsOwned'
    BY <1>13 DEF PushAdd, TypeOK, NodesOwned, ObjectsOwned
  <2> QED
    BY <1>t, <2>1, <2>2, <2>3, <2>4, <2>5
<1> QED
  BY <1>0, <1>1, <1>2, <1>3, <1>4, <1>5, <1>6, <1>7, <1>8, <1>9, <1>10, <1>11, <1>12, <1>13 DEF Next

-----------------------------------------------------------------------------
(* What the invariant gives.                                               *)

\* Linked contains the head and is closed under next, so it contains the stack.
LEMMA StackLinked == TypeOK /\ LinkedList => Stack \subseteq Linked
<1> SUFFICES ASSUME TypeOK, LinkedList, NEW n \in Stack PROVE n \in Linked
  OBVIOUS
<1>1. Linked \in SUBSET Nodes /\ Closed(Linked)
  BY DEF TypeOK, Linked, LinkedList
<1> QED
  BY <1>1 DEF Stack

\* The nodes a thread still reads are alive.
LEMMA InvSafe == PoolInv => NoUseAfterFree
BY StackLinked DEF PoolInv, NoUseAfterFree, NodesOwned, LocalReads, Linked

\* The stack, the getter and the droppers hold different objects.
LEMMA InvSingleOwner == OneGetter /\ PoolInv => SingleOwner
<1> SUFFICES ASSUME OneGetter, PoolInv PROVE SingleOwner
  OBVIOUS
<1> USE StackLinked DEF PoolInv, ObjectsOwned
<1>1. Stack \subseteq live
  BY DEF Linked
<1>2. \A m, n \in Stack : obj[m] = obj[n] => m = n
  BY <1>1
<1>3. Parked \cap held = {}
  BY <1>1 DEF Parked
<1>4. \A t \in Popping : old[t] \in live \ Stack
  BY DEF NodesOwned, Linked
<1>5. \A t \in Pushing : node[t] \in live \ Stack
  BY DEF NodesOwned, Linked
<1>6. InTransit \cap (Parked \cup held) = {}
  BY <1>1, <1>4, <1>5 DEF Parked, InTransit
<1>7. \A t, u \in Pushing : obj[node[t]] = obj[node[u]] => t = u
  BY <1>5 DEF NodesOwned
<1> QED
  BY <1>2, <1>3, <1>6, <1>7 DEF SingleOwner

\* With one thread getting objects, whatever the other threads drop and in
\* whatever order, popNode never dereferences a deleted node.
THEOREM PoolNoUseAfterFree == ASSUME OneGetter PROVE Spec => []NoUseAfterFree
<1>1. OneGetter
  OBVIOUS
<1>2. PoolInv /\ [Next]_vars => PoolInv'
  BY <1>1, PoolInvStep
<1> QED
  BY PoolInvInit, <1>2, InvSafe, PTL DEF Spec

\* With one thread getting objects, no object has two owners: getObject hands
\* out only objects that nobody references, and none is parked twice.
THEOREM PoolSingleOwner == ASSUME OneGetter PROVE Spec => []SingleOwner
<1>1. PoolInv /\ [Next]_vars => PoolInv'
  BY PoolInvStep
<1>2. PoolInv => SingleOwner
  BY InvSingleOwner
<1> QED
  BY PoolInvInit, <1>1, <1>2, PTL DEF Spec

-----------------------------------------------------------------------------
(* How the stack changes.  It is the least set that holds the head and is   *)
(* closed under next, for a head h and successors f.                        *)

ClosedAt(h, f, S) == /\ h \in S \cup {Null}
                     /\ \A n \in S : f[n] \in S \cup {Null}
StackOf(h, f) == {n \in Nodes : \A S \in SUBSET Nodes : ClosedAt(h, f, S) => n \in S}

Successors == [Nodes -> Nodes \cup {Null}]

\* The stack is one of the sets it is the least of.
LEMMA StackOfClosed ==
  ASSUME NEW h \in Nodes \cup {Null}, NEW f \in Successors
  PROVE  ClosedAt(h, f, StackOf(h, f))
<1>1. h \in StackOf(h, f) \cup {Null}
  BY DEF StackOf, ClosedAt
<1>2. ASSUME NEW n \in StackOf(h, f) PROVE f[n] \in StackOf(h, f) \cup {Null}
  <2>1. n \in Nodes /\ f[n] \in Nodes \cup {Null}
    BY <1>2 DEF StackOf, Successors
  <2>2. \A S \in SUBSET Nodes : ClosedAt(h, f, S) => f[n] \in S \cup {Null}
    BY <1>2 DEF StackOf, ClosedAt
  <2> QED
    BY <2>1, <2>2 DEF StackOf
<1> QED
  BY <1>1, <1>2 DEF ClosedAt

\* Nodes that are not on the stack may get any successor.
LEMMA StackOfKept ==
  ASSUME NEW h \in Nodes \cup {Null}, NEW f \in Successors, NEW g \in Successors,
         \A n \in StackOf(h, f) : g[n] = f[n]
  PROVE  StackOf(h, g) = StackOf(h, f)
<1> DEFINE K == StackOf(h, f)
<1>1. ClosedAt(h, f, K) /\ K \subseteq Nodes
  BY StackOfClosed DEF StackOf
<1>2. ClosedAt(h, g, K)
  BY <1>1 DEF ClosedAt
<1>3. StackOf(h, g) \subseteq K
  BY <1>1, <1>2 DEF StackOf
<1>4. ASSUME NEW S \in SUBSET Nodes, ClosedAt(h, g, S) PROVE K \subseteq S
  <2>1. ClosedAt(h, f, S \cap K) /\ S \cap K \in SUBSET Nodes
    BY <1>1, <1>4 DEF ClosedAt
  <2> QED
    BY <2>1 DEF StackOf
<1>5. K \subseteq StackOf(h, g)
  BY <1>1, <1>4 DEF StackOf
<1> QED
  BY <1>3, <1>5

\* The CAS of pushNode puts one node on top.
LEMMA StackOfPush ==
  ASSUME NEW h \in Nodes \cup {Null}, NEW f \in Successors,
         NEW n \in Nodes, f[n] = h
  PROVE  StackOf(n, f) = StackOf(h, f) \cup {n}
<1> DEFINE K == StackOf(h, f)
<1>1. ClosedAt(h, f, K) /\ K \subseteq Nodes
  BY StackOfClosed DEF StackOf
<1>2. ClosedAt(n, f, K \cup {n}) /\ K \cup {n} \in SUBSET Nodes
  BY <1>1 DEF ClosedAt
<1>3. StackOf(n, f) \subseteq K \cup {n}
  BY <1>2 DEF StackOf
<1>4. ASSUME NEW S \in SUBSET Nodes, ClosedAt(n, f, S) PROVE K \cup {n} \subseteq S
  <2>1. n \in S
    BY <1>4, PoolAssumption DEF ClosedAt
  <2>2. ClosedAt(h, f, S)
    BY <1>4, <2>1 DEF ClosedAt
  <2> QED
    BY <2>1, <2>2 DEF StackOf
<1>5. K \cup {n} \subseteq StackOf(n, f)
  BY <1>1, <1>4 DEF StackOf
<1> QED
  BY <1>3, <1>5

\* The CAS of popNode takes the top, to which no node of the stack leads.
LEMMA StackOfPop ==
  ASSUME NEW h \in Nodes, NEW f \in Successors,
         \A n \in StackOf(h, f) : f[n] # h
  PROVE  StackOf(f[h], f) = StackOf(h, f) \ {h} /\ h \in StackOf(h, f)
<1> DEFINE K == StackOf(h, f)
<1>1. ClosedAt(h, f, K) /\ K \subseteq Nodes
  BY StackOfClosed DEF StackOf
<1>2. h \in K
  BY <1>1, PoolAssumption DEF ClosedAt
<1>3. ClosedAt(f[h], f, K \ {h}) /\ K \ {h} \in SUBSET Nodes
  BY <1>1, <1>2 DEF ClosedAt
<1>4. StackOf(f[h], f) \subseteq K \ {h}
  BY <1>3 DEF StackOf
<1>5. ASSUME NEW S \in SUBSET Nodes, ClosedAt(f[h], f, S) PROVE K \ {h} \subseteq S
  <2>1. ClosedAt(h, f, S \cup {h}) /\ S \cup {h} \in SUBSET Nodes
    BY <1>5 DEF ClosedAt
  <2> QED
    BY <2>1 DEF StackOf
<1>6. K \ {h} \subseteq StackOf(f[h], f)
  BY <1>1, <1>5 DEF StackOf
<1> QED
  BY <1>2, <1>4, <1>6

\* Stack is that set for the head and the successors of the moment.
LEMMA StackIs == Stack = StackOf(head, next) /\ Stack' = StackOf(head', next')
BY DEF Stack, StackOf, Closed, ClosedAt

\* A step that changes neither the head nor a node of the stack.
LEMMA StackKept ==
  ASSUME TypeOK, TypeOK', head' = head, \A n \in Stack : next'[n] = next[n]
  PROVE  Stack' = Stack
BY StackIs, StackOfKept DEF TypeOK, Successors

\* Threads move the head by a successful CAS only, and write the successor of
\* nodes of their own only.
LEMMA StackSame ==
  ASSUME PoolInv, TypeOK', NEW t \in Threads,
         \/ GetObject(t) \/ PopLoad(t) \/ PopNext(t) \/ PopSub(t) \/ Take(t) \/ MakeObject(t)
         \/ DropLast(t) \/ PushFull(t) \/ PushNew(t) \/ PushLoad(t) \/ PushAdd(t)
  PROVE  Stack' = Stack
<1>1. Stack \subseteq Linked /\ Stack \subseteq live
  BY StackLinked DEF PoolInv, Linked
<1>2. head' = head
  BY DEF GetObject, PopLoad, PopNext, PopSub, Take, MakeObject, DropLast, PushFull, PushNew, PushLoad,
         PushAdd, shared
<1>3. CASE UNCHANGED next
  BY <1>2, <1>3, StackKept DEF PoolInv
<1>4. CASE PushNew(t)
  BY <1>1, <1>2, <1>4, StackKept DEF PoolInv, TypeOK, PushNew
<1>5. CASE PushLoad(t)
  BY <1>1, <1>2, <1>5, StackKept DEF PoolInv, TypeOK, PushLoad, Linked, Pushing, At
<1> QED
  BY <1>3, <1>4, <1>5 DEF GetObject, PopLoad, PopNext, PopSub, Take, MakeObject, DropLast, PushFull,
         PushAdd, shared

\* popNode's CAS fails, or takes the top.
LEMMA StackPop ==
  ASSUME PoolInv, TypeOK', NEW t \in Threads, PopCas(t)
  PROVE  \/ Stack' = Stack /\ pc' = [pc EXCEPT ![t] = "popLoad"]
         \/ /\ Stack' = Stack \ {head} /\ head \in Stack /\ head = old[t]
            /\ pc' = [pc EXCEPT ![t] = "popSub"]
<1>1. CASE head' = head /\ pc' = [pc EXCEPT ![t] = "popLoad"]
  BY <1>1, StackKept DEF PopCas, PoolInv
<1>2. CASE head = old[t] /\ head' = nxt[t] /\ pc' = [pc EXCEPT ![t] = "popSub"]
  <2>1. head \in Linked /\ head \in Nodes /\ head' = next[head] /\ next' = next
    BY <1>2 DEF PoolInv, LocalReads, Linked, TypeOK, PopCas, At
  <2>2. \A n \in Stack : next[n] # head
    BY <2>1, StackLinked, PoolAssumption DEF PoolInv, LinkedList
  <2> QED
    BY <1>2, <2>1, <2>2, StackIs, StackOfPop DEF PoolInv, TypeOK, Successors
<1> QED
  BY <1>1, <1>2 DEF PopCas, Goto

\* pushNode's CAS fails, or puts its node on top.
LEMMA StackPush ==
  ASSUME PoolInv, TypeOK', NEW t \in Threads, PushCas(t)
  PROVE  \/ Stack' = Stack /\ pc' = [pc EXCEPT ![t] = "pushLoad"]
         \/ /\ Stack' = Stack \cup {node[t]} /\ node[t] \in live \ Stack
            /\ pc' = [pc EXCEPT ![t] = "pushAdd"]
<1>1. CASE head' = head /\ pc' = [pc EXCEPT ![t] = "pushLoad"]
  BY <1>1, StackKept DEF PushCas, PoolInv
<1>2. CASE head = old[t] /\ head' = node[t] /\ pc' = [pc EXCEPT ![t] = "pushAdd"]
  <2>1. node[t] \in Nodes /\ node[t] \in live \ Linked /\ next[node[t]] = head /\ next' = next
    BY <1>2 DEF PoolInv, LocalReads, NodesOwned, Linked, TypeOK, PushCas, Pushing, At
  <2> QED
    BY <1>2, <2>1, StackIs, StackLinked, StackOfPush DEF PoolInv, TypeOK, Successors
<1> QED
  BY <1>1, <1>2 DEF PushCas, Goto

-----------------------------------------------------------------------------
(* With one thread getting objects the pool implements AbstractPool: the    *)
(* CASes that succeed, the making and the destruction of an object are its  *)
(* steps, and every other access to memory is none.                         *)

Lent   == held \cup InTransit
Silent == Parked' = Parked /\ Lent' = Lent

\* Each step of the pool is one of AbstractPool, or none.
LEMMA PoolStepImplements ==
  OneGetter /\ PoolInv /\ PoolInv' /\ [Next]_vars => [Abstract!ANext]_(Abstract!avars)
<1> SUFFICES ASSUME OneGetter, PoolInv, PoolInv', [Next]_vars
             PROVE  [Abstract!ANext]_(Abstract!avars)
  OBVIOUS
<1>s. Stack \subseteq Linked /\ Linked \subseteq live
  BY StackLinked DEF PoolInv, Linked
<1>q. Silent => UNCHANGED Abstract!avars
  BY DEF Silent, Lent, Abstract!avars
<1> USE PoolAssumption DEF PoolInv, Goto, At, Popping, Pushing, GetterLabels
<1>0. CASE UNCHANGED vars
  BY <1>0 DEF vars, Abstract!avars, Parked, InTransit, Stack, Closed
<1>1. ASSUME NEW t \in Threads, GetObject(t) PROVE Silent
  <2>1. Stack' = Stack
    BY <1>1, StackSame
  <2>2. Parked' = Parked
    BY <1>1, <1>s, <2>1 DEF GetObject, Parked, shared, TypeOK, Linked
  <2>3. Lent' = Lent
    BY <1>1, <1>s DEF GetObject, Lent, InTransit, shared, TypeOK, GettersPop, NodesOwned, ObjectsOwned
  <2> QED
    BY <2>2, <2>3 DEF Silent
<1>2. ASSUME NEW t \in Threads, PopLoad(t) PROVE Silent
  <2>1. Stack' = Stack
    BY <1>2, StackSame
  <2>2. Parked' = Parked
    BY <1>2, <1>s, <2>1 DEF PopLoad, Parked, shared, TypeOK, Linked
  <2>3. Lent' = Lent
    BY <1>2, <1>s DEF PopLoad, Lent, InTransit, shared, TypeOK, GettersPop, NodesOwned, ObjectsOwned
  <2> QED
    BY <2>2, <2>3 DEF Silent
<1>3. ASSUME NEW t \in Threads, PopNext(t) PROVE Silent
  <2>1. Stack' = Stack
    BY <1>3, StackSame
  <2>2. Parked' = Parked
    BY <1>3, <1>s, <2>1 DEF PopNext, Parked, shared, TypeOK, Linked
  <2>3. Lent' = Lent
    BY <1>3, <1>s DEF PopNext, Lent, InTransit, shared, TypeOK, GettersPop, NodesOwned, ObjectsOwned
  <2> QED
    BY <2>2, <2>3 DEF Silent
<1>4. ASSUME NEW t \in Threads, PopCas(t) PROVE [Abstract!ANext]_(Abstract!avars)
  <2>1. pc[t] = "popCas" /\ UNCHANGED <<next, obj, live, count, old, nxt, node, arg, held, made>>
    BY <1>4 DEF PopCas
  <2>2. CASE Stack' = Stack /\ pc' = [pc EXCEPT ![t] = "popLoad"]
    BY <1>q, <2>1, <2>2 DEF Silent, Parked, Lent, InTransit, TypeOK
  <2>3. CASE Stack' = Stack \ {head} /\ head \in Stack /\ head = old[t] /\ pc' = [pc EXCEPT ![t] = "popSub"]
    <3> DEFINE o == obj[head]
    <3>1. o \in Parked /\ Parked' = Parked \ {o}
      BY <2>1, <2>3, <1>s DEF Parked, ObjectsOwned
    <3>2. Lent' = Lent \cup {o}
      BY <2>1, <2>3 DEF Lent, InTransit, TypeOK
    <3>3. o \in Objects
      BY <2>3, <1>s DEF ObjectsOwned, TypeOK
    <3> QED
      BY <3>1, <3>2, <3>3 DEF Lent, Abstract!ANext, Abstract!Reuse
  <2> QED
    BY <1>4, <2>2, <2>3, StackPop
<1>5. ASSUME NEW t \in Threads, PopSub(t) PROVE Silent
  <2>1. Stack' = Stack
    BY <1>5, StackSame
  <2>2. Parked' = Parked
    BY <1>5, <1>s, <2>1 DEF PopSub, Parked, shared, TypeOK, Linked
  <2>3. Lent' = Lent
    BY <1>5, <1>s DEF PopSub, Lent, InTransit, shared, TypeOK, GettersPop, NodesOwned, ObjectsOwned, OneGetter
  <2> QED
    BY <2>2, <2>3 DEF Silent
<1>6. ASSUME NEW t \in Threads, Take(t) PROVE Silent
  <2>1. Stack' = Stack
    BY <1>6, StackSame
  <2>2. Parked' = Parked
    BY <1>6, <1>s, <2>1 DEF Take, Parked, shared, TypeOK, Linked
  <2>3. Lent' = Lent
    BY <1>6, <1>s DEF Take, Lent, InTransit, shared, TypeOK, GettersPop, NodesOwned, ObjectsOwned, OneGetter
  <2> QED
    BY <2>2, <2>3 DEF Silent
<1>7. ASSUME NEW t \in Threads, MakeObject(t) PROVE [Abstract!ANext]_(Abstract!avars)
  <2>1. PICK o \in Objects \ made : made' = made \cup {o} /\ held' = held \cup {o}
    BY <1>7 DEF MakeObject
  <2>2. Stack' = Stack /\ Parked' = Parked
    <3>1. Stack' = Stack
      BY <1>7, StackSame
    <3> QED
      BY <1>7, <3>1 DEF MakeObject, shared, Parked
  <2>3. Lent' = Lent \cup {o}
    BY <1>7, <2>1 DEF MakeObject, shared, Lent, InTransit, TypeOK
  <2>4. Parked \subseteq made
    BY <1>s DEF Parked, ObjectsOwned
  <2>5. Lent \subseteq made
    BY <1>s DEF Lent, InTransit, ObjectsOwned, NodesOwned
  <2> QED
    BY <2>1, <2>2, <2>3, <2>4, <2>5 DEF Lent, Abstract!ANext, Abstract!Make
<1>8. ASSUME NEW t \in Threads, DropLast(t) PROVE Silent
  <2>1. Stack' = Stack
    BY <1>8, StackSame
  <2>2. Parked' = Parked
    BY <1>8, <1>s, <2>1 DEF DropLast, Parked, shared, TypeOK, Linked
  <2>3. Lent' = Lent
    BY <1>8, <1>s DEF DropLast, Lent, InTransit, shared, TypeOK, GettersPop, NodesOwned, ObjectsOwned
  <2> QED
    BY <2>2, <2>3 DEF Silent
<1>9. ASSUME NEW t \in Threads, PushFull(t) PROVE [Abstract!ANext]_(Abstract!avars)
  <2>1. Stack' = Stack /\ Parked' = Parked
    <3>1. Stack' = Stack
      BY <1>9, StackSame
    <3> QED
      BY <1>9, <3>1 DEF PushFull, shared, Parked
  <2>2. arg[t] \in Lent
    BY <1>9 DEF PushFull, Lent, InTransit
  <2>3. Lent' = Lent \ {arg[t]}
    BY <1>9, <1>s DEF PushFull, shared, Lent, InTransit, TypeOK, ObjectsOwned, NodesOwned
  <2> QED
    BY <1>9, <2>1, <2>2, <2>3 DEF PushFull, ObjectsOwned, TypeOK, Lent, Abstract!ANext, Abstract!Destroy
<1>10. ASSUME NEW t \in Threads, PushNew(t) PROVE Silent
  <2>1. Stack' = Stack
    BY <1>10, StackSame
  <2>2. Parked' = Parked
    BY <1>10, <1>s, <2>1 DEF PushNew, Parked, shared, TypeOK, Linked
  <2>3. Lent' = Lent
    BY <1>10, <1>s DEF PushNew, Lent, InTransit, shared, TypeOK, GettersPop, NodesOwned, ObjectsOwned
  <2> QED
    BY <2>2, <2>3 DEF Silent
<1>11. ASSUME NEW t \in Threads, PushLoad(t) PROVE Silent
  <2>1. Stack' = Stack
    BY <1>11, StackSame
  <2>2. Parked' = Parked
    BY <1>11, <1>s, <2>1 DEF PushLoad, Parked, shared, TypeOK, Linked
  <2>3. Lent' = Lent
    BY <1>11, <1>s DEF PushLoad, Lent, InTransit, shared, TypeOK, GettersPop, NodesOwned, ObjectsOwned
  <2> QED
    BY <2>2, <2>3 DEF Silent
<1>12. ASSUME NEW t \in Threads, PushCas(t) PROVE [Abstract!ANext]_(Abstract!avars)
  <2>1. pc[t] = "pushCas" /\ UNCHANGED <<next, obj, live, count, old, nxt, node, arg, held, made>>
    BY <1>12 DEF PushCas
  <2>2. CASE Stack' = Stack /\ pc' = [pc EXCEPT ![t] = "pushLoad"]
    BY <1>q, <2>1, <2>2 DEF Silent, Parked, Lent, InTransit, TypeOK
  <2>3. CASE Stack' = Stack \cup {node[t]} /\ node[t] \in live \ Stack /\ pc' = [pc EXCEPT ![t] = "pushAdd"]
    <3> DEFINE o == obj[node[t]]
    <3>1. Parked' = Parked \cup {o}
      BY <2>1, <2>3 DEF Parked
    <3>2. o \in Lent /\ Lent' = Lent \ {o}
      BY <2>1, <2>3 DEF Lent, InTransit, ObjectsOwned, NodesOwned, TypeOK
    <3>3. o \in Objects
      BY <2>3 DEF ObjectsOwned, TypeOK
    <3> QED
      BY <3>1, <3>2, <3>3 DEF Lent, Abstract!ANext, Abstract!Park
  <2> QED
    BY <1>12, <2>2, <2>3, StackPush
<1>13. ASSUME NEW t \in Threads, PushAdd(t) PROVE Silent
  <2>1. Stack' = Stack
    BY <1>13, StackSame
  <2>2. Parked' = Parked
    BY <1>13, <1>s, <2>1 DEF PushAdd, Parked, shared, TypeOK, Linked
  <2>3. Lent' = Lent
    BY <1>13, <1>s DEF PushAdd, Lent, InTransit, shared, TypeOK, GettersPop, NodesOwned, ObjectsOwned
  <2> QED
    BY <2>2, <2>3 DEF Silent
<1> QED
  BY <1>0, <1>1, <1>2, <1>3, <1>4, <1>5, <1>6, <1>7, <1>8, <1>9, <1>10, <1>11, <1>12, <1>13, <1>q DEF Next

\* With one thread getting objects, the pool is one of objects that are free or
\* lent: whatever the threads interleave, clients see getObject lend a parked
\* object or a new one, and the last drop park it or destroy it.
THEOREM PoolImplements == ASSUME OneGetter PROVE Spec => ImplementsAbstractPool
<1>1. Init => Abstract!AInit
  <2> SUFFICES ASSUME Init PROVE Abstract!AInit
    OBVIOUS
  <2>1. Closed({}) /\ {} \in SUBSET Nodes
    BY DEF Init, Closed
  <2>2. Stack = {}
    BY <2>1 DEF Stack
  <2> QED
    BY <2>2 DEF Init, Abstract!AInit, Parked, InTransit, Popping, Pushing, At
<1>2. PoolInv /\ [Next]_vars => PoolInv'
  BY PoolInvStep
<1>3. PoolInv /\ PoolInv' /\ [Next]_vars => [Abstract!ANext]_(Abstract!avars)
  BY PoolStepImplements
<1> QED
  BY PoolInvInit, <1>1, <1>2, <1>3, PTL DEF Spec, ImplementsAbstractPool, Abstract!ASpec

-----------------------------------------------------------------------------
(* The counter.  m_count is a size_t: there are far fewer threads than it   *)
(* can count, so it wraps only below zero, when a popNode has counted       *)
(* before the pushNode of its node has; a pushNode then finds the pool full.*)

Reserve == /\ IsFiniteSet(Threads) /\ IsFiniteSet(Nodes)
           /\ CountMod > MaxCount + Cardinality(Droppers) + 1

N(label) == Cardinality(At(label))

\* The length of the stack, corrected by the updates under way.
Counted == Cardinality(Stack) + N("popSub") - N("pushAdd")

PushLabels == {"pushCheck", "pushLoad", "pushCas", "pushAdd"}

\* Only droppers run pushNode, the counter is right up to wrapping, and the
\* nodes on the stack and on their way to it are fewer than the maximum and the
\* droppers together: each of these may have passed the test of line 129 alone.
CountInv == /\ \A t \in Threads : pc[t] \in PushLabels => t \in Droppers
            /\ count = IF Counted >= 0 THEN Counted ELSE Counted + CountMod
            /\ Cardinality(Stack) + N("pushLoad") + N("pushCas")
                 <= IF MaxCount = 0 THEN 0 ELSE MaxCount + Cardinality(Droppers) - 1

\* fetch_add, fetch_sub and the wrapped length.
LEMMA ModAdd ==
  ASSUME NEW m \in Nat, NEW c \in 0..(m - 1)
  PROVE  (c + 1) % m = IF c + 1 = m THEN 0 ELSE c + 1
OBVIOUS

LEMMA ModSub ==
  ASSUME NEW m \in Nat, NEW c \in 0..(m - 1)
  PROVE  (c - 1 + m) % m = IF c = 0 THEN m - 1 ELSE c - 1
OBVIOUS

LEMMA ModWrap ==
  ASSUME NEW m \in Nat, NEW v \in Int, v < m, v + m > 0
  PROVE  (v + m) % m = IF v >= 0 THEN v ELSE v + m
OBVIOUS

\* A thread that moves on is counted at its new place and no longer at the old.
LEMMA Moves ==
  TypeOK /\ Reserve =>
    \A t \in Threads, l, k \in Labels : l # k /\ pc[t] = l /\ pc' = [pc EXCEPT ![t] = k] =>
       /\ N(k)' = N(k) + 1 /\ N(l)' = N(l) - 1
       /\ \A j \in Labels : j # k /\ j # l => N(j)' = N(j)
<1> HAVE TypeOK /\ Reserve
<1> TAKE t \in Threads, l, k \in Labels
<1> HAVE l # k /\ pc[t] = l /\ pc' = [pc EXCEPT ![t] = k]
<1>1. At(k)' = At(k) \cup {t} /\ t \notin At(k)
  BY DEF At, TypeOK
<1>2. At(l)' = At(l) \ {t} /\ t \in At(l)
  BY DEF At, TypeOK
<1>3. \A j : j # k /\ j # l => At(j)' = At(j)
  BY DEF At, TypeOK
<1>4. IsFiniteSet(At(k)) /\ IsFiniteSet(At(l))
  BY FS_Subset DEF At, Reserve
<1>5. N(k)' = N(k) + 1
  BY <1>1, <1>4, FS_AddElement DEF N
<1>6. N(l)' = N(l) - 1
  BY <1>2, <1>4, FS_RemoveElement DEF N
<1> QED
  BY <1>3, <1>5, <1>6 DEF N

\* Sets without a common element are counted one after the other.
LEMMA Disjoint ==
  \A S, T : IsFiniteSet(S) /\ IsFiniteSet(T) /\ S \cap T = {}
    => IsFiniteSet(S \cup T) /\ Cardinality(S \cup T) = Cardinality(S) + Cardinality(T)
<1> SUFFICES ASSUME NEW S, NEW T, IsFiniteSet(S), IsFiniteSet(T), S \cap T = {}
             PROVE  IsFiniteSet(S \cup T) /\ Cardinality(S \cup T) = Cardinality(S) + Cardinality(T)
  OBVIOUS
<1>1. /\ IsFiniteSet(S \cup T)
      /\ Cardinality(S \cup T) = Cardinality(S) + Cardinality(T) - Cardinality(S \cap T)
  BY FS_Union
<1>2. Cardinality(S \cap T) = 0 /\ Cardinality(S) \in Nat /\ Cardinality(T) \in Nat
  BY FS_EmptySet, FS_CardinalityType
<1> QED
  BY <1>1, <1>2

\* The numbers are numbers, one thread pops at most, and no more push than drop.
LEMMA Numbers ==
  ASSUME TypeOK, Reserve, OneGetter, GettersPop, CountInv
  PROVE  /\ \A l : N(l) \in Nat
         /\ Cardinality(Stack) \in Nat /\ IsFiniteSet(Stack) /\ Cardinality(Droppers) \in Nat
         /\ N("popSub") <= 1
         /\ N("pushCheck") + N("pushLoad") + N("pushCas") + N("pushAdd") <= Cardinality(Droppers)
<1>1. IsFiniteSet(Droppers) /\ Cardinality(Droppers) \in Nat
  BY FS_Subset, FS_CardinalityType DEF Reserve, Threads
<1>2. \A l : IsFiniteSet(At(l)) /\ N(l) \in Nat
  BY FS_Subset, FS_CardinalityType DEF Reserve, At, N
<1>3. IsFiniteSet(Stack) /\ Cardinality(Stack) \in Nat
  BY FS_Subset, FS_CardinalityType DEF Reserve, Stack
<1>4. N("popSub") <= 1
  <2>1. CASE At("popSub") = {}
    BY <2>1, FS_EmptySet DEF N
  <2>2. ASSUME NEW t \in At("popSub") PROVE N("popSub") <= 1
    <3>1. At("popSub") = {t}
      BY <2>2 DEF At, GettersPop, OneGetter, GetterLabels
    <3> QED
      BY <3>1, FS_Singleton DEF N
  <2> QED
    BY <2>1, <2>2
<1>5. N("pushCheck") + N("pushLoad") + N("pushCas") + N("pushAdd") <= Cardinality(Droppers)
  <2> DEFINE A == At("pushCheck") \cup At("pushLoad")
             B == At("pushCas") \cup At("pushAdd")
  <2>1. At("pushCheck") \cap At("pushLoad") = {} /\ At("pushCas") \cap At("pushAdd") = {}
        /\ A \cap B = {}
    BY DEF At
  <2>2. IsFiniteSet(A) /\ Cardinality(A) = N("pushCheck") + N("pushLoad")
    BY <1>2, <2>1, Disjoint DEF N
  <2>3. IsFiniteSet(B) /\ Cardinality(B) = N("pushCas") + N("pushAdd")
    BY <1>2, <2>1, Disjoint DEF N
  <2>4. IsFiniteSet(A \cup B) /\ Cardinality(A \cup B) = Cardinality(A) + Cardinality(B)
    BY <2>1, <2>2, <2>3, Disjoint
  <2>5. A \cup B \subseteq Droppers
    BY DEF At, CountInv, PushLabels
  <2>6. Cardinality(A \cup B) <= Cardinality(Droppers)
    BY <1>1, <2>5, FS_Subset
  <2> QED
    BY <1>2, <2>2, <2>3, <2>4, <2>6
<1> QED
  BY <1>1, <1>2, <1>3, <1>4, <1>5

\* The numbers stay numbers.
LEMMA NumbersLater ==
  ASSUME Reserve
  PROVE  \A l : N(l)' \in Nat
BY FS_Subset, FS_CardinalityType DEF Reserve, At, N

\* Every update of the counter follows the CAS it counts.
LEMMA CountStep ==
  OneGetter /\ Reserve /\ PoolInv /\ PoolInv' /\ CountInv /\ [Next]_vars => CountInv'
<1> SUFFICES ASSUME OneGetter, Reserve, PoolInv, PoolInv', CountInv, [Next]_vars PROVE CountInv'
  OBVIOUS
<1>n. /\ \A l : N(l) \in Nat
      /\ Cardinality(Stack) \in Nat /\ IsFiniteSet(Stack) /\ Cardinality(Droppers) \in Nat
      /\ N("popSub") <= 1
      /\ N("pushCheck") + N("pushLoad") + N("pushCas") + N("pushAdd") <= Cardinality(Droppers)
  BY Numbers DEF PoolInv
<1>m. \A t \in Threads, l, k \in Labels : l # k /\ pc[t] = l /\ pc' = [pc EXCEPT ![t] = k] =>
         /\ N(k)' = N(k) + 1 /\ N(l)' = N(l) - 1
         /\ \A j \in Labels : j # k /\ j # l => N(j)' = N(j)
  BY Moves DEF PoolInv
<1> USE PoolAssumption DEF PoolInv, Goto, CountInv, PushLabels, Reserve
<1>0. CASE UNCHANGED vars
  BY <1>0 DEF vars, Counted, N, At, Stack, Closed
<1>1. ASSUME NEW t \in Threads, GetObject(t) PROVE CountInv'
  <2>1. Stack' = Stack /\ pc[t] = "idle" /\ pc' = [pc EXCEPT ![t] = "popLoad"]
    BY <1>1, StackSame DEF GetObject
  <2>2. N("popLoad")' = N("popLoad") + 1 /\ N("idle")' = N("idle") - 1
        /\ \A j \in Labels : j # "popLoad" /\ j # "idle" => N(j)' = N(j)
    BY <2>1, <1>m DEF Labels
  <2>3. CountInv!1'
    BY <1>1, <2>1 DEF GetObject, TypeOK
  <2> QED
    BY <1>1, <1>n, <2>1, <2>2, <2>3 DEF GetObject, Counted, shared, TypeOK, Labels
<1>2. ASSUME NEW t \in Threads, PopLoad(t) PROVE CountInv'
  <2>1. PICK k \in {"make", "popNext"} : pc' = [pc EXCEPT ![t] = k]
    BY <1>2 DEF PopLoad
  <2>2. Stack' = Stack /\ pc[t] = "popLoad"
    BY <1>2, StackSame DEF PopLoad
  <2>3. \A j \in Labels : j # k /\ j # "popLoad" => N(j)' = N(j)
    BY <2>1, <2>2, <1>m DEF Labels
  <2>4. CountInv!1'
    BY <1>2, <2>1 DEF PopLoad, TypeOK
  <2> QED
    BY <1>2, <1>n, <2>1, <2>2, <2>3, <2>4 DEF PopLoad, Counted, shared, TypeOK, Labels
<1>3. ASSUME NEW t \in Threads, PopNext(t) PROVE CountInv'
  <2>1. Stack' = Stack /\ pc[t] = "popNext" /\ pc' = [pc EXCEPT ![t] = "popCas"]
    BY <1>3, StackSame DEF PopNext
  <2>2. N("popCas")' = N("popCas") + 1 /\ N("popNext")' = N("popNext") - 1
        /\ \A j \in Labels : j # "popCas" /\ j # "popNext" => N(j)' = N(j)
    BY <2>1, <1>m DEF Labels
  <2>3. CountInv!1'
    BY <1>3, <2>1 DEF PopNext, TypeOK
  <2> QED
    BY <1>3, <1>n, <2>1, <2>2, <2>3 DEF PopNext, Counted, shared, TypeOK, Labels
<1>4. ASSUME NEW t \in Threads, PopCas(t) PROVE CountInv'
  <2>1. pc[t] = "popCas" /\ count' = count
    BY <1>4 DEF PopCas
  <2>2. CASE Stack' = Stack /\ pc' = [pc EXCEPT ![t] = "popLoad"]
    <3>1. \A j \in Labels : j # "popLoad" /\ j # "popCas" => N(j)' = N(j)
      BY <2>1, <2>2, <1>m DEF Labels
    <3> QED
      BY <1>n, <2>1, <2>2, <3>1 DEF Counted, TypeOK, Labels
  <2>3. CASE Stack' = Stack \ {head} /\ head \in Stack /\ pc' = [pc EXCEPT ![t] = "popSub"]
    <3>1. N("popSub")' = N("popSub") + 1 /\ \A j \in Labels : j # "popSub" /\ j # "popCas" => N(j)' = N(j)
      BY <2>1, <2>3, <1>m DEF Labels
    <3>2. Cardinality(Stack') = Cardinality(Stack) - 1
      BY <1>n, <2>3, FS_RemoveElement
    <3> QED
      BY <1>n, <2>1, <2>3, <3>1, <3>2 DEF Counted, TypeOK, Labels
  <2> QED
    BY <1>4, <2>2, <2>3, StackPop
<1>5. ASSUME NEW t \in Threads, PopSub(t) PROVE CountInv'
  <2>1. Stack' = Stack /\ pc[t] = "popSub" /\ pc' = [pc EXCEPT ![t] = "take"]
    BY <1>5, StackSame DEF PopSub
  <2>2. N("popSub")' = N("popSub") - 1 /\ \A j \in Labels : j # "take" /\ j # "popSub" => N(j)' = N(j)
    BY <2>1, <1>m DEF Labels
  <2>3. count' = IF count = 0 THEN CountMod - 1 ELSE count - 1
    BY <1>5, ModSub DEF PopSub, TypeOK
  <2>4. CountInv!1'
    BY <1>5, <2>1 DEF PopSub, TypeOK
  <2>5. \A j : N(j)' \in Nat
    BY NumbersLater
  <2> QED
    BY <1>n, <2>1, <2>2, <2>3, <2>4, <2>5 DEF Counted, TypeOK, Labels
<1>6. ASSUME NEW t \in Threads, Take(t) PROVE CountInv'
  <2>1. Stack' = Stack /\ pc[t] = "take" /\ pc' = [pc EXCEPT ![t] = "idle"]
    BY <1>6, StackSame DEF Take
  <2>2. N("idle")' = N("idle") + 1 /\ N("take")' = N("take") - 1
        /\ \A j \in Labels : j # "idle" /\ j # "take" => N(j)' = N(j)
    BY <2>1, <1>m DEF Labels
  <2>3. CountInv!1'
    BY <1>6, <2>1 DEF Take, TypeOK
  <2> QED
    BY <1>6, <1>n, <2>1, <2>2, <2>3 DEF Take, Counted, shared, TypeOK, Labels
<1>7. ASSUME NEW t \in Threads, MakeObject(t) PROVE CountInv'
  <2>1. Stack' = Stack /\ pc[t] = "make" /\ pc' = [pc EXCEPT ![t] = "idle"]
    BY <1>7, StackSame DEF MakeObject
  <2>2. N("idle")' = N("idle") + 1 /\ N("make")' = N("make") - 1
        /\ \A j \in Labels : j # "idle" /\ j # "make" => N(j)' = N(j)
    BY <2>1, <1>m DEF Labels
  <2>3. CountInv!1'
    BY <1>7, <2>1 DEF MakeObject, TypeOK
  <2> QED
    BY <1>7, <1>n, <2>1, <2>2, <2>3 DEF MakeObject, Counted, shared, TypeOK, Labels
<1>8. ASSUME NEW t \in Threads, DropLast(t) PROVE CountInv'
  <2>1. Stack' = Stack /\ pc[t] = "idle" /\ pc' = [pc EXCEPT ![t] = "pushCheck"]
    BY <1>8, StackSame DEF DropLast
  <2>2. N("pushCheck")' = N("pushCheck") + 1 /\ N("idle")' = N("idle") - 1
        /\ \A j \in Labels : j # "pushCheck" /\ j # "idle" => N(j)' = N(j)
    BY <2>1, <1>m DEF Labels
  <2>3. CountInv!1'
    BY <1>8, <2>1 DEF DropLast, TypeOK
  <2> QED
    BY <1>8, <1>n, <2>1, <2>2, <2>3 DEF DropLast, Counted, shared, TypeOK, Labels
<1>9. ASSUME NEW t \in Threads, PushFull(t) PROVE CountInv'
  <2>1. Stack' = Stack /\ pc[t] = "pushCheck" /\ pc' = [pc EXCEPT ![t] = "idle"]
    BY <1>9, StackSame DEF PushFull
  <2>2. N("idle")' = N("idle") + 1 /\ N("pushCheck")' = N("pushCheck") - 1
        /\ \A j \in Labels : j # "idle" /\ j # "pushCheck" => N(j)' = N(j)
    BY <2>1, <1>m DEF Labels
  <2>3. CountInv!1'
    BY <1>9, <2>1 DEF PushFull, TypeOK
  <2> QED
    BY <1>9, <1>n, <2>1, <2>2, <2>3 DEF PushFull, Counted, shared, TypeOK, Labels
<1>10. ASSUME NEW t \in Threads, PushNew(t) PROVE CountInv'
  <2>1. Stack' = Stack /\ pc[t] = "pushCheck" /\ pc' = [pc EXCEPT ![t] = "pushLoad"]
    BY <1>10, StackSame DEF PushNew
  <2>2. N("pushLoad")' = N("pushLoad") + 1 /\ N("pushCheck")' = N("pushCheck") - 1
        /\ \A j \in Labels : j # "pushLoad" /\ j # "pushCheck" => N(j)' = N(j)
    BY <2>1, <1>m DEF Labels
  <2>3. CountInv!1'
    BY <1>10, <2>1 DEF PushNew, TypeOK
  <2>4. N("popSub")' = N("popSub") /\ N("pushAdd")' = N("pushAdd") /\ N("pushCas")' = N("pushCas")
    BY <2>2 DEF Labels
  <2>5. count < MaxCount /\ count' = count /\ Counted' = Counted
    BY <1>10, <2>1, <2>4 DEF PushNew, Counted
  <2>6. N("pushLoad") + 1 + N("pushCas") <= Cardinality(Droppers) - N("pushAdd")
    <3>1. t \in At("pushCheck") /\ IsFiniteSet(At("pushCheck"))
      BY <2>1, FS_Subset DEF At
    <3>2. N("pushCheck") # 0 /\ N("pushCheck") \in Nat
      BY <3>1, FS_EmptySet, FS_CardinalityType DEF N
    <3>3. /\ N("pushLoad") \in Nat /\ N("pushCas") \in Nat /\ N("pushAdd") \in Nat
          /\ Cardinality(Droppers) \in Nat
          /\ N("pushCheck") + N("pushLoad") + N("pushCas") + N("pushAdd") <= Cardinality(Droppers)
      BY <1>n
    <3>4. \A a, b, c, d, e \in Nat :
            a # 0 /\ a + b + c + d <= e => b + 1 + c <= e - d
      OBVIOUS
    <3> QED
      BY <3>2, <3>3, <3>4
  <2>7. Cardinality(Stack) <= count + N("pushAdd") /\ count \in Nat
    BY <1>n, <2>5 DEF Counted, TypeOK
  <2>8. Cardinality(Stack) + N("pushLoad") + 1 + N("pushCas") <= MaxCount + Cardinality(Droppers) - 1
    BY <1>n, <2>5, <2>6, <2>7
  <2>9. MaxCount # 0
    BY <2>5, <2>7
  <2>10. count' = IF Counted' >= 0 THEN Counted' ELSE Counted' + CountMod
    BY <2>5
  <2>11. Cardinality(Stack)' + N("pushLoad")' + N("pushCas")'
           <= IF MaxCount = 0 THEN 0 ELSE MaxCount + Cardinality(Droppers) - 1
    <3>1. N("pushLoad")' = N("pushLoad") + 1
      BY <2>2
    <3>2. Cardinality(Stack)' = Cardinality(Stack)
      BY <2>1
    <3> QED
      BY <1>n, <2>4, <2>8, <2>9, <3>1, <3>2
  <2> QED
    BY <2>3, <2>10, <2>11
<1>11. ASSUME NEW t \in Threads, PushLoad(t) PROVE CountInv'
  <2>1. Stack' = Stack /\ pc[t] = "pushLoad" /\ pc' = [pc EXCEPT ![t] = "pushCas"]
    BY <1>11, StackSame DEF PushLoad
  <2>2. N("pushCas")' = N("pushCas") + 1 /\ N("pushLoad")' = N("pushLoad") - 1
        /\ \A j \in Labels : j # "pushCas" /\ j # "pushLoad" => N(j)' = N(j)
    BY <2>1, <1>m DEF Labels
  <2>3. CountInv!1'
    BY <1>11, <2>1 DEF PushLoad, TypeOK
  <2> QED
    BY <1>11, <1>n, <2>1, <2>2, <2>3 DEF PushLoad, Counted, shared, TypeOK, Labels
<1>12. ASSUME NEW t \in Threads, PushCas(t) PROVE CountInv'
  <2>1. pc[t] = "pushCas" /\ count' = count
    BY <1>12 DEF PushCas
  <2>2. CASE Stack' = Stack /\ pc' = [pc EXCEPT ![t] = "pushLoad"]
    <3>1. N("pushLoad")' = N("pushLoad") + 1 /\ N("pushCas")' = N("pushCas") - 1
          /\ \A j \in Labels : j # "pushLoad" /\ j # "pushCas" => N(j)' = N(j)
      BY <2>1, <2>2, <1>m DEF Labels
    <3> QED
      BY <1>n, <2>1, <2>2, <3>1 DEF Counted, TypeOK, Labels
  <2>3. CASE Stack' = Stack \cup {node[t]} /\ node[t] \in live \ Stack /\ pc' = [pc EXCEPT ![t] = "pushAdd"]
    <3>1. N("pushAdd")' = N("pushAdd") + 1 /\ N("pushCas")' = N("pushCas") - 1
          /\ \A j \in Labels : j # "pushAdd" /\ j # "pushCas" => N(j)' = N(j)
      BY <2>1, <2>3, <1>m DEF Labels
    <3>2. Cardinality(Stack') = Cardinality(Stack) + 1
      BY <1>n, <2>3, FS_AddElement
    <3> QED
      BY <1>n, <2>1, <2>3, <3>1, <3>2 DEF Counted, TypeOK, Labels
  <2> QED
    BY <1>12, <2>2, <2>3, StackPush
<1>13. ASSUME NEW t \in Threads, PushAdd(t) PROVE CountInv'
  <2>1. Stack' = Stack /\ pc[t] = "pushAdd" /\ pc' = [pc EXCEPT ![t] = "idle"]
    BY <1>13, StackSame DEF PushAdd
  <2>2. N("pushAdd")' = N("pushAdd") - 1 /\ \A j \in Labels : j # "idle" /\ j # "pushAdd" => N(j)' = N(j)
    BY <2>1, <1>m DEF Labels
  <2>3. count' = IF count + 1 = CountMod THEN 0 ELSE count + 1
    BY <1>13, ModAdd DEF PushAdd, TypeOK
  <2>4. CountInv!1'
    BY <1>13, <2>1 DEF PushAdd, TypeOK
  <2>5. \A j : N(j)' \in Nat
    BY NumbersLater
  <2> QED
    BY <1>n, <2>1, <2>2, <2>3, <2>4, <2>5 DEF Counted, TypeOK, Labels
<1> QED
  BY <1>0, <1>1, <1>2, <1>3, <1>4, <1>5, <1>6, <1>7, <1>8, <1>9, <1>10, <1>11, <1>12, <1>13 DEF Next

\* With one thread getting objects, m_count is the length of the stack up to the
\* updates under way, and the pool exceeds its maximum by less than the number
\* of threads that drop objects.
THEOREM PoolCounterAndMaximum == ASSUME OneGetter, Reserve PROVE Spec => []CounterAndMaximum
<1>1. Init => CountInv
  <2> SUFFICES ASSUME Init PROVE CountInv
    OBVIOUS
  <2>1. Closed({}) /\ {} \in SUBSET Nodes
    BY DEF Init, Closed
  <2>2. Stack = {}
    BY <2>1 DEF Stack
  <2>3. At("popSub") = {} /\ At("pushAdd") = {} /\ At("pushLoad") = {} /\ At("pushCas") = {}
    BY DEF Init, At
  <2>4. Cardinality(Droppers) \in Nat
    BY FS_Subset, FS_CardinalityType DEF Reserve, Threads
  <2>5. /\ Cardinality(Stack) = 0 /\ N("popSub") = 0 /\ N("pushAdd") = 0
        /\ N("pushLoad") = 0 /\ N("pushCas") = 0
    BY <2>2, <2>3, FS_EmptySet DEF N
  <2>6. \A t \in Threads : pc[t] \notin PushLabels
    BY DEF Init, PushLabels
  <2>7. Counted = 0 /\ count = 0
    BY <2>5 DEF Init, Counted
  <2>8. MaxCount = 0 \/ MaxCount + Cardinality(Droppers) - 1 >= 0
    BY <2>4, PoolAssumption
  <2> QED
    BY <2>4, <2>5, <2>6, <2>7, <2>8, PoolAssumption DEF CountInv
<1>2. PoolInv /\ [Next]_vars => PoolInv'
  BY PoolInvStep
<1>3. PoolInv /\ PoolInv' /\ CountInv /\ [Next]_vars => CountInv'
  BY CountStep
<1>4. PoolInv /\ CountInv => CounterAndMaximum
  <2> SUFFICES ASSUME PoolInv, CountInv PROVE CounterAndMaximum
    OBVIOUS
  <2>1. /\ \A l : N(l) \in Nat
        /\ Cardinality(Stack) \in Nat /\ Cardinality(Droppers) \in Nat
        /\ N("popSub") <= 1
        /\ N("pushCheck") + N("pushLoad") + N("pushCas") + N("pushAdd") <= Cardinality(Droppers)
    BY Numbers DEF PoolInv
  <2>2. Counted < CountMod /\ Counted + CountMod > 0 /\ Counted \in Int
    BY <2>1, PoolAssumption DEF Counted, CountInv, Reserve
  <2>3. CountTracksStack
    BY <2>2, ModWrap, PoolAssumption DEF CountTracksStack, CountInv, Counted, N
  <2>4. OvershootBounded
    BY <2>1, PoolAssumption DEF OvershootBounded, CountInv
  <2> QED
    BY <2>3, <2>4 DEF CounterAndMaximum
<1> QED
  BY PoolInvInit, <1>1, <1>2, <1>3, <1>4, PTL DEF Spec
=============================================================================
