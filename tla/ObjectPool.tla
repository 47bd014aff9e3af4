----------------------------- MODULE ObjectPool -----------------------------
(***************************************************************************)
(* kits/common/object_pool/ObjectPool.h: a lock-free (Treiber) stack of     *)
(* reusable objects.  One action per access to memory that other threads    *)
(* can see: the load of the head, the read of old_head->next, the           *)
(* compare-and-swap, the update of m_count, the delete of the node.         *)
(*                                                                          *)
(* Nodes are addresses: `delete node` frees one and a later `new` may hand  *)
(* it out again.  A read through a freed address is undefined and returns   *)
(* any address here.  m_count is a size_t; it wraps modulo CountMod.        *)
(***************************************************************************)
EXTENDS Integers, FiniteSets

CONSTANTS Getters,    \* threads that call getObject
          Droppers,   \* threads that drop the last shared_ptr of an object
          Nodes,      \* addresses operator new can return (bounds the heap)
          Objects,    \* objects that can exist at once (bounds the heap)
          MaxCount,   \* m_maxCount
          CountMod,   \* 2^w of size_t, reduced
          Null        \* nullptr

ASSUME PoolAssumption == /\ MaxCount \in Nat
                         /\ CountMod \in Nat /\ CountMod > MaxCount
                         /\ Null \notin Nodes \cup Objects

Threads == Getters \cup Droppers

VARIABLES head,    \* m_head
          next,    \* ObjectNode::next, by address
          obj,     \* ObjectNode::obj, by address
          live,    \* addresses allocated and not deleted
          count,   \* m_count
          pc,      \* where each thread is
          old,     \* local old_head
          nxt,     \* local copy of old_head->next, the new value of the CAS
          node,    \* local node being pushed
          arg,     \* object whose last reference the thread dropped
          held,    \* objects referenced by client code
          made     \* objects that exist: constructed and not destroyed

shared == <<head, next, obj, live, count>>
local  == <<pc, old, nxt, node, arg>>
vars   == <<head, next, obj, live, count, pc, old, nxt, node, arg, held, made>>

Init == /\ head = Null
        /\ next = [n \in Nodes |-> Null]
        /\ obj = [n \in Nodes |-> Null]
        /\ live = {}
        /\ count = 0
        /\ pc = [t \in Threads |-> "idle"]
        /\ old = [t \in Threads |-> Null]
        /\ nxt = [t \in Threads |-> Null]
        /\ node = [t \in Threads |-> Null]
        /\ arg = [t \in Threads |-> Null]
        /\ held = {}
        /\ made = {}

Goto(t, label) == pc' = [pc EXCEPT ![t] = label]

-----------------------------------------------------------------------------
(* getObject: popNode, then take the object out of the node or make one.   *)

GetObject(t) == /\ t \in Getters /\ pc[t] = "idle"
                /\ Goto(t, "popLoad")
                /\ UNCHANGED <<shared, old, nxt, node, arg, held, made>>

PopLoad(t) == /\ pc[t] = "popLoad"
              /\ old' = [old EXCEPT ![t] = head]
              /\ Goto(t, IF head = Null THEN "make" ELSE "popNext")
              /\ UNCHANGED <<shared, nxt, node, arg, held, made>>

\* The argument old_head->next of the CAS is evaluated before the CAS.
PopNext(t) == /\ pc[t] = "popNext"
              /\ IF old[t] \in live
                 THEN nxt' = [nxt EXCEPT ![t] = next[old[t]]]
                 ELSE \E n \in Nodes \cup {Null} : nxt' = [nxt EXCEPT ![t] = n]
              /\ Goto(t, "popCas")
              /\ UNCHANGED <<shared, old, node, arg, held, made>>

\* Mutant of PopCas: the head is exchanged without comparing it.
PopCasBlind(t) == /\ pc[t] = "popCas"
                  /\ head' = nxt[t]
                  /\ Goto(t, "popSub")
                  /\ UNCHANGED <<next, obj, live, count, old, nxt, node, arg, held, made>>

\* compare_exchange_weak may also fail when the head is the expected one.
PopCas(t) == /\ pc[t] = "popCas"
             /\ \/ /\ head = old[t]
                   /\ head' = nxt[t]
                   /\ Goto(t, "popSub")
                \/ Goto(t, "popLoad") /\ UNCHANGED head
             /\ UNCHANGED <<next, obj, live, count, old, nxt, node, arg, held, made>>

PopSub(t) == /\ pc[t] = "popSub"
             /\ count' = (count - 1 + CountMod) % CountMod
             /\ Goto(t, "take")
             /\ UNCHANGED <<head, next, obj, live, old, nxt, node, arg, held, made>>

\* guard = std::move(node->obj); delete node
Take(t) == /\ pc[t] = "take"
           /\ held' = held \cup ({obj[old[t]]} \ {Null})
           /\ obj' = [obj EXCEPT ![old[t]] = Null]
           /\ live' = live \ {old[t]}
           /\ Goto(t, "idle")
           /\ UNCHANGED <<head, next, count, old, nxt, node, arg, made>>

MakeObject(t) == /\ pc[t] = "make"
                 /\ \E o \in Objects \ made : /\ made' = made \cup {o}
                                              /\ held' = held \cup {o}
                 /\ Goto(t, "idle")
                 /\ UNCHANGED <<shared, old, nxt, node, arg>>

-----------------------------------------------------------------------------
(* The deleter of the shared_ptr: pushNode.                                *)

\* Mutant of DropLast: a second shared_ptr still refers to the object.
DropLastShared(t) == /\ t \in Droppers /\ pc[t] = "idle"
                     /\ \E o \in held : arg' = [arg EXCEPT ![t] = o]
                     /\ Goto(t, "pushCheck")
                     /\ UNCHANGED <<shared, old, nxt, node, held, made>>

DropLast(t) == /\ t \in Droppers /\ pc[t] = "idle"
               /\ \E o \in held : /\ held' = held \ {o}
                                  /\ arg' = [arg EXCEPT ![t] = o]
               /\ Goto(t, "pushCheck")
               /\ UNCHANGED <<shared, old, nxt, node, made>>

\* A full pool lets the unique_ptr argument destroy the object.
PushFull(t) == /\ pc[t] = "pushCheck"
               /\ count >= MaxCount
               /\ made' = made \ {arg[t]}
               /\ arg' = [arg EXCEPT ![t] = Null]
               /\ Goto(t, "idle")
               /\ UNCHANGED <<shared, old, nxt, node, held>>

PushNew(t) == /\ pc[t] = "pushCheck"
              /\ count < MaxCount
              /\ \E n \in Nodes \ live :
                    /\ live' = live \cup {n}
                    /\ obj' = [obj EXCEPT ![n] = arg[t]]
                    /\ next' = [next EXCEPT ![n] = Null]
                    /\ node' = [node EXCEPT ![t] = n]
              /\ arg' = [arg EXCEPT ![t] = Null]
              /\ Goto(t, "pushLoad")
              /\ UNCHANGED <<head, count, old, nxt, held, made>>

PushLoad(t) == /\ pc[t] = "pushLoad"
               /\ old' = [old EXCEPT ![t] = head]
               /\ next' = [next EXCEPT ![node[t]] = head]
               /\ Goto(t, "pushCas")
               /\ UNCHANGED <<head, obj, live, count, nxt, node, arg, held, made>>

\* Mutant of PushCas: the head is stored without comparing it.
PushCasBlind(t) == /\ pc[t] = "pushCas"
                   /\ head' = node[t]
                   /\ Goto(t, "pushAdd")
                   /\ UNCHANGED <<next, obj, live, count, old, nxt, node, arg, held, made>>

PushCas(t) == /\ pc[t] = "pushCas"
              /\ \/ /\ head = old[t]
                    /\ head' = node[t]
                    /\ Goto(t, "pushAdd")
                 \/ Goto(t, "pushLoad") /\ UNCHANGED head
              /\ UNCHANGED <<next, obj, live, count, old, nxt, node, arg, held, made>>

\* Mutant of PushAdd: the counter is not updated.
PushAddForgotten(t) == /\ pc[t] = "pushAdd"
                       /\ node' = [node EXCEPT ![t] = Null]
                       /\ Goto(t, "idle")
                       /\ UNCHANGED <<head, next, obj, live, count, old, nxt, arg, held, made>>

PushAdd(t) == /\ pc[t] = "pushAdd"
              /\ count' = (count + 1) % CountMod
              /\ node' = [node EXCEPT ![t] = Null]
              /\ Goto(t, "idle")
              /\ UNCHANGED <<head, next, obj, live, old, nxt, arg, held, made>>

-----------------------------------------------------------------------------
Next == \E t \in Threads :
           \/ GetObject(t) \/ PopLoad(t) \/ PopNext(t) \/ PopCas(t) \/ PopSub(t)
           \/ Take(t) \/ MakeObject(t)
           \/ DropLast(t) \/ PushFull(t) \/ PushNew(t) \/ PushLoad(t)
           \/ PushCas(t) \/ PushAdd(t)

Spec == Init /\ [][Next]_vars

-----------------------------------------------------------------------------
(* The stack, read from the head.                                          *)

\* The addresses reachable from the head: the least set that contains it and
\* is closed under next.
Closed(S) == /\ head \in S \cup {Null}
             /\ \A n \in S : next[n] \in S \cup {Null}
Stack == {n \in Nodes : \A S \in SUBSET Nodes : Closed(S) => n \in S}

At(label) == {t \in Threads : pc[t] = label}

\* Threads that still dereference the node they are popping, and threads that
\* own a node the stack does not hold yet.
Popping == At("popSub") \cup At("take")
Pushing == At("pushLoad") \cup At("pushCas")

\* Objects on the stack, and objects on their way into or out of it.
Parked    == {obj[n] : n \in Stack}
InTransit == {obj[old[t]] : t \in Popping} \cup {obj[node[t]] : t \in Pushing}
                \cup {arg[t] : t \in At("pushCheck")}

Labels == {"idle", "popLoad", "popNext", "popCas", "popSub", "take", "make",
           "pushCheck", "pushLoad", "pushCas", "pushAdd"}

\* The shape of the state.
TypeOK == /\ head \in Nodes \cup {Null}
          /\ next \in [Nodes -> Nodes \cup {Null}]
          /\ obj \in [Nodes -> Objects \cup {Null}]
          /\ live \subseteq Nodes
          /\ count \in 0..(CountMod - 1)
          /\ pc \in [Threads -> Labels]
          /\ old \in [Threads -> Nodes \cup {Null}]
          /\ nxt \in [Threads -> Nodes \cup {Null}]
          /\ node \in [Threads -> Nodes \cup {Null}]
          /\ arg \in [Threads -> Objects \cup {Null}]
          /\ held \subseteq Objects
          /\ made \subseteq Objects

\* m_head is the top of the stack (the comment of line 40), never a node that
\* getObject has already deleted.
HeadIsTopOfStack == head = Null \/ head \in live

\* Every node on the stack, and every node a popNode will still dereference,
\* is allocated: old_head->next (line 154) never reads freed memory.
NoUseAfterFree == /\ Stack \subseteq live
                  /\ \A t \in At("popNext") \cup Popping : old[t] \in live

\* An object is in one node of the stack, or in the hands of one thread, or
\* referenced by clients, never two of these: getObject does not hand out an
\* object that is in use.
SingleOwner ==
  /\ \A m, n \in Stack : obj[m] = obj[n] => m = n
  /\ Parked \cap held = {}
  /\ InTransit \cap (Parked \cup held) = {}
  /\ \A t, u \in Pushing : obj[node[t]] = obj[node[u]] => t = u
  /\ \A t, u \in At("pushCheck") : arg[t] = arg[u] => t = u

\* m_count is the length of the stack, corrected by the threads between their
\* CAS and their update of the counter (lines 140-142 and 154-156).
CountTracksStack ==
  count = (Cardinality(Stack) + Cardinality(At("popSub")) - Cardinality(At("pushAdd"))
             + CountMod) % CountMod

\* The check of m_maxCount (line 129) is not atomic with the push, so the pool
\* may exceed its maximum, but by less than the number of pushing threads.
OvershootBounded ==
  MaxCount > 0 => Cardinality(Stack) <= MaxCount + Cardinality(Droppers) - 1

\* The counter and the maximum it is compared with hold up to the updates under
\* way, whatever the threads interleave between a CAS and its counting.
CounterAndMaximum == CountTracksStack /\ OvershootBounded

\* The pool implements AbstractPool: the free objects are those on the stack.
Abstract == INSTANCE AbstractPool WITH free <- Parked, lent <- held \cup InTransit
ImplementsAbstractPool == Abstract!ASpec
=============================================================================
