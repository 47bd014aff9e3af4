-------------------------- MODULE EventLoopsProofs --------------------------
(***************************************************************************)
(* The table of event loops, for any callers, names and threads, whether    *)
(* callers are handlers of the loops or not: all callers of a name share    *)
(* one loop although creation does not look the name up again, and no loop  *)
(* that a caller was given is destroyed while it runs, although the losers  *)
(* of a race are.                                                           *)
(*                                                                          *)
(* The modules on one of the loops, for any modules, callers and calls: a   *)
(* slot runs on the thread its module lives on and before its destruction,  *)
(* early only inside a start() on the main thread, and the event thread     *)
(* never waits for the main thread.                                         *)
(*                                                                          *)
(* The TCP client and the TCP server on such loops, for any clients,        *)
(* descriptors and connections: the connected flag of a client tells the    *)
(* state of its socket after every slot, and the server keeps the object of *)
(* every open socket, although it forgets to erase closed ones and the      *)
(* system uses their descriptors again.                                     *)
(***************************************************************************)
EXTENDS MCEventLoops, TcpLink, FiniteSetTheorems, WellFoundedInduction, TLAPS

\* A loop in the table runs, or has ended and waits for the table to be cleared.
TableAlive == \A n \in Names : table[n] # None => life[table[n]] \in {"running", "finished"}

\* A loop is given to callers after it was started.
GivenStarted == \A c \in Callers, n \in Names : got[c][n] # None => life[got[c][n]] # "new"

LoopInv == TypeOK /\ TableAlive /\ GivenStarted /\ OneLoopPerName /\ NoLoopInUseDestroyed

\* Nothing is in the table and nobody has a loop.
LEMMA LoopInit == Init => LoopInv
<1> SUFFICES ASSUME Init PROVE LoopInv
  OBVIOUS
<1>1. \A c \in Callers : pc[c] = "idle"
  BY DEF Init
<1>2. /\ \A n \in Names : table[n] = None
      /\ \A c \in Callers, n \in Names : got[c][n] = None
  BY DEF Init
<1>3. /\ table \in [Names -> QThreads \cup {None}]
      /\ want \in [Callers -> Names \cup {None}]
      /\ got \in [Callers -> [Names -> QThreads \cup {None}]]
  BY DEF Init
<1>4. /\ life \in [QThreads -> {"new", "running", "finished", "deleted", "aborted"}]
      /\ pc \in [Callers -> {"idle", "find", "create"}]
  BY DEF Init
<1>5. writer \in BOOLEAN /\ stopping \in {"no", "waiting", "done"}
  BY DEF Init
<1>6. TypeOK
  BY <1>1, <1>3, <1>4, <1>5 DEF TypeOK
<1>7. TableAlive /\ GivenStarted /\ OneLoopPerName /\ NoLoopInUseDestroyed
  BY <1>2 DEF TableAlive, GivenStarted, OneLoopPerName, NoLoopInUseDestroyed
<1> QED
  BY <1>6, <1>7 DEF LoopInv

\* A question changes what the caller wants, and nothing else.
LEMMA AskStep ==
  ASSUME LoopInv, NEW c \in Callers, Ask(c)
  PROVE  LoopInv'
<1>1. PICK n \in Asks[c] : want' = [want EXCEPT ![c] = n]
  BY DEF Ask
<1>2. n \in Names /\ pc' = [pc EXCEPT ![c] = "find"] /\ UNCHANGED <<table, life, writer, got, stopping>>
  BY EventThreadAssumption DEF Ask
<1>3. TypeOK'
  BY <1>1, <1>2 DEF LoopInv, TypeOK
<1> QED
  BY <1>2, <1>3 DEF LoopInv, TableAlive, GivenStarted, OneLoopPerName, NoLoopInUseDestroyed

\* A lookup gives the loop of the table, or leads to a creation.
LEMMA FindStep ==
  ASSUME LoopInv, NEW c \in Callers, Find(c)
  PROVE  LoopInv'
<1> DEFINE n == want[c]
<1>2. n \in Names /\ n \in Asks[c] /\ UNCHANGED <<table, life, writer, want, stopping>>
  BY EventThreadAssumption DEF Find, LoopInv, TypeOK
<1>3. CASE table[n] # None
  <2>1. got' = [got EXCEPT ![c][n] = table[n]] /\ pc' = [pc EXCEPT ![c] = "idle"]
    BY <1>3 DEF Find
  <2> HIDE DEF n
  <2>2. got' \in [Callers -> [Names -> QThreads \cup {None}]]
    BY <1>2, <2>1 DEF LoopInv, TypeOK
  <2>3. \A d \in Callers, m \in Names : got'[d][m] = got[d][m] \/ (m = n /\ got'[d][m] = table[n])
    BY <1>2, <2>1 DEF LoopInv, TypeOK
  <2>4. TypeOK'
    BY <1>2, <2>1, <2>2 DEF LoopInv, TypeOK
  <2>5. TableAlive' /\ GivenStarted' /\ OneLoopPerName' /\ NoLoopInUseDestroyed'
    BY <1>2, <1>3, <2>3 DEF LoopInv, TableAlive, GivenStarted, OneLoopPerName, NoLoopInUseDestroyed
  <2> QED
    BY <2>4, <2>5 DEF LoopInv
<1>4. CASE table[n] = None
  <2>1. pc' = [pc EXCEPT ![c] = "create"] /\ UNCHANGED got
    BY <1>4 DEF Find
  <2>2. TypeOK'
    BY <1>2, <2>1 DEF LoopInv, TypeOK
  <2> QED
    BY <1>2, <2>1, <2>2
       DEF LoopInv, TableAlive, GivenStarted, OneLoopPerName, NoLoopInUseDestroyed
<1> QED
  BY <1>3, <1>4

\* A creation adds a loop that nobody knows, or destroys it and gives the one
\* in the table.
LEMMA CreateStep ==
  ASSUME LoopInv, NEW c \in Callers, Create(c)
  PROVE  LoopInv'
<1> DEFINE n == want[c]
<1>1. PICK q \in QThreads :
         /\ life[q] = "new"
         /\ table' = [table EXCEPT ![n] = IF @ = None THEN q ELSE @]
         /\ life' = [life EXCEPT ![q] = IF table[n] = None THEN "running" ELSE "aborted"]
         /\ got' = [got EXCEPT ![c][n] = table'[n]]
  BY DEF Create
<1>2. /\ n \in Names /\ n \in Asks[c] /\ q # None
      /\ pc' = [pc EXCEPT ![c] = "idle"] /\ UNCHANGED <<writer, want, stopping>>
  BY EventThreadAssumption DEF Create, LoopInv, TypeOK
<1>3. /\ table' \in [Names -> QThreads \cup {None}]
      /\ life' \in [QThreads -> {"new", "running", "finished", "deleted", "aborted"}]
      /\ table'[n] \in QThreads
  BY <1>1, <1>2 DEF LoopInv, TypeOK
<1>4. TypeOK'
  BY <1>1, <1>2, <1>3 DEF LoopInv, TypeOK
<1>5. \A m \in Names : table[m] # q
  BY <1>1, <1>2 DEF LoopInv, TableAlive
<1>6. \A d \in Callers, m \in Names : got[d][m] # q
  BY <1>1, <1>2 DEF LoopInv, GivenStarted
<1>7. TableAlive'
  BY <1>1, <1>2, <1>3, <1>5 DEF LoopInv, TypeOK, TableAlive
<1>8. \A d \in Callers, m \in Names :
         got'[d][m] = got[d][m] \/ (m = n /\ got'[d][m] = table'[n])
  BY <1>1, <1>2, <1>3 DEF LoopInv, TypeOK
<1>9. \A d \in Callers, m \in Names : got[d][m] # None => life'[got[d][m]] = life[got[d][m]]
  BY <1>1, <1>6 DEF LoopInv, TypeOK
<1>10. life'[table'[n]] \in {"running", "finished"}
  BY <1>2, <1>3, <1>7, EventThreadAssumption DEF TableAlive
<1>11. GivenStarted' /\ NoLoopInUseDestroyed'
  BY <1>8, <1>9, <1>10 DEF LoopInv, GivenStarted, NoLoopInUseDestroyed
<1>12. \A d \in Callers, m \in Names :
          got[d][m] # None /\ life[got[d][m]] # "deleted" => got[d][m] = table'[m]
  BY <1>1, <1>2 DEF LoopInv, TypeOK, OneLoopPerName
<1>13. OneLoopPerName'
  BY <1>8, <1>9, <1>12 DEF OneLoopPerName
<1> QED
  BY <1>4, <1>7, <1>11, <1>13 DEF LoopInv

\* stop() ends the loops of the table, then destroys what has ended.
LEMMA StopStep ==
  ASSUME LoopInv, Stop
  PROVE  LoopInv'
<1>1. CASE StopLock
  BY <1>1 DEF StopLock, LoopInv, TypeOK, TableAlive, GivenStarted, OneLoopPerName, NoLoopInUseDestroyed
<1>2. CASE \E n \in Names : StopOne(n)
  <2>1. PICK n \in Names : StopOne(n)
    BY <1>2
  <2>2. table[n] \in QThreads
    BY <2>1 DEF StopOne, LoopInv, TypeOK
  <2>3. life' = [life EXCEPT ![table[n]] = "finished"] /\ life[table[n]] = "running"
        /\ UNCHANGED <<table, writer, pc, want, got, stopping>>
    BY <2>1 DEF StopOne
  <2>4. TypeOK'
    BY <2>2, <2>3 DEF LoopInv, TypeOK
  <2>5. TableAlive' /\ GivenStarted' /\ OneLoopPerName' /\ NoLoopInUseDestroyed'
    BY <2>2, <2>3 DEF LoopInv, TypeOK, TableAlive, GivenStarted, OneLoopPerName, NoLoopInUseDestroyed
  <2> QED
    BY <2>4, <2>5 DEF LoopInv
<1>3. CASE StopClear
  <2>1. /\ life' = [q \in QThreads |-> IF \E n \in Names : table[n] = q THEN "deleted" ELSE life[q]]
        /\ table' = [n \in Names |-> None] /\ writer' = FALSE /\ stopping' = "done"
        /\ UNCHANGED <<pc, want, got>>
    BY <1>3 DEF StopClear
  <2>2. TypeOK'
    BY <2>1 DEF LoopInv, TypeOK
  <2>3. \A c \in Callers, n \in Names :
           got[c][n] # None => \/ life'[got[c][n]] = "deleted"
                               \/ life'[got[c][n]] = life[got[c][n]] /\ got[c][n] # table[n]
    BY <2>1 DEF LoopInv, TypeOK
  <2>4. TableAlive' /\ GivenStarted' /\ NoLoopInUseDestroyed'
    BY <2>1, <2>3 DEF LoopInv, TableAlive, GivenStarted, NoLoopInUseDestroyed
  <2>5. OneLoopPerName'
    BY <2>1, <2>3 DEF LoopInv, OneLoopPerName
  <2> QED
    BY <2>2, <2>4, <2>5 DEF LoopInv
<1> QED
  BY <1>1, <1>2, <1>3 DEF Stop

\* What the three theorems below follow from.
LEMMA LoopInvariant == Spec => []LoopInv
<1>1. LoopInv /\ [Next]_vars => LoopInv'
  <2>1. CASE UNCHANGED vars
    BY <2>1 DEF vars, LoopInv, TypeOK, TableAlive, GivenStarted, OneLoopPerName, NoLoopInUseDestroyed
  <2> QED
    BY <2>1, AskStep, FindStep, CreateStep, StopStep DEF Next
<1> QED
  BY <1>1, LoopInit, PTL DEF Spec

\* The table and what callers hold keep their types.
THEOREM LoopTypeCorrect == Spec => []TypeOK
<1>1. LoopInv => TypeOK
  BY DEF LoopInv
<1> QED
  BY <1>1, LoopInvariant, PTL

\* All callers of one name work with one loop until stop() destroys it.
THEOREM LoopOnePerName == Spec => []OneLoopPerName
<1>1. LoopInv => OneLoopPerName
  BY DEF LoopInv
<1> QED
  BY <1>1, LoopInvariant, PTL

\* No loop that a caller was given is destroyed while it runs.
THEOREM LoopInUseKept == Spec => []NoLoopInUseDestroyed
<1>1. LoopInv => NoLoopInUseDestroyed
  BY DEF LoopInv
<1> QED
  BY <1>1, LoopInvariant, PTL

-----------------------------------------------------------------------------
(* Sequences of events.  The library's induction takes an operator; here a  *)
(* set of numbers that contains 0 and every successor is enough.            *)

\* Induction on the natural numbers, from the order being well founded.
LEMMA NatSet ==
  ASSUME NEW S, 0 \in S, \A n \in Nat : n \in S => n + 1 \in S
  PROVE  Nat \subseteq S
<1>1. SUFFICES ASSUME NEW T, T = Nat \ S, T # {} PROVE FALSE
  OBVIOUS
<1> DEFINE R == OpToRel(<, Nat)
<1>2. IsWellFoundedOn(R, Nat)
  BY NatLessThanWellFounded
<1>3. T \subseteq Nat
  BY <1>1
<1> HIDE DEF R
<1>4. \E x \in T : \A y \in T : ~ (<<y, x>> \in R)
  BY <1>1, <1>2, <1>3, WFMin, Zenon
<1>5. PICK x \in T : \A y \in T : ~ (y < x)
  BY <1>3, <1>4 DEF R, OpToRel
<1>6. x # 0 /\ x - 1 \in Nat /\ x - 1 \notin T
  BY <1>1, <1>5
<1> QED
  BY <1>1, <1>6

\* The events picked from a queue are events of it, for the modules asked for.
LEMMA EventsOfSeq ==
  ASSUME NEW E, NEW s \in Seq(E), NEW ms
  PROVE  /\ A!EventsOf(ms, s) \in Seq(E)
         /\ \A i \in DOMAIN A!EventsOf(ms, s) :
              \E j \in DOMAIN s : A!EventsOf(ms, s)[i] = s[j] /\ s[j].mod \in ms
<1> DEFINE Step(f, i) == IF i = 0 THEN <<>>
                         ELSE IF s[i].mod \in ms THEN Append(f[i - 1], s[i]) ELSE f[i - 1]
           IsUpTo(f, n) == f = [i \in 0..n |-> Step(f, i)]
           Defined == {n \in Nat : \E f : IsUpTo(f, n)}
<1>1. Nat \subseteq Defined
  <2>1. 0 \in Defined
    <3>1. IsUpTo([i \in 0..0 |-> <<>>], 0)
      OBVIOUS
    <3> QED
      BY <3>1
  <2>2. ASSUME NEW n \in Nat, n \in Defined PROVE n + 1 \in Defined
    <3>1. PICK f : IsUpTo(f, n)
      BY <2>2
    <3> DEFINE g == [i \in 0..(n + 1) |-> IF i = n + 1 THEN Step(f, i) ELSE f[i]]
    <3>2. ASSUME NEW i \in 0..(n + 1) PROVE g[i] = Step(g, i)
      <4>1. CASE i = 0
        BY <3>1, <4>1
      <4>2. CASE i # 0 /\ i # n + 1
        <5>1. i \in 0..n /\ i - 1 \in 0..n
          BY <4>2
        <5>2. f[i] = Step(f, i)
          BY <3>1, <5>1
        <5>3. g[i] = f[i] /\ g[i - 1] = f[i - 1]
          BY <5>1
        <5> QED
          BY <5>2, <5>3, <4>2
      <4>3. CASE i = n + 1
        <5>1. g[i] = Step(f, i) /\ g[i - 1] = f[i - 1]
          BY <4>3
        <5> QED
          BY <5>1
      <4> QED
        BY <4>1, <4>2, <4>3
    <3>3. IsUpTo(g, n + 1)
      <4> HIDE DEF Step
      <4> QED
        BY <3>2, Zenon
    <3>4. \E h : IsUpTo(h, n + 1)
      <4> HIDE DEF IsUpTo, g
      <4> QED
        BY <3>3, Zenon
    <3>5. n + 1 \in Nat
      OBVIOUS
    <3> HIDE DEF IsUpTo
    <3> QED
      BY <3>4, <3>5, Zenon
  <2> HIDE DEF Defined
  <2> QED
    BY <2>1, <2>2, NatSet
<1> DEFINE upTo == CHOOSE f : IsUpTo(f, Len(s))
<1>2. A!EventsOf(ms, s) = upTo[Len(s)]
  BY DEF A!EventsOf
<1>3. IsUpTo(upTo, Len(s))
  <2>1. \E f : IsUpTo(f, Len(s))
    <3>1. Len(s) \in Nat
      OBVIOUS
    <3> QED
      BY <1>1, <3>1, Zenon
  <2> QED
    BY <2>1, Zenon
<1> HIDE DEF upTo
<1>u. ASSUME NEW i \in 0..Len(s) PROVE upTo[i] = Step(upTo, i)
  <2> HIDE DEF Step
  <2> QED
    BY <1>3, Zenon
<1> DEFINE Sound == {n \in Nat : n <= Len(s) =>
                        /\ upTo[n] \in Seq(E)
                        /\ \A i \in DOMAIN upTo[n] :
                             \E j \in DOMAIN s : upTo[n][i] = s[j] /\ s[j].mod \in ms}
<1>4. 0 \in Sound
  BY <1>3
<1>5. ASSUME NEW n \in Nat, n \in Sound PROVE n + 1 \in Sound
  <2> SUFFICES ASSUME n + 1 <= Len(s)
               PROVE  /\ upTo[n + 1] \in Seq(E)
                      /\ \A i \in DOMAIN upTo[n + 1] :
                           \E j \in DOMAIN s : upTo[n + 1][i] = s[j] /\ s[j].mod \in ms
    OBVIOUS
  <2>1. /\ upTo[n] \in Seq(E) /\ s[n + 1] \in E /\ n + 1 \in DOMAIN s
        /\ \A i \in DOMAIN upTo[n] : \E j \in DOMAIN s : upTo[n][i] = s[j] /\ s[j].mod \in ms
    BY <1>5
  <2>2. upTo[n + 1] = IF s[n + 1].mod \in ms THEN Append(upTo[n], s[n + 1]) ELSE upTo[n]
    <3>1. n + 1 \in 0..Len(s) /\ (n + 1) - 1 = n /\ n + 1 # 0
      OBVIOUS
    <3> QED
      BY <1>u, <3>1
  <2>3. CASE s[n + 1].mod \in ms
    <3>1. upTo[n + 1] \in Seq(E)
      BY <2>1, <2>2, <2>3
    <3>2. ASSUME NEW i \in DOMAIN upTo[n + 1]
          PROVE  \E j \in DOMAIN s : upTo[n + 1][i] = s[j] /\ s[j].mod \in ms
      <4>1. (i \in DOMAIN upTo[n] /\ upTo[n + 1][i] = upTo[n][i]) \/ upTo[n + 1][i] = s[n + 1]
        BY <2>1, <2>2, <2>3
      <4> QED
        BY <2>1, <2>3, <4>1
    <3> QED
      BY <3>1, <3>2
  <2>4. CASE s[n + 1].mod \notin ms
    <3>1. upTo[n + 1] = upTo[n]
      BY <2>2, <2>4
    <3> QED
      BY <2>1, <3>1
  <2> QED
    BY <2>3, <2>4
<1>6. Nat \subseteq Sound
  <2> HIDE DEF Sound
  <2> QED
    BY <1>4, <1>5, NatSet
<1> QED
  BY <1>2, <1>6

\* The events in a queue.
Held(s) == {s[i] : i \in DOMAIN s}

Events == [kind : {"call", "move"}, mod : Modules, from : A!CallingThreads \cup {None}]

\* What posting, taking and moving events does to the events a queue holds.
LEMMA HeldAppend == \A s \in Seq(Events), e \in Events :
                       Append(s, e) \in Seq(Events) /\ Held(Append(s, e)) = Held(s) \cup {e}
<1> SUFFICES ASSUME NEW s \in Seq(Events), NEW e \in Events
             PROVE  Append(s, e) \in Seq(Events) /\ Held(Append(s, e)) = Held(s) \cup {e}
  OBVIOUS
<1> DEFINE t == Append(s, e)
<1>1. /\ t \in Seq(Events) /\ DOMAIN t = DOMAIN s \cup {Len(s) + 1} /\ t[Len(s) + 1] = e
      /\ \A i \in DOMAIN s : t[i] = s[i]
  OBVIOUS
<1> HIDE DEF t
<1> QED
  BY <1>1 DEF Held

LEMMA HeldTail == \A s \in Seq(Events) : s # <<>> =>
                     /\ Tail(s) \in Seq(Events) /\ Held(Tail(s)) \subseteq Held(s)
                     /\ Head(s) \in Held(s)
  BY DEF Held

LEMMA HeldConcat == \A s, t \in Seq(Events) :
                       s \o t \in Seq(Events) /\ Held(s \o t) \subseteq Held(s) \cup Held(t)
  BY DEF Held

LEMMA HeldPicked == \A s \in Seq(Events) : \A ms :
                       /\ A!EventsOf(ms, s) \in Seq(Events)
                       /\ \A e \in Held(A!EventsOf(ms, s)) : e \in Held(s) /\ e.mod \in ms
<1> SUFFICES ASSUME NEW s \in Seq(Events), NEW ms
             PROVE  /\ A!EventsOf(ms, s) \in Seq(Events)
                    /\ \A e \in Held(A!EventsOf(ms, s)) : e \in Held(s) /\ e.mod \in ms
  OBVIOUS
<1> QED
  BY EventsOfSeq DEF Held

LEMMA HeldEvents == \A s \in Seq(Events) : Held(s) \subseteq Events
  BY DEF Held

-----------------------------------------------------------------------------
(* The modules.                                                            *)

Calls == [kind : {"idle", "async", "sync", "notify", "wait"}, to : Modules \cup {None},
          rest : SUBSET Modules]

Frames == [mod : Modules, from : A!CallingThreads \cup {None}, rest : Calls]

\* What calling and returning do to the slots that run on a loop.
LEMMA HeldPush == \A s \in Seq(Frames), f \in Frames :
                     /\ <<f>> \o s \in Seq(Frames) /\ <<f>> \o s # <<>>
                     /\ Held(<<f>> \o s) \subseteq Held(s) \cup {f}
<1> SUFFICES ASSUME NEW s \in Seq(Frames), NEW f \in Frames
             PROVE  /\ <<f>> \o s \in Seq(Frames) /\ <<f>> \o s # <<>>
                    /\ Held(<<f>> \o s) \subseteq Held(s) \cup {f}
  OBVIOUS
<1>1. <<f>> \in Seq(Frames) /\ Len(<<f>>) = 1 /\ <<f>>[1] = f
  OBVIOUS
<1> DEFINE u == <<f>>
           t == u \o s
<1> HIDE DEF u
<1>2. /\ t \in Seq(Frames) /\ Len(t) = Len(s) + 1
      /\ \A i \in 1..Len(t) : t[i] = IF i <= 1 THEN u[i] ELSE s[i - 1]
  BY <1>1 DEF u
<1> HIDE DEF t
<1>3. Held(t) \subseteq Held(s) \cup {f}
  <2>1. \A i \in DOMAIN t : t[i] = f \/ (i - 1 \in DOMAIN s /\ t[i] = s[i - 1])
    BY <1>1, <1>2 DEF u
  <2> QED
    BY <2>1 DEF Held
<1>4. t # <<>>
  BY <1>2
<1> QED
  BY <1>2, <1>3, <1>4 DEF t, u

LEMMA HeldPop == \A s \in Seq(Frames) : s # <<>> =>
                    /\ Tail(s) \in Seq(Frames) /\ Held(Tail(s)) \subseteq Held(s)
                    /\ Head(s) \in Held(s) /\ Head(s) \in Frames
  BY DEF Held

FrameTypes ==
  /\ A!TypeOK
  /\ call \in [A!CallingThreads -> Calls]
  /\ queue \in [A!Loops -> Seq(Events)]
  /\ frames \in [A!Loops -> Seq(Frames)]

\* From creation to the loop, every module that was created is there.
AllThere ==
  /\ phase \in {"create", "start", "exec"} => plugins = registered
  /\ exists = plugins
  /\ phase = "start" => todo \subseteq plugins
  /\ running => phase = "exec"

\* Where the main thread is.
MainAt ==
  /\ mpc = "starting" => phase = "start" /\ cur \in todo
  /\ mpc \in {"moving", "moved"} => phase = "stop" /\ cur \in plugins

\* On which thread a module lives.
ModuleAt ==
  /\ \A m \in Modules : thread[m] = "module" => m \in started
  /\ phase = "start" => \A m \in plugins \ todo : thread[m] = "module"
  /\ phase = "exec" => \A m \in plugins : thread[m] = "module"
  /\ phase = "stop" => \A m \in plugins : thread[m] = "module" \/ (mpc = "moved" /\ m = cur)
  /\ mpc = "moved" => thread[cur] = "main"

\* An event waits in the loop its module lives on, and the one module that is
\* being moved has the only move there.
EventsAtHome ==
  \A l \in A!Loops : \A e \in Held(queue[l]) :
     /\ e.mod \in exists /\ thread[e.mod] = l
     /\ e.kind = "move" => /\ phase = "stop"
                           /\ l = "module" => mpc = "moving" /\ e.mod = cur

\* The slots that run, and the call the innermost one is making.
HandlerAt ==
  /\ \A l \in A!Loops : \A f \in Held(frames[l]) :
        f.mod \in exists /\ thread[f.mod] = l /\ f.rest.kind \in {"idle", "notify"}
  /\ frames["main"] # <<>> => mpc = "starting"
  /\ frames["module"] = <<>> => call["module"].kind \in {"idle", "notify"}
  /\ call["module"].kind = "sync" =>
        call["module"].to \in Modules /\ thread[call["module"].to] = "module"
  /\ call["module"].kind # "wait"
  /\ call["main"].kind # "idle" => mpc = "starting" \/ phase = "exec"

FrameInv == FrameTypes /\ AllThere /\ MainAt /\ ModuleAt /\ EventsAtHome /\ HandlerAt

\* All modules are on the main thread, and no event is posted.
LEMMA FrameInit == A!Init => FrameInv
<1> SUFFICES ASSUME A!Init PROVE FrameInv
  OBVIOUS
<1>1. FrameTypes
  <2>1. A!Idle \in Calls /\ None \notin Modules /\ MaxCalls \in Nat
    BY MCAssumption DEF A!Idle, Calls, A!FrameworkAssumption
  <2>2. call \in [A!CallingThreads -> Calls]
    BY <2>1 DEF A!Init
  <2>3. A!TypeOK
    <3>1. \A c \in A!CallingThreads : call[c] \in Calls
      BY <2>2
    <3>2. thread \in [Modules -> A!Loops]
      BY DEF A!Init, A!Loops
    <3>3. \A c \in A!CallingThreads : /\ call[c].kind \in {"idle", "async", "sync", "notify", "wait"}
                                     /\ call[c].to \in Modules \cup {None}
                                     /\ call[c].rest \subseteq Modules
      BY <3>1 DEF Calls
    <3>4. /\ phase = "create" /\ todo = Modules /\ plugins = {} /\ registered = {} /\ exists = {} /\ started = {}
          /\ running = FALSE /\ mpc = "run" /\ cur = None /\ calls = 0 /\ dangling = {}
      BY DEF A!Init
    <3>5. calls \in 0..MaxCalls
      BY <2>1, <3>4
    <3> QED
      BY <3>2, <3>3, <3>4, <3>5 DEF A!TypeOK
  <2> QED
    BY <2>2, <2>3 DEF A!Init, FrameTypes
<1>2. AllThere /\ MainAt /\ ModuleAt
  BY DEF A!Init, AllThere, MainAt, ModuleAt
<1>4. HandlerAt
  <2>1. \A l \in A!Loops : frames[l] = <<>> /\ Held(frames[l]) = {}
    BY DEF A!Init, Held
  <2>2. call["module"].kind = "idle" /\ call["main"].kind = "idle"
    BY DEF A!Init, A!Idle, A!CallingThreads
  <2> QED
    BY <2>1, <2>2 DEF HandlerAt, A!Loops
<1>3. EventsAtHome
  BY DEF A!Init, EventsAtHome, Held, A!Loops
<1> QED
  BY <1>1, <1>2, <1>3, <1>4 DEF FrameInv

\* No step of the main thread, the event thread or a caller breaks it.
LEMMA FrameStep == FrameInv /\ [A!Next]_frameworkVars => FrameInv'
<1> SUFFICES ASSUME FrameInv, [A!Next]_frameworkVars PROVE FrameInv'
  OBVIOUS
<1>t. /\ FrameTypes /\ A!TypeOK /\ queue["main"] \in Seq(Events) /\ queue["module"] \in Seq(Events)
      /\ Held(queue["main"]) \subseteq Events /\ Held(queue["module"]) \subseteq Events
  BY HeldEvents DEF FrameInv, FrameTypes, A!Loops
<1>i. AllThere /\ MainAt /\ ModuleAt /\ EventsAtHome /\ HandlerAt
  BY DEF FrameInv
<1> USE MCAssumption DEF A!FrameworkAssumption, A!Loops, A!CallingThreads, A!Idle, A!tables
<1>0. CASE UNCHANGED frameworkVars
  BY <1>0, <1>t, <1>i DEF frameworkVars, FrameInv, FrameTypes, A!TypeOK, AllThere, MainAt, ModuleAt, EventsAtHome, HandlerAt
<1>1. ASSUME NEW m \in Modules, A!CreateModule(m) PROVE FrameInv'
  <2>1. FrameTypes'
    BY <1>t, <1>i, <1>1 DEF A!CreateModule, FrameTypes, A!TypeOK, Calls
  <2>2. AllThere'
    BY <1>t, <1>i, <1>1 DEF A!CreateModule, AllThere, MainAt, A!TypeOK
  <2>3. MainAt'
    BY <1>t, <1>i, <1>1 DEF A!CreateModule, MainAt, AllThere, A!TypeOK
  <2>4. ModuleAt'
    BY <1>t, <1>i, <1>1 DEF A!CreateModule, ModuleAt, MainAt, AllThere, A!TypeOK
  <2>5. EventsAtHome'
    BY <1>t, <1>i, <1>1 DEF A!CreateModule, EventsAtHome, ModuleAt, MainAt, AllThere, A!TypeOK
  <2>6. HandlerAt'
    BY <1>t, <1>i, <1>1 DEF A!CreateModule, HandlerAt, FrameTypes, Calls, EventsAtHome, ModuleAt, AllThere, A!TypeOK
  <2> QED
    BY <2>1, <2>2, <2>3, <2>4, <2>5, <2>6 DEF FrameInv
<1>2. ASSUME A!Created PROVE FrameInv'
  <2>1. FrameTypes'
    BY <1>t, <1>i, <1>2 DEF A!Created, FrameTypes, A!TypeOK, Calls
  <2>2. AllThere'
    BY <1>t, <1>i, <1>2 DEF A!Created, AllThere, MainAt, A!TypeOK
  <2>3. MainAt'
    BY <1>t, <1>i, <1>2 DEF A!Created, MainAt, AllThere, A!TypeOK
  <2>4. ModuleAt'
    BY <1>t, <1>i, <1>2 DEF A!Created, ModuleAt, MainAt, AllThere, A!TypeOK
  <2>5. EventsAtHome'
    BY <1>t, <1>i, <1>2 DEF A!Created, EventsAtHome, ModuleAt, MainAt, AllThere, A!TypeOK
  <2>6. HandlerAt'
    BY <1>t, <1>i, <1>2 DEF A!Created, HandlerAt, FrameTypes, Calls, EventsAtHome, ModuleAt, AllThere, A!TypeOK
  <2> QED
    BY <2>1, <2>2, <2>3, <2>4, <2>5, <2>6 DEF FrameInv
<1>3. ASSUME NEW m \in Modules, A!StartModule(m) PROVE FrameInv'
  <2>1. FrameTypes'
    BY <1>t, <1>i, <1>3 DEF A!StartModule, FrameTypes, A!TypeOK, Calls
  <2>2. AllThere'
    BY <1>t, <1>i, <1>3 DEF A!StartModule, AllThere, MainAt, A!TypeOK
  <2>3. MainAt'
    BY <1>t, <1>i, <1>3 DEF A!StartModule, MainAt, AllThere, A!TypeOK
  <2>4. ModuleAt'
    BY <1>t, <1>i, <1>3 DEF A!StartModule, ModuleAt, MainAt, AllThere, A!TypeOK
  <2>5. EventsAtHome'
    BY <1>t, <1>i, <1>3 DEF A!StartModule, EventsAtHome, ModuleAt, MainAt, AllThere, A!TypeOK
  <2>6. HandlerAt'
    BY <1>t, <1>i, <1>3 DEF A!StartModule, HandlerAt, FrameTypes, Calls, EventsAtHome, ModuleAt, AllThere, A!TypeOK
  <2> QED
    BY <2>1, <2>2, <2>3, <2>4, <2>5, <2>6 DEF FrameInv
<1>4. ASSUME A!StartedModule PROVE FrameInv'
  <2>q. /\ queue'["main"] \in Seq(Events) /\ queue'["module"] \in Seq(Events) /\ queue' \in [A!Loops -> Seq(Events)]
        /\ \A e \in Held(queue'["main"]) : e \in Held(queue["main"]) /\ e.mod # cur
        /\ \A e \in Held(queue'["module"]) :
             e \in Held(queue["module"]) \/ (e \in Held(queue["main"]) /\ e.mod = cur)
    <3> DEFINE rest == A!EventsOf(Modules \ {cur}, queue["main"])
               mine == A!EventsOf({cur}, queue["main"])
    <3>1. queue' = [queue EXCEPT !["main"] = rest, !["module"] = queue["module"] \o mine]
      BY <1>t, <1>4 DEF A!StartedModule, A!MoveEvents, A!OfModule, A!NotOfModule, FrameTypes
    <3>2. /\ rest \in Seq(Events) /\ \A e \in Held(rest) : e \in Held(queue["main"]) /\ e.mod \in Modules \ {cur}
          /\ mine \in Seq(Events) /\ \A e \in Held(mine) : e \in Held(queue["main"]) /\ e.mod \in {cur}
      BY <1>t, HeldPicked
    <3>3. /\ queue["module"] \o mine \in Seq(Events)
          /\ Held(queue["module"] \o mine) \subseteq Held(queue["module"]) \cup Held(mine)
      BY <1>t, <3>2, HeldConcat
    <3> HIDE DEF rest, mine
    <3> QED
      BY <1>t, <3>1, <3>2, <3>3 DEF FrameTypes
  <2>1. FrameTypes'
    BY <1>t, <1>i, <1>4, <2>q DEF A!StartedModule, FrameTypes, A!TypeOK, Calls, MainAt, AllThere
  <2>2. AllThere'
    BY <1>t, <1>i, <1>4, <2>q DEF A!StartedModule, AllThere, MainAt, A!TypeOK
  <2>3. MainAt'
    BY <1>t, <1>i, <1>4, <2>q DEF A!StartedModule, MainAt, AllThere, A!TypeOK
  <2>4. ModuleAt'
    BY <1>t, <1>i, <1>4, <2>q DEF A!StartedModule, ModuleAt, MainAt, AllThere, A!TypeOK
  <2>5. EventsAtHome'
    BY <1>t, <1>i, <1>4, <2>q DEF A!StartedModule, EventsAtHome, ModuleAt, MainAt, AllThere, A!TypeOK
  <2>6. HandlerAt'
    <3>1. /\ frames["main"] = <<>> /\ cur \in Modules /\ thread' = [thread EXCEPT ![cur] = "module"]
          /\ call["main"].kind = "idle" /\ UNCHANGED <<frames, call, exists>> /\ mpc' = "run"
      BY <1>t, <1>i, <1>4 DEF A!StartedModule, MainAt, A!TypeOK
    <3>2. \A m \in Modules : thread[m] = "module" => thread'[m] = "module"
      BY <1>t, <3>1 DEF A!TypeOK
    <3>3. \A l \in A!Loops : \A f \in Held(frames[l]) : l = "module" /\ f.mod \in Modules
      BY <1>t, <1>i, <3>1 DEF HandlerAt, Held, A!TypeOK
    <3>4. \A l \in A!Loops : \A f \in Held(frames'[l]) :
             f.mod \in exists' /\ thread'[f.mod] = l /\ f.rest.kind \in {"idle", "notify"}
      BY <1>i, <3>1, <3>2, <3>3 DEF HandlerAt
    <3> QED
      BY <1>i, <3>1, <3>2, <3>4 DEF HandlerAt
  <2> QED
    BY <2>1, <2>2, <2>3, <2>4, <2>5, <2>6 DEF FrameInv
<1>5. ASSUME A!Exec PROVE FrameInv'
  <2>1. FrameTypes'
    BY <1>t, <1>i, <1>5 DEF A!Exec, FrameTypes, A!TypeOK, Calls
  <2>2. AllThere'
    BY <1>t, <1>i, <1>5 DEF A!Exec, AllThere, MainAt, A!TypeOK
  <2>3. MainAt'
    BY <1>t, <1>i, <1>5 DEF A!Exec, MainAt, AllThere, A!TypeOK
  <2>4. ModuleAt'
    BY <1>t, <1>i, <1>5 DEF A!Exec, ModuleAt, MainAt, AllThere, A!TypeOK
  <2>5. EventsAtHome'
    BY <1>t, <1>i, <1>5 DEF A!Exec, EventsAtHome, ModuleAt, MainAt, AllThere, A!TypeOK
  <2>6. HandlerAt'
    BY <1>t, <1>i, <1>5 DEF A!Exec, HandlerAt, FrameTypes, Calls, EventsAtHome, ModuleAt, AllThere, A!TypeOK
  <2> QED
    BY <2>1, <2>2, <2>3, <2>4, <2>5, <2>6 DEF FrameInv
<1>6. ASSUME A!Quit PROVE FrameInv'
  <2>1. FrameTypes'
    BY <1>t, <1>i, <1>6 DEF A!Quit, FrameTypes, A!TypeOK, Calls
  <2>2. AllThere'
    BY <1>t, <1>i, <1>6 DEF A!Quit, AllThere, MainAt, A!TypeOK
  <2>3. MainAt'
    BY <1>t, <1>i, <1>6 DEF A!Quit, MainAt, AllThere, A!TypeOK
  <2>4. ModuleAt'
    BY <1>t, <1>i, <1>6 DEF A!Quit, ModuleAt, MainAt, AllThere, A!TypeOK
  <2>5. EventsAtHome'
    BY <1>t, <1>i, <1>6 DEF A!Quit, EventsAtHome, ModuleAt, MainAt, AllThere, A!TypeOK
  <2>6. HandlerAt'
    BY <1>t, <1>i, <1>6 DEF A!Quit, HandlerAt, FrameTypes, Calls, EventsAtHome, ModuleAt, AllThere, A!TypeOK
  <2> QED
    BY <2>1, <2>2, <2>3, <2>4, <2>5, <2>6 DEF FrameInv
<1>7. ASSUME NEW m \in Modules, A!StopModule(m) PROVE FrameInv'
  <2>q. /\ queue' = [queue EXCEPT !["module"] = Append(@, A!Event("move", m, "main"))] /\ A!Event("move", m, "main") \in Events
        /\ queue' \in [A!Loops -> Seq(Events)]
        /\ Held(queue'["main"]) = Held(queue["main"])
        /\ Held(queue'["module"]) = Held(queue["module"]) \cup {A!Event("move", m, "main")}
    <3>1. queue' = [queue EXCEPT !["module"] = Append(@, A!Event("move", m, "main"))] /\ A!Event("move", m, "main") \in Events
      BY <1>7 DEF A!StopModule, A!Event, Events
    <3>2. /\ Append(queue["module"], A!Event("move", m, "main")) \in Seq(Events)
          /\ Held(Append(queue["module"], A!Event("move", m, "main"))) = Held(queue["module"]) \cup {A!Event("move", m, "main")}
      BY <1>t, <3>1, HeldAppend
    <3> QED
      BY <1>t, <3>1, <3>2 DEF FrameTypes
  <2>1. FrameTypes'
    BY <1>t, <1>i, <1>7, <2>q DEF A!StopModule, A!Event, FrameTypes, A!TypeOK, Calls
  <2>2. AllThere'
    BY <1>t, <1>i, <1>7, <2>q DEF A!StopModule, A!Event, AllThere, MainAt, A!TypeOK
  <2>3. MainAt'
    BY <1>t, <1>i, <1>7, <2>q DEF A!StopModule, A!Event, MainAt, AllThere, A!TypeOK
  <2>4. ModuleAt'
    BY <1>t, <1>i, <1>7, <2>q DEF A!StopModule, A!Event, ModuleAt, MainAt, AllThere, A!TypeOK
  <2>5. EventsAtHome'
    BY <1>t, <1>i, <1>7, <2>q DEF A!StopModule, A!Event, EventsAtHome, ModuleAt, MainAt, AllThere, A!TypeOK
  <2>6. HandlerAt'
    BY <1>t, <1>i, <1>7, <2>q DEF A!StopModule, A!Event, HandlerAt, FrameTypes, Calls, EventsAtHome, ModuleAt, AllThere, A!TypeOK
  <2> QED
    BY <2>1, <2>2, <2>3, <2>4, <2>5, <2>6 DEF FrameInv
<1>8. ASSUME A!EraseModule PROVE FrameInv'
  <2>q. /\ queue' \in [A!Loops -> Seq(Events)]
        /\ Held(queue'["module"]) = Held(queue["module"])
        /\ \A e \in Held(queue'["main"]) : e \in Held(queue["main"]) /\ e.mod # cur
    <3>1. queue' = [queue EXCEPT !["main"] = A!EventsOf(Modules \ {cur}, queue["main"])]
      BY <1>t, <1>i, <1>8 DEF A!EraseModule, A!NotOfModule, FrameTypes, ModuleAt
    <3>2. /\ A!EventsOf(Modules \ {cur}, queue["main"]) \in Seq(Events)
          /\ \A e \in Held(A!EventsOf(Modules \ {cur}, queue["main"])) : e \in Held(queue["main"]) /\ e.mod \in Modules \ {cur}
      BY <1>t, HeldPicked
    <3> QED
      BY <1>t, <3>1, <3>2 DEF FrameTypes
  <2>1. FrameTypes'
    BY <1>t, <1>i, <1>8, <2>q DEF A!EraseModule, FrameTypes, A!TypeOK, Calls
  <2>2. AllThere'
    BY <1>t, <1>i, <1>8, <2>q DEF A!EraseModule, AllThere, MainAt, A!TypeOK
  <2>3. MainAt'
    BY <1>t, <1>i, <1>8, <2>q DEF A!EraseModule, MainAt, AllThere, A!TypeOK
  <2>4. ModuleAt'
    BY <1>t, <1>i, <1>8, <2>q DEF A!EraseModule, ModuleAt, MainAt, AllThere, A!TypeOK
  <2>5. EventsAtHome'
    BY <1>t, <1>i, <1>8, <2>q DEF A!EraseModule, EventsAtHome, ModuleAt, MainAt, AllThere, A!TypeOK
  <2>6. HandlerAt'
    <3>1. /\ mpc = "moved" /\ thread[cur] = "main" /\ frames["main"] = <<>>
          /\ exists' = exists \ {cur} /\ UNCHANGED <<frames, thread, phase>>
      BY <1>i, <1>8 DEF A!EraseModule, ModuleAt, HandlerAt
    <3>2. /\ call'["module"] \in {A!Idle, call["module"]} /\ call'["main"] \in {A!Idle, call["main"]}
          /\ A!Idle.kind = "idle"
      BY <1>8 DEF A!EraseModule
    <3>3. \A l \in A!Loops : \A f \in Held(frames[l]) : l = "module" /\ f.mod # cur
      BY <1>i, <3>1 DEF HandlerAt, Held
    <3>4. \A l \in A!Loops : \A f \in Held(frames'[l]) :
             f.mod \in exists' /\ thread'[f.mod] = l /\ f.rest.kind \in {"idle", "notify"}
      BY <1>i, <3>1, <3>3 DEF HandlerAt
    <3>5. call["main"].kind # "idle" => phase = "exec"
      BY <1>i, <3>1 DEF HandlerAt
    <3> QED
      BY <1>i, <3>1, <3>2, <3>4, <3>5 DEF HandlerAt
  <2> QED
    BY <2>1, <2>2, <2>3, <2>4, <2>5, <2>6 DEF FrameInv
<1>9. ASSUME A!StopEventThreads PROVE FrameInv'
  <2>1. FrameTypes'
    BY <1>t, <1>i, <1>9 DEF A!StopEventThreads, FrameTypes, A!TypeOK, Calls
  <2>2. AllThere'
    BY <1>t, <1>i, <1>9 DEF A!StopEventThreads, AllThere, MainAt, A!TypeOK
  <2>3. MainAt'
    BY <1>t, <1>i, <1>9 DEF A!StopEventThreads, MainAt, AllThere, A!TypeOK
  <2>4. ModuleAt'
    BY <1>t, <1>i, <1>9 DEF A!StopEventThreads, ModuleAt, MainAt, AllThere, A!TypeOK
  <2>5. EventsAtHome'
    BY <1>t, <1>i, <1>9 DEF A!StopEventThreads, EventsAtHome, ModuleAt, MainAt, AllThere, A!TypeOK
  <2>6. HandlerAt'
    BY <1>t, <1>i, <1>9 DEF A!StopEventThreads, HandlerAt, FrameTypes, Calls, EventsAtHome, ModuleAt, AllThere, A!TypeOK
  <2> QED
    BY <2>1, <2>2, <2>3, <2>4, <2>5, <2>6 DEF FrameInv
<1>10. ASSUME A!HandleMove PROVE FrameInv'
  <2> DEFINE head == Head(queue["module"])
  <2>h. /\ head \in Held(queue["module"]) /\ head \in Events /\ head.kind = "move"
        /\ Tail(queue["module"]) \in Seq(Events) /\ Held(Tail(queue["module"])) \subseteq Held(queue["module"])
    BY <1>t, <1>10, HeldTail DEF A!HandleMove
  <2>c. head.mod = cur /\ mpc = "moving" /\ phase = "stop" /\ cur \in Modules
    BY <1>t, <1>i, <2>h DEF EventsAtHome, Events
  <2>q. /\ queue' \in [A!Loops -> Seq(Events)]
        /\ \A e \in Held(queue'["module"]) : e \in Held(queue["module"]) /\ e.mod # cur
        /\ \A e \in Held(queue'["main"]) :
             e \in Held(queue["main"]) \/ (e \in Held(queue["module"]) /\ e.mod = cur)
    <3> DEFINE rest == A!EventsOf(Modules \ {cur}, queue["module"])
               mine == A!EventsOf({cur}, Tail(queue["module"]))
    <3>1. queue' = [queue EXCEPT !["module"] = rest, !["main"] = queue["main"] \o mine]
      BY <1>t, <2>c, <1>10 DEF A!HandleMove, A!OfModule, A!NotOfModule, FrameTypes
    <3>2. /\ rest \in Seq(Events) /\ \A e \in Held(rest) : e \in Held(queue["module"]) /\ e.mod \in Modules \ {cur}
          /\ mine \in Seq(Events) /\ \A e \in Held(mine) : e \in Held(Tail(queue["module"])) /\ e.mod \in {cur}
      BY <1>t, <2>h, HeldPicked
    <3>3. /\ queue["main"] \o mine \in Seq(Events)
          /\ Held(queue["main"] \o mine) \subseteq Held(queue["main"]) \cup Held(mine)
      BY <1>t, <3>2, HeldConcat
    <3> HIDE DEF rest, mine
    <3> QED
      BY <1>t, <2>h, <3>1, <3>2, <3>3 DEF FrameTypes
  <2>m. thread' = [thread EXCEPT ![cur] = "main"] /\ frames["module"] = <<>> /\ mpc' = "moved"
        /\ UNCHANGED <<phase, todo, plugins, registered, exists, started, running, cur, frames, call, calls, dangling>>
    BY <2>c, <1>10 DEF A!HandleMove
  <2>1. FrameTypes'
    BY <1>t, <1>i, <1>10, <2>h, <2>c, <2>q, <2>m DEF A!HandleMove, FrameTypes, A!TypeOK, Calls
  <2>2. AllThere'
    BY <1>t, <1>i, <1>10, <2>h, <2>c, <2>q, <2>m DEF A!HandleMove, AllThere, MainAt, A!TypeOK
  <2>3. MainAt'
    BY <1>t, <1>i, <1>10, <2>h, <2>c, <2>q, <2>m DEF A!HandleMove, MainAt, AllThere, A!TypeOK
  <2>4. ModuleAt'
    BY <1>t, <1>i, <1>10, <2>h, <2>c, <2>q, <2>m DEF A!HandleMove, ModuleAt, MainAt, AllThere, A!TypeOK
  <2>5. EventsAtHome'
    BY <1>t, <1>i, <1>10, <2>h, <2>c, <2>q, <2>m DEF A!HandleMove, EventsAtHome, ModuleAt, MainAt, AllThere, A!TypeOK
  <2>6. HandlerAt'
    BY <1>t, <1>i, <1>10, <2>h, <2>c, <2>q, <2>m DEF A!HandleMove, HandlerAt, FrameTypes, Calls, EventsAtHome, ModuleAt, AllThere, A!TypeOK
  <2> QED
    BY <2>1, <2>2, <2>3, <2>4, <2>5, <2>6 DEF FrameInv
<1>11. ASSUME A!HandleCall PROVE FrameInv'
  <2>h. /\ Head(queue["module"]) \in Held(queue["module"]) /\ Head(queue["module"]) \in Events
        /\ Tail(queue["module"]) \in Seq(Events) /\ Held(Tail(queue["module"])) \subseteq Held(queue["module"])
    BY <1>t, <1>11, HeldTail DEF A!HandleCall
  <2>q. /\ queue' \in [A!Loops -> Seq(Events)]
        /\ Held(queue'["module"]) \subseteq Held(queue["module"])
        /\ Held(queue'["main"]) = Held(queue["main"])
    BY <1>t, <2>h, <1>11 DEF A!HandleCall, FrameTypes
  <2> DEFINE e == Head(queue["module"])
             f == A!Frame(e.mod, e.from, A!Idle)
  <2>m. frames["module"] = <<>> /\ frames' = [frames EXCEPT !["module"] = <<f>>]
    BY <1>11 DEF A!HandleCall
  <2>e. /\ e.mod \in exists /\ thread[e.mod] = "module"
        /\ f \in Frames /\ f.mod = e.mod /\ f.rest.kind = "idle"
    BY <1>i, <2>h DEF EventsAtHome, Events, A!Frame, Frames, Calls
  <2> HIDE DEF e, f
  <2>f. /\ frames' \in [A!Loops -> Seq(Frames)] /\ frames'["main"] = frames["main"]
        /\ Held(frames'["module"]) = {f} /\ frames'["module"] # <<>>
    <3>1. <<f>> \in Seq(Frames) /\ Held(<<f>>) = {f} /\ <<f>> # <<>>
      BY <2>e DEF Held
    <3> QED
      BY <1>t, <2>m, <3>1 DEF FrameTypes
  <2>1. FrameTypes'
    <3>1. A!TypeOK'
      BY <1>t, <1>11 DEF A!HandleCall, A!TypeOK
    <3> QED
      BY <1>t, <1>11, <2>q, <2>f, <3>1 DEF A!HandleCall, FrameTypes
  <2>2. AllThere'
    BY <1>t, <1>i, <1>11, <2>h, <2>q DEF A!HandleCall, AllThere, MainAt, A!TypeOK
  <2>3. MainAt'
    BY <1>t, <1>i, <1>11, <2>h, <2>q DEF A!HandleCall, MainAt, AllThere, A!TypeOK
  <2>4. ModuleAt'
    BY <1>t, <1>i, <1>11, <2>h, <2>q DEF A!HandleCall, ModuleAt, MainAt, AllThere, A!TypeOK
  <2>5. EventsAtHome'
    BY <1>t, <1>i, <1>11, <2>h, <2>q DEF A!HandleCall, EventsAtHome, ModuleAt, MainAt, AllThere, A!TypeOK
  <2>6. HandlerAt'
    <3>1. UNCHANGED <<exists, thread, call, mpc, phase>>
      BY <1>11 DEF A!HandleCall
    <3> QED
      BY <1>i, <2>e, <2>f, <3>1 DEF HandlerAt
  <2> QED
    BY <2>1, <2>2, <2>3, <2>4, <2>5, <2>6 DEF FrameInv
<1>12. ASSUME NEW l \in A!Loops, A!Handled(l) PROVE FrameInv'
  <2> DEFINE f == Head(frames[l])
  <2>h. /\ f \in Held(frames[l]) /\ f \in Frames
        /\ Tail(frames[l]) \in Seq(Frames) /\ Held(Tail(frames[l])) \subseteq Held(frames[l])
    BY <1>t, <1>12, HeldPop DEF A!Handled, FrameTypes
  <2>m. /\ frames[l] # <<>> /\ frames' = [frames EXCEPT ![l] = Tail(@)]
        /\ call' = [c \in A!CallingThreads |-> IF c = l THEN f.rest
                                               ELSE IF c = f.from THEN A!Idle ELSE call[c]]
        /\ UNCHANGED <<phase, todo, plugins, registered, exists, started, thread, running, mpc, cur, queue, calls, dangling>>
    BY <1>12 DEF A!Handled
  <2> HIDE DEF f
  <2>f. /\ frames' \in [A!Loops -> Seq(Frames)]
        /\ \A k \in A!Loops : Held(frames'[k]) \subseteq Held(frames[k])
        /\ frames["main"] = <<>> => frames'["main"] = <<>>
        /\ l = "module" \/ frames'["module"] = frames["module"]
    BY <1>t, <2>h, <2>m DEF FrameTypes
  <2>r. f.rest \in Calls /\ f.rest.kind \in {"idle", "notify"}
    BY <1>i, <2>h DEF HandlerAt, Frames
  <2>c. /\ call' \in [A!CallingThreads -> Calls]
        /\ call'["module"] \in {f.rest, A!Idle, call["module"]}
        /\ l = "module" => call'["module"] = f.rest
    BY <1>t, <2>m, <2>r DEF FrameTypes, Calls
  <2>1. FrameTypes'
    <3>1. A!TypeOK'
      BY <1>t, <2>m, <2>c DEF A!TypeOK, Calls
    <3> QED
      BY <1>t, <2>m, <2>f, <2>c, <3>1 DEF FrameTypes
  <2>2. AllThere' /\ MainAt' /\ ModuleAt'
    BY <1>i, <2>m DEF AllThere, MainAt, ModuleAt
  <2>5. EventsAtHome'
    BY <1>i, <2>m DEF EventsAtHome
  <2>6. HandlerAt'
    BY <1>i, <2>m, <2>f, <2>r, <2>c DEF HandlerAt
  <2> QED
    BY <2>1, <2>2, <2>5, <2>6 DEF FrameInv
<1>13. ASSUME NEW c \in A!CallingThreads, A!GetInvokes(c) PROVE FrameInv'
  <2>1. FrameTypes'
    BY <1>t, <1>i, <1>13 DEF A!GetInvokes, A!MayCall, FrameTypes, A!TypeOK, Calls
  <2>2. AllThere'
    BY <1>t, <1>i, <1>13 DEF A!GetInvokes, A!MayCall, AllThere, MainAt, A!TypeOK
  <2>3. MainAt'
    BY <1>t, <1>i, <1>13 DEF A!GetInvokes, A!MayCall, MainAt, AllThere, A!TypeOK
  <2>4. ModuleAt'
    BY <1>t, <1>i, <1>13 DEF A!GetInvokes, A!MayCall, ModuleAt, MainAt, AllThere, A!TypeOK
  <2>5. EventsAtHome'
    BY <1>t, <1>i, <1>13 DEF A!GetInvokes, A!MayCall, EventsAtHome, ModuleAt, MainAt, AllThere, A!TypeOK
  <2>6. HandlerAt'
    <3>1. PICK m \in registered, kind \in {"async", "sync"} :
             call' = [call EXCEPT ![c] = [kind |-> kind, to |-> m, rest |-> {}]]
      BY <1>13 DEF A!GetInvokes
    <3>2. m \in Modules /\ thread[m] = "module" /\ UNCHANGED <<frames, thread, exists>>
      BY <1>t, <1>i, <1>13 DEF A!GetInvokes, AllThere, ModuleAt, A!TypeOK
    <3>3. c = "module" => frames["module"] # <<>>
      BY <1>13 DEF A!GetInvokes, A!MayCall
    <3>4. /\ c # "module" => call'["module"] = call["module"]
          /\ c = "module" => call'["module"] = [kind |-> kind, to |-> m, rest |-> {}]
      BY <1>t, <3>1 DEF FrameTypes
    <3> QED
      <4>1. call'["main"].kind # "idle" => mpc' = "starting" \/ phase' = "exec"
        <5>1. phase = "exec" /\ phase' = phase
          BY <1>i, <1>13 DEF A!GetInvokes, AllThere
        <5> QED
          BY <5>1
      <4> QED
        BY <1>i, <1>13, <3>1, <3>2, <3>3, <3>4, <4>1 DEF HandlerAt, A!GetInvokes
  <2> QED
    BY <2>1, <2>2, <2>3, <2>4, <2>5, <2>6 DEF FrameInv
<1>14. ASSUME NEW c \in A!CallingThreads, A!GetNotifys(c) PROVE FrameInv'
  <2>1. FrameTypes'
    BY <1>t, <1>i, <1>14 DEF A!GetNotifys, A!MayCall, FrameTypes, A!TypeOK, Calls
  <2>2. AllThere'
    BY <1>t, <1>i, <1>14 DEF A!GetNotifys, A!MayCall, AllThere, MainAt, A!TypeOK
  <2>3. MainAt'
    BY <1>t, <1>i, <1>14 DEF A!GetNotifys, A!MayCall, MainAt, AllThere, A!TypeOK
  <2>4. ModuleAt'
    BY <1>t, <1>i, <1>14 DEF A!GetNotifys, A!MayCall, ModuleAt, MainAt, AllThere, A!TypeOK
  <2>5. EventsAtHome'
    BY <1>t, <1>i, <1>14 DEF A!GetNotifys, A!MayCall, EventsAtHome, ModuleAt, MainAt, AllThere, A!TypeOK
  <2>6. HandlerAt'
    BY <1>t, <1>i, <1>14 DEF A!GetNotifys, A!MayCall, HandlerAt, FrameTypes, Calls, EventsAtHome, ModuleAt, AllThere, A!TypeOK
  <2> QED
    BY <2>1, <2>2, <2>3, <2>4, <2>5, <2>6 DEF FrameInv
<1>15. ASSUME NEW c \in A!CallingThreads, NEW m \in Modules \cup {None}, NEW from \in A!CallingThreads \cup {None},
              NEW rest \in Calls, NEW posted \in Calls, A!Send(c, m, from, rest, posted),
              rest.kind \in {"idle", "notify"},
              UNCHANGED <<phase, todo, plugins, registered, exists, started, thread, running, mpc, cur>>,
              calls' = calls, c = "module" /\ posted.kind = "wait" => thread[m] = "module",
              c = "module" => call["module"].kind = "notify" \/ frames["module"] # <<>>,
              c = "main" /\ mpc # "starting" => phase = "exec",
              posted.kind \in {"idle", "notify", "wait"}
       PROVE  FrameInv'
  <2> DEFINE e == A!Event("call", m, from)
             f == A!Frame(m, None, rest)
  <2>m. m \in exists => m \in Modules /\ thread[m] \in A!Loops /\ e \in Events /\ f \in Frames
                        /\ e.mod = m /\ e.kind = "call" /\ f.mod = m /\ f.rest = rest
    BY <1>t DEF A!TypeOK, A!Event, Events, A!Frame, Frames
  <2> HIDE DEF e, f
  <2>c. /\ call' \in [A!CallingThreads -> Calls]
        /\ \A d \in A!CallingThreads : d # c => call'[d] = call[d]
        /\ call'[c] \in {rest, A!Idle} \/ (thread[m] # c /\ call'[c] = posted)
    <3>1. \E x \in {rest, A!Idle, posted} : /\ call' = [call EXCEPT ![c] = x]
                                            /\ x = posted => x \in {rest, A!Idle} \/ thread[m] # c
      BY <1>15 DEF A!Send
    <3>2. A!Idle \in Calls
      BY DEF Calls
    <3> HIDE DEF A!Idle
    <3> QED
      BY <1>t, <3>1, <3>2 DEF FrameTypes
  <2>d. dangling' \subseteq A!CallingThreads
    BY <1>t, <1>15 DEF A!Send, A!TypeOK
  <2>q. /\ queue' \in [A!Loops -> Seq(Events)]
        /\ \A l \in A!Loops : \A x \in Held(queue'[l]) :
             x \in Held(queue[l]) \/ (m \in exists /\ l = thread[m] /\ x = e)
    <3>1. CASE UNCHANGED queue
      BY <1>t, <3>1 DEF FrameTypes
    <3>2. CASE m \in exists /\ queue' = [queue EXCEPT ![thread[m]] = Append(@, e)]
      <4>1. /\ Append(queue[thread[m]], e) \in Seq(Events)
            /\ Held(Append(queue[thread[m]], e)) = Held(queue[thread[m]]) \cup {e}
        BY <1>t, <2>m, <3>2, HeldAppend
      <4> QED
        BY <1>t, <2>m, <3>2, <4>1 DEF FrameTypes
    <3> QED
      BY <1>15, <3>1, <3>2 DEF A!Send, e
  <2>f. /\ frames' \in [A!Loops -> Seq(Frames)]
        /\ \A l \in A!Loops : \A x \in Held(frames'[l]) :
             x \in Held(frames[l]) \/ (m \in exists /\ thread[m] = l /\ l = c /\ x = f)
        /\ frames'["module"] = <<>> => frames["module"] = <<>>
        /\ frames'["main"] # <<>> => frames["main"] # <<>> \/ (m \in exists /\ thread[m] = "main" /\ c = "main")
    <3>1. CASE UNCHANGED frames
      BY <1>t, <3>1 DEF FrameTypes
    <3>2. CASE m \in exists /\ thread[m] = c /\ frames' = [frames EXCEPT ![c] = <<f>> \o @]
      <4>0. c \in A!Loops
        BY <2>m, <3>2
      <4>1. /\ <<f>> \o frames[c] \in Seq(Frames) /\ <<f>> \o frames[c] # <<>>
            /\ Held(<<f>> \o frames[c]) \subseteq Held(frames[c]) \cup {f}
        BY <1>t, <2>m, <3>2, <4>0, HeldPush DEF FrameTypes
      <4> QED
        BY <1>t, <2>m, <3>2, <4>0, <4>1 DEF FrameTypes
    <3> QED
      BY <1>15, <3>1, <3>2 DEF A!Send, f
  <2>1. FrameTypes'
    <3>1. A!TypeOK'
      BY <1>t, <1>15, <2>c, <2>d DEF A!TypeOK, Calls
    <3> QED
      BY <2>c, <2>q, <2>f, <3>1 DEF FrameTypes
  <2>2. AllThere' /\ MainAt' /\ ModuleAt'
    BY <1>i, <1>15 DEF AllThere, MainAt, ModuleAt
  <2>5. EventsAtHome'
    BY <1>i, <1>15, <2>m, <2>q DEF EventsAtHome
  <2>6. HandlerAt'
    <3>1. \A l \in A!Loops : \A x \in Held(frames'[l]) :
             x.mod \in exists' /\ thread'[x.mod] = l /\ x.rest.kind \in {"idle", "notify"}
      BY <1>i, <1>15, <2>m, <2>f DEF HandlerAt
    <3>2. frames'["main"] # <<>> => mpc' = "starting"
      <4>1. m \in exists /\ thread[m] = "main" => phase # "exec"
        BY <1>i DEF ModuleAt, AllThere
      <4> QED
        BY <1>i, <1>15, <2>f, <4>1 DEF HandlerAt
    <3>3. call'["module"].kind # "wait" /\ (call'["module"].kind = "sync" => c # "module")
      BY <1>i, <1>15, <2>c DEF HandlerAt, Calls
    <3>4. frames'["module"] = <<>> => call'["module"].kind \in {"idle", "notify"}
      BY <1>i, <1>15, <2>c, <2>f, <3>3 DEF HandlerAt
    <3>5. call'["module"].kind = "sync" =>
             call'["module"].to \in Modules /\ thread'[call'["module"].to] = "module"
      BY <1>i, <1>15, <2>c, <3>3 DEF HandlerAt
    <3>6. call'["main"].kind # "idle" => mpc' = "starting" \/ phase' = "exec"
      BY <1>i, <1>15, <2>c DEF HandlerAt
    <3> QED
      BY <3>1, <3>2, <3>3, <3>4, <3>5, <3>6 DEF HandlerAt
  <2> QED
    BY <2>1, <2>2, <2>5, <2>6 DEF FrameInv
<1>16. ASSUME NEW c \in A!CallingThreads, A!Touch(c) PROVE FrameInv'
  <2> DEFINE posted == [call[c] EXCEPT !.kind = "wait"]
  <2>1. /\ call[c] \in Calls /\ call[c].to \in Modules \cup {None} /\ A!Idle \in Calls /\ A!Idle.kind = "idle"
        /\ call[c].kind \in {"async", "sync"}
    BY <1>t, <1>16 DEF A!Touch, FrameTypes, Calls
  <2>2. posted \in Calls /\ posted.kind = "wait"
    BY <2>1 DEF Calls
  <2>3. /\ c = "module" /\ call[c].kind = "sync" => thread[call[c].to] = "module"
        /\ c = "module" => frames["module"] # <<>>
        /\ c = "main" /\ mpc # "starting" => phase = "exec"
    BY <1>i, <2>1 DEF HandlerAt
  <2>4. /\ \/ call[c].kind = "async" /\ A!Send(c, call[c].to, None, A!Idle, A!Idle)
           \/ call[c].kind = "sync" /\ A!Send(c, call[c].to, c, A!Idle, posted)
        /\ UNCHANGED <<phase, todo, plugins, registered, exists, started, thread, running, mpc, cur>>
        /\ calls' = calls
    BY <1>16 DEF A!Touch
  <2> HIDE DEF posted, A!Idle
  <2> QED
    BY <1>15, <2>1, <2>2, <2>3, <2>4
<1>17. ASSUME NEW c \in A!CallingThreads, A!NotifyOne(c) PROVE FrameInv'
  <2>1. PICK m \in call[c].rest : A!Send(c, m, None, A!Left(c, m), A!Left(c, m))
    BY <1>17 DEF A!NotifyOne
  <2>2. m \in Modules /\ call[c] \in Calls /\ call[c].kind = "notify"
    BY <1>t, <1>17 DEF A!NotifyOne, FrameTypes, Calls
  <2>3. A!Left(c, m) \in Calls /\ A!Left(c, m).kind \in {"idle", "notify"}
    BY <2>2 DEF A!Left, Calls
  <2>4. c = "main" /\ mpc # "starting" => phase = "exec"
    BY <1>i, <2>2 DEF HandlerAt
  <2>5. /\ UNCHANGED <<phase, todo, plugins, registered, exists, started, thread, running, mpc, cur>>
        /\ calls' = calls
    BY <1>17 DEF A!NotifyOne
  <2> DEFINE left == A!Left(c, m)
  <2> HIDE DEF left
  <2>6. left \in Calls /\ left.kind \in {"idle", "notify"} /\ A!Send(c, m, None, left, left)
    BY <2>1, <2>3 DEF left
  <2> QED
    BY <1>15, <2>2, <2>4, <2>5, <2>6
<1> QED
  BY <1>0, <1>1, <1>2, <1>3, <1>4, <1>5, <1>6, <1>7, <1>8, <1>9, <1>10, <1>11, <1>12, <1>13, <1>14, <1>16, <1>17 DEF A!Next, A!MainThread, A!EventThread, A!Caller

\* A slot runs on the thread its module lives on and never after its destruction,
\* before its start() only inside a start(), and a module is destroyed at home.
THEOREM ModulesSlotsInLife == MCSpec => []SlotsInLife
<1>1. FrameInv => SlotsInLife
  <2> SUFFICES ASSUME FrameInv PROVE SlotsInLife
    OBVIOUS
  <2>1. \A l \in A!Loops : A!SlotsOn(l) = {f.mod : f \in Held(frames[l])}
    BY DEF A!SlotsOn, Held
  <2>2. A!SlotsAtHome
    BY <2>1 DEF FrameInv, HandlerAt, A!SlotsAtHome
  <2>3. A!EarlySlotsInStart
    <3>1. \A l \in A!Loops, m \in Modules : m \in A!SlotsOn(l) => thread[m] = l /\ frames[l] # <<>>
      BY <2>1 DEF FrameInv, HandlerAt, Held
    <3>2. \A l \in A!Loops : A!SlotsOn(l) \subseteq Modules
      BY <2>2 DEF A!SlotsAtHome, FrameInv, FrameTypes, A!TypeOK
    <3> QED
      BY <3>1, <3>2 DEF FrameInv, HandlerAt, ModuleAt, A!EarlySlotsInStart, A!Loops
  <2>4. A!DestroyedAtHome
    BY DEF FrameInv, HandlerAt, ModuleAt, A!DestroyedAtHome
  <2> QED
    BY <2>2, <2>3, <2>4 DEF SlotsInLife, A!SlotsInLife
<1>2. MCInit => A!Init
  BY DEF MCInit
<1>3. [MCNext]_<<machine, vars, frameworkVars>> => [A!Next]_frameworkVars
  BY DEF MCNext, NotLoops, NotModules, frameworkVars
<1> QED
  BY FrameInit, FrameStep, <1>1, <1>2, <1>3, PTL DEF MCSpec

\* The event thread never waits for the main thread.
THEOREM ModulesNoCrossWait == MCSpec => []NoCrossWait
<1>1. FrameInv => NoCrossWait
  BY DEF FrameInv, HandlerAt, NoCrossWait, A!NoCrossWait
<1>2. MCInit => A!Init
  BY DEF MCInit
<1>3. [MCNext]_<<machine, vars, frameworkVars>> => [A!Next]_frameworkVars
  BY DEF MCNext, NotLoops, NotModules, frameworkVars
<1> QED
  BY FrameInit, FrameStep, <1>1, <1>2, <1>3, PTL DEF MCSpec

-----------------------------------------------------------------------------
(* TCP connections.                                                        *)

LinkInv == LinkTypeOK /\ FlagTellsState /\ OpenIsKept

\* What Reject adds to the history is a number of descriptors.
LEMMA OpenCount == Cardinality(Open) \in 0..Cardinality(Descriptors)
<1>1. Open \subseteq Descriptors
  BY DEF Open
<1>2. IsFiniteSet(Open) /\ Cardinality(Open) <= Cardinality(Descriptors)
  BY <1>1, LinkAssumption, FS_Subset
<1> QED
  BY <1>2, LinkAssumption, FS_CardinalityType

\* Every client starts unconnected and the server with no socket.
LEMMA LinkInvInit == LinkInit => LinkInv
<1> SUFFICES ASSUME LinkInit PROVE LinkInv
  OBVIOUS
<1>1. LinkTypeOK
  BY LinkAssumption DEF LinkInit, LinkTypeOK, Open
<1>2. FlagTellsState
  BY DEF LinkInit, FlagTellsState
<1>3. OpenIsKept
  BY DEF LinkInit, OpenIsKept, Open
<1> QED
  BY <1>1, <1>2, <1>3 DEF LinkInv

\* A slot of the client changes its socket, its flag and its timer together.
LEMMA ClientStep ==
  ASSUME LinkTypeOK, FlagTellsState, NEW c \in Clients, OnConnected(c) \/ OnError(c)
  PROVE  /\ state' \in [Clients -> {"unconnected", "connecting", "connected"}]
         /\ bconnect' \in [Clients -> BOOLEAN]
         /\ timer' \in [Clients -> BOOLEAN]
         /\ FlagTellsState'
<1>1. CASE OnConnected(c)
  BY <1>1 DEF OnConnected, LinkTypeOK, FlagTellsState
<1>2. CASE OnError(c)
  BY <1>2 DEF OnError, LinkTypeOK, FlagTellsState
<1> QED
  BY <1>1, <1>2

\* One step per slot of the client and of the server, and per move of the network.
LEMMA LinkStep == LinkInv /\ [LinkNext]_linkVars => LinkInv'
<1> SUFFICES ASSUME LinkInv, [LinkNext]_linkVars PROVE LinkInv'
  OBVIOUS
<1> USE LinkAssumption DEF LinkInv, client, server
<1>0. CASE UNCHANGED linkVars
  BY <1>0 DEF linkVars, LinkTypeOK, FlagTellsState, OpenIsKept, Open
<1>1. ASSUME NEW c \in Clients, Reconnect(c) PROVE LinkInv'
  <2>1. LinkTypeOK'
    BY <1>1 DEF Reconnect, LinkTypeOK, Open
  <2>2. FlagTellsState'
    BY <1>1 DEF Reconnect, LinkTypeOK, FlagTellsState
  <2>3. OpenIsKept'
    BY <1>1 DEF Reconnect, OpenIsKept, Open
  <2> QED
    BY <2>1, <2>2, <2>3
<1>2. ASSUME NEW c \in Clients, Connected(c) PROVE LinkInv'
  <2>1. backlog' \in Seq(Clients) /\ Len(backlog') <= Backlog
    BY <1>2 DEF Connected, LinkTypeOK
  <2>2. LinkTypeOK' /\ FlagTellsState'
    BY <1>2, <2>1, ClientStep DEF Connected, LinkTypeOK, Open
  <2>3. OpenIsKept'
    BY <1>2 DEF Connected, OpenIsKept, Open
  <2> QED
    BY <2>2, <2>3
<1>3. ASSUME NEW c \in Clients, Refused(c) PROVE LinkInv'
  <2>1. LinkTypeOK' /\ FlagTellsState'
    BY <1>3, ClientStep DEF Refused, LinkTypeOK, Open
  <2>2. OpenIsKept'
    BY <1>3 DEF Refused, OpenIsKept, Open
  <2> QED
    BY <2>1, <2>2
<1>4. ASSUME NEW c \in Clients, Break(c) PROVE LinkInv'
  <2>1. LinkTypeOK'
    BY <1>4 DEF Break, LinkTypeOK, ServerEnd, Open
  <2>2. FlagTellsState' /\ OpenIsKept'
    BY <1>4 DEF Break, FlagTellsState, OpenIsKept, Open
  <2> QED
    BY <2>1, <2>2
<1>5. ASSUME NEW c \in Clients, Lost(c) PROVE LinkInv'
  <2>1. LinkTypeOK' /\ FlagTellsState'
    BY <1>5, ClientStep DEF Lost, LinkTypeOK, Open
  <2>2. OpenIsKept'
    BY <1>5 DEF Lost, OpenIsKept, Open
  <2> QED
    BY <2>1, <2>2
<1>6. CASE Reject
  <2>1. Head(backlog) \in Clients /\ Tail(backlog) \in Seq(Clients) /\ Len(Tail(backlog)) <= Backlog
    BY <1>6 DEF Reject, LinkTypeOK
  <2>2. LinkTypeOK'
    BY <1>6, <2>1, OpenCount DEF Reject, LinkTypeOK, Open
  <2>3. FlagTellsState' /\ OpenIsKept'
    BY <1>6 DEF Reject, FlagTellsState, OpenIsKept, Open
  <2> QED
    BY <2>2, <2>3
<1>7. CASE Accept
  <2>1. Head(backlog) \in Clients /\ Tail(backlog) \in Seq(Clients) /\ Len(Tail(backlog)) <= Backlog
    BY <1>7 DEF Accept, LinkTypeOK
  <2>2. LinkTypeOK'
    BY <1>7, <2>1 DEF Accept, LinkTypeOK, Open
  <2>3. FlagTellsState'
    BY <1>7 DEF Accept, FlagTellsState
  <2>4. OpenIsKept'
    BY <1>7 DEF Accept, LinkTypeOK, OpenIsKept, Open
  <2> QED
    BY <2>2, <2>3, <2>4
<1>8. ASSUME NEW d \in Descriptors, OnDisconnected(d) PROVE LinkInv'
  <2>1. LinkTypeOK'
    BY <1>8 DEF OnDisconnected, LinkTypeOK, Open
  <2>2. FlagTellsState'
    BY <1>8 DEF OnDisconnected, FlagTellsState
  <2>3. OpenIsKept'
    BY <1>8 DEF OnDisconnected, LinkTypeOK, OpenIsKept, Open
  <2> QED
    BY <2>1, <2>2, <2>3
<1> QED
  BY <1>0, <1>1, <1>2, <1>3, <1>4, <1>5, <1>6, <1>7, <1>8 DEF LinkNext, OnNewConnection

\* What the three theorems below follow from.
LEMMA LinkInvariant == LinkSpec => []LinkInv
<1> QED
  BY LinkInvInit, LinkStep, PTL DEF LinkSpec

\* Sockets, flags and entries keep their types, and only open sockets close.
THEOREM LinkTypeCorrect == LinkSpec => []LinkTypeOK
<1>1. LinkInv => LinkTypeOK
  BY DEF LinkInv
<1> QED
  BY <1>1, LinkInvariant, PTL

\* bconnect_ tells the state of the socket after every slot of the client.
THEOREM LinkFlagTellsState == LinkSpec => []FlagTellsState
<1>1. LinkInv => FlagTellsState
  BY DEF LinkInv
<1> QED
  BY <1>1, LinkInvariant, PTL

\* The entry of an open server socket is never that of an earlier socket with
\* the same descriptor.
THEOREM LinkOpenIsKept == LinkSpec => []OpenIsKept
<1>1. LinkInv => OpenIsKept
  BY DEF LinkInv
<1> QED
  BY <1>1, LinkInvariant, PTL
=============================================================================
