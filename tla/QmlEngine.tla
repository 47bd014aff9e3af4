----------------------------- MODULE QmlEngine -----------------------------
(***************************************************************************)
(* modules/qml_engine: what other modules tell the user interface.  The     *)
(* module is on the main thread until its start() has returned, then on     *)
(* that of all modules, and again on the main one for stop(); the object it *)
(* calls QML with stays on the main one.  Before the page is loaded calls   *)
(* are kept, and are made together with the first call after it.  A call is *)
(* its number.                                                              *)
(***************************************************************************)
EXTENDS Integers, Sequences

CONSTANT MaxCalls   \* bound

QmlAssumption == MaxCalls \in Nat

VARIABLES thread,     \* of the module: "main" or "module"
          phase,      \* "made", "started", "stopping" or "stopped"
          m_isQmlLoaded,
          engine,     \* m_qmlEngine; m_communication goes with it
          made,       \* calls so far
          posted,     \* to the module's event queue
          m_storeCallsFromCpp,
          invoked,    \* posted to m_communication, on the main thread
          shown,      \* what QML was told
          direct      \* calls made on the module's thread

qmlVars == <<thread, phase, m_isQmlLoaded, engine, made, posted, m_storeCallsFromCpp, invoked,
             shown, direct>>

Init == /\ thread = "main" /\ phase = "made" /\ m_isQmlLoaded = FALSE /\ engine = FALSE
        /\ made = 0 /\ posted = <<>> /\ m_storeCallsFromCpp = <<>> /\ invoked = <<>>
        /\ shown = <<>> /\ direct = {}

\* Mutant of HandOn: the calls that were kept come after this one.
HandOnFirst(calls) ==
  LET all == calls \o m_storeCallsFromCpp
  IN IF thread = "main" THEN shown' = shown \o all /\ UNCHANGED invoked
     ELSE invoked' = invoked \o all /\ UNCHANGED shown

\* Those that were kept and this one are invoked: at once on the main thread.
HandOn(calls) ==
  LET all == m_storeCallsFromCpp \o calls
  IN IF thread = "main" THEN shown' = shown \o all /\ UNCHANGED invoked
     ELSE invoked' = invoked \o all /\ UNCHANGED shown

CallFromCpp(k) ==
  IF ~m_isQmlLoaded
  THEN /\ m_storeCallsFromCpp' = Append(m_storeCallsFromCpp, k)
       /\ UNCHANGED <<invoked, shown>>
  ELSE HandOn(<<k>>) /\ m_storeCallsFromCpp' = <<>>

\* A module emits on the thread that this one is on: the slot is called.
CallDirect == /\ phase # "stopped" /\ made < MaxCalls
              /\ made' = made + 1 /\ CallFromCpp(made')
              /\ direct' = direct \cup {made'}
              /\ UNCHANGED <<thread, phase, m_isQmlLoaded, engine, posted>>

\* It emits on another one, or a controller invokes the module.
CallPosted == /\ phase # "stopped" /\ made < MaxCalls
              /\ made' = made + 1 /\ posted' = Append(posted, made')
              /\ UNCHANGED <<thread, phase, m_isQmlLoaded, engine, m_storeCallsFromCpp, invoked, shown, direct>>

\* The main thread reads no events of the module before it has started all and
\* while it stops them.
HandlePosted == /\ phase = "started" /\ posted # <<>>
                /\ CallFromCpp(Head(posted)) /\ posted' = Tail(posted)
                /\ UNCHANGED <<thread, phase, m_isQmlLoaded, engine, made, direct>>

Show == /\ phase = "started" /\ invoked # <<>>
        /\ shown' = Append(shown, Head(invoked)) /\ invoked' = Tail(invoked)
        /\ UNCHANGED <<thread, phase, m_isQmlLoaded, engine, made, posted, m_storeCallsFromCpp, direct>>

\* start(): the page is loaded, if it is there; nothing looks at the result.
Start == /\ phase = "made" /\ thread = "main" /\ ~engine
         /\ m_isQmlLoaded' \in BOOLEAN /\ engine' = m_isQmlLoaded'
         /\ UNCHANGED <<thread, phase, made, posted, m_storeCallsFromCpp, invoked, shown, direct>>

\* The module moves with what was posted to it.
MoveToModules == /\ phase = "made"
                 /\ phase' = "started" /\ thread' = "module"
                 /\ UNCHANGED <<m_isQmlLoaded, engine, made, posted, m_storeCallsFromCpp, invoked, shown, direct>>

MoveToMain == /\ phase = "started"
              /\ phase' = "stopping" /\ thread' = "main"
              /\ UNCHANGED <<m_isQmlLoaded, engine, made, posted, m_storeCallsFromCpp, invoked, shown, direct>>

\* The engine goes, and with it what was posted to its object.
Stop == /\ phase = "stopping" /\ phase' = "stopped"
        /\ m_isQmlLoaded' = FALSE /\ engine' = FALSE
        /\ invoked' = IF engine THEN <<>> ELSE invoked
        /\ UNCHANGED <<thread, made, posted, m_storeCallsFromCpp, shown, direct>>

Next == CallDirect \/ CallPosted \/ HandlePosted \/ Show \/ Start \/ MoveToModules \/ MoveToMain
        \/ Stop

-----------------------------------------------------------------------------
\* While the module runs no call is lost or told twice.  Of two calls the later
\* one is told first only when it was made on the module's thread and the other
\* one was posted: calls kept before the page was loaded come in order and before
\* any later one (QmlPrivateEngine.cpp:204-239).
CallsInOrder ==
  phase \in {"made", "started"} =>
    LET all == shown \o invoked \o m_storeCallsFromCpp \o posted
    IN /\ Len(all) = made /\ {all[i] : i \in DOMAIN all} = 1..made
       /\ \A i \in DOMAIN all : \A j \in 1..(i - 1) :
            all[j] > all[i] => all[j] \in direct /\ all[i] \notin direct
=============================================================================
