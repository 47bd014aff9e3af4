---------------------------- MODULE MCEventLoops ----------------------------
(***************************************************************************)
(* The table of event loops, and the modules that live on one of them, are  *)
(* checked side by side: a behaviour is about one of them, and leaves the   *)
(* other as it was at the start.                                            *)
(***************************************************************************)
EXTENDS EventThread

CONSTANTS c1, c2, module, invoke, q1, q2, q3, q4,
          Modules, Workers, MaxCalls, m1, m2, w1

VARIABLES machine,
          phase, todo, plugins, registered, exists, started, thread, running, mpc, cur,
          queue, frames, call, calls, dangling

A == INSTANCE AppFramework

ASSUME MCAssumption == A!FrameworkAssumption

\* All callers ask for the same loops; c2 is a handler on one of them.
AsksAll == [c \in Callers |-> Names]
HomeOfHandler == [c \in Callers |-> IF c = c2 THEN module ELSE None]

frameworkVars == <<phase, todo, plugins, registered, exists, started, thread, running, mpc,
                   cur, queue, frames, call, calls, dangling>>

MCInit == machine \in {"loops", "modules"} /\ Init /\ A!Init

NotLoops   == UNCHANGED <<machine, frameworkVars>>
NotModules == UNCHANGED <<machine, vars>>

MCNext == \/ machine = "loops"   /\ Next   /\ NotLoops
          \/ machine = "modules" /\ A!Next /\ NotModules

\* The fairness of EventThread and AppFramework.
MCSpec == /\ MCInit /\ [][MCNext]_<<machine, vars, frameworkVars>>
          /\ WF_<<vars, frameworkVars>>(machine = "loops" /\ Stop /\ NotLoops)
          /\ WF_<<vars, frameworkVars>>(machine = "modules" /\ A!MainThread /\ NotModules)
          /\ WF_<<vars, frameworkVars>>(machine = "modules" /\ A!EventThread /\ NotModules)
          /\ \A c \in A!CallingThreads :
               WF_<<vars, frameworkVars>>(machine = "modules" /\ (A!Touch(c) \/ A!NotifyOne(c)) /\ NotModules)

SlotsInLife       == A!SlotsInLife
NoCrossWait       == A!NoCrossWait
ShutdownCompletes == A!ShutdownCompletes
SyncCallReturns   == A!SyncCallReturns
=============================================================================
