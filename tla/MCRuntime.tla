------------------------------- MODULE MCRuntime -------------------------------
(***************************************************************************)
(* What runs in the memory of the server beside the requests: the hub of   *)
(* the notifications, a rate limiter and the process itself.  They share   *)
(* nothing; a behaviour is about one of them, its focus, while the others  *)
(* stand still.                                                            *)
(***************************************************************************)
EXTENDS SseHub, Lifecycle

CONSTANTS Keys, Max, Window

VARIABLES focus, entries, phase, fired, answer

Rate == INSTANCE RateLimiter

ASSUME RateLimiterAssumption == Max \in Nat \ {0} /\ Window \in Nat \ {0}

limiterVars == <<entries, phase, fired, answer>>
runtimeVars == <<focus, vars, limiterVars, processVars>>

RuntimeInit ==
  /\ focus \in {"hub", "limiter", "process"}
  /\ Init
  /\ Rate!Init
  /\ ProcessInit

RuntimeNext ==
  /\ UNCHANGED focus
  /\ \/ focus = "hub" /\ Next /\ UNCHANGED <<limiterVars, processVars>>
     \/ focus = "limiter" /\ Rate!Next /\ UNCHANGED <<vars, processVars>>
     \/ focus = "process" /\ ProcessNext /\ UNCHANGED <<vars, limiterVars>>

(* The fairness of the module in focus: HubFairness, and that of
   RateLimiter!FairSpec and of ProcessFairSpec.                             *)
RuntimeSpec ==
  /\ RuntimeInit /\ [][RuntimeNext]_runtimeVars
  /\ HubFairness
  /\ WF_limiterVars(focus = "limiter" /\ Rate!Tick)
  /\ WF_limiterVars(focus = "limiter" /\ Rate!Cleanup)
  /\ WF_processVars(focus = "process" /\ Start)
  /\ WF_processVars(focus = "process" /\ Break)
  /\ \A t \in Threads : WF_processVars(focus = "process" /\ Stop(t))
-------------------------------------------------------------------------------
(* Every variable has the type its module gives it. *)
RuntimeTypeOK == TypeOK /\ Rate!TypeOK /\ ProcessTypeOK

(* A limiter that cleans up answers as one that forgets nothing
   (RateLimiter!WindowKept).                                                *)
WindowKept == Rate!WindowKept

(* A key that is not used any more is forgotten (RateLimiter!Forgotten). *)
Forgotten == Rate!Forgotten
===============================================================================
