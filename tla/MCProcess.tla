------------------------------ MODULE MCProcess ------------------------------
(***************************************************************************)
(* Instance for TLC of what one process does and must come to an end of:   *)
(* the drain, with a server around it or with handlers that know only the  *)
(* drain, the limiter of uploads, the calls to a cloud service, and the    *)
(* uploads of a service with the sweeps after them.  A behaviour is about  *)
(* one of the five; the others wait.                                       *)
(***************************************************************************)
EXTENDS Shutdown, AdaptiveCPUSemaphore, BlockBackends, ObjectService

VARIABLE about

CONSTANTS b1, b2, id1, id2, u1, u2

MCDeletes == {{b1, b2}}
SharedBlocks == {<<b1>>, <<b1, b2>>, <<b1, b1>>}

serverVars == <<main, expired, other, cut>>

(* A behaviour that is not about the cloud finds one store, and it empty;  *)
(* one that is not about the limiter finds some number of processors.      *)
MCInit ==
  /\ ShutdownInit /\ LimiterInit /\ CloudInit /\ ServiceInit
  /\ about \in {"drain", "server", "limiter", "cloud", "service"}
  /\ about # "cloud" => remote = {} /\ provider = CHOOSE p \in Providers : TRUE
  /\ about # "limiter" => procs = CHOOSE n \in Processors : TRUE

DrainAlone   == about = "drain" /\ DrainNext
                /\ UNCHANGED <<serverVars, limiterVars, cloudVars, serviceVars, about>>
ServerAlone  == about = "server" /\ ShutdownNext
                /\ UNCHANGED <<limiterVars, cloudVars, serviceVars, about>>
LimiterAlone == about = "limiter" /\ LimiterNext
                /\ UNCHANGED <<vars, cloudVars, serviceVars, about>>
CloudAlone   == about = "cloud" /\ CloudNext
                /\ UNCHANGED <<vars, limiterVars, serviceVars, about>>
ServiceAlone == about = "service" /\ ServiceNext
                /\ UNCHANGED <<vars, limiterVars, cloudVars, about>>

(* MainStep is not enabled unless a server runs, nor is a step of a caller *)
(* unless the limiter does, or the caller has begun a call.                *)
MCFairness ==
  /\ WF_vars(MainStep)
  /\ \A c \in Callers :
       /\ WF_limiterVars(Poll(c))
       /\ WF_limiterVars(Release(c)) /\ WF_limiterVars(ReleaseAgain(c))
  /\ \A c \in CloudCallers : WF_cloudVars(Proceed(c))
  /\ WF_serviceVars(about = "service" /\ TimePasses)
  /\ \A w \in Sweepers : WF_serviceVars(about = "service" /\ SweepProgress(w))

MCSpec ==
  /\ MCInit
  /\ [][DrainAlone \/ ServerAlone \/ LimiterAlone \/ CloudAlone \/ ServiceAlone]_<<vars, limiterVars,
                                                              cloudVars, serviceVars, about>>
  /\ MCFairness
=============================================================================
