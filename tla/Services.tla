------------------------------ MODULE Services ------------------------------
(***************************************************************************)
(* Four parts of a skynet service that share no state, each alone: the     *)
(* closing of a cluster, calls to other nodes, the frame scheduler and the *)
(* timers.  part says which one a behaviour is about; the others stay as   *)
(* they begin.                                                             *)
(***************************************************************************)
EXTENDS Naturals

CONSTANTS
  Nodes, Level, LoginLevel, closeSeconds,   \* of the cluster
  Requests, command, arg,                   \* of the calls
  MaxHandles,                               \* of the scheduler
  Variants, Periods, MaxTimers,             \* of the timers
  MaxTime,                                  \* bound: the clocks
  nil

VARIABLES
  part,
  cmNow, clusterMap, curCloseLevel, curCloseStep, closeExpireTime, closeTagMap, calls, process,
  known, told,
  kind, messages, dispatched, caller, main, isTimeout, hasCallBack, cbRuns, timeoutRuns,
  open, continue, initialHandle, call_map, schedulerCo, keys, scRunning,
  variant, dtNow, auto, nodeList, set, armed, rank, dtRunning, forked, born, fired, removed

CM == INSTANCE ClusterMgr WITH now <- cmNow
CC == INSTANCE ClusterCall
SC == INSTANCE Scheduler WITH running <- scRunning
DT == INSTANCE DelayTimer WITH now <- dtNow, running <- dtRunning

ASSUME ServicesAssumption ==
  /\ CM!LevelAssumption /\ CM!TimeAssumption /\ CM!nilAssumption
  /\ CC!RequestsAssumption /\ CC!ArgsAssumption
  /\ SC!HandlesAssumption
  /\ DT!VariantsAssumption /\ DT!PeriodsAssumption /\ DT!BoundAssumption /\ DT!nilAssumption

cmVars == <<cmNow, clusterMap, curCloseLevel, curCloseStep, closeExpireTime, closeTagMap, calls,
            process, known, told>>
ccVars == <<kind, messages, dispatched, caller, main, isTimeout, hasCallBack, cbRuns, timeoutRuns>>
scVars == <<open, continue, initialHandle, call_map, schedulerCo, keys, scRunning>>
dtVars == <<variant, dtNow, auto, nodeList, set, armed, rank, dtRunning, forked, born, fired, removed>>
svars == <<part, cmVars, ccVars, scVars, dtVars>>

SInit ==
  /\ part \in {"closing", "calls", "frames", "timers"}
  /\ CM!Init /\ CC!Init /\ SC!Init /\ DT!Init
  /\ part = "timers" \/ variant = CHOOSE v \in Variants : TRUE

Closing == part = "closing" /\ CM!Next /\ UNCHANGED <<part, ccVars, scVars, dtVars>>
Calls == part = "calls" /\ CC!Next /\ UNCHANGED <<part, cmVars, scVars, dtVars>>
Frames == part = "frames" /\ SC!Next /\ UNCHANGED <<part, cmVars, ccVars, dtVars>>
Timing == part = "timers" /\ DT!Next /\ UNCHANGED <<part, cmVars, ccVars, scVars>>

SNext == Closing \/ Calls \/ Frames \/ Timing

SSpec == SInit /\ [][SNext]_svars

(* The fairness of each of them.                                           *)
SFairSpec ==
  /\ SSpec
  /\ WF_cmVars(part = "closing" /\ CM!Tick)
  /\ WF_cmVars(part = "closing" /\ CM!update)
  /\ WF_cmVars(part = "closing" /\ CM!abort)
  /\ \A r \in Requests : WF_ccVars(part = "calls" /\ CC!wake(r))
  /\ WF_scVars(part = "frames" /\ SC!coFun)
  /\ WF_scVars(part = "frames" /\ SC!callReturns)
  /\ WF_scVars(part = "frames" /\ SC!updateEnds)
  /\ WF_scVars(part = "frames" /\ SC!sleepEnds)
  /\ WF_scVars(part = "frames" /\ \E h \in SC!Handles : SC!call(h))
  /\ WF_dtVars(part = "timers" /\ DT!Clock)

-----------------------------------------------------------------------------
(* What is said of each of them in its module.                             *)
CloseIsOrderly == CM!CloseIsOrderly
CloseEnds == CM!CloseEnds
CallersAreTold == CC!CallersAreTold
NoStartIsLost == SC!NoStartIsLost
FunctionsRun == SC!FunctionsRun
OnSchedule == DT!OnSchedule
RemovedDoNotFire == DT!RemovedDoNotFire
EveryTimerFires == DT!EveryTimerFires
=============================================================================
