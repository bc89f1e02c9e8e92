----------------------------- MODULE Scheduler -----------------------------
(***************************************************************************)
(* scheduler.lua: a coroutine of its own calls the functions scheduled     *)
(* once in every frame, and sleeps for what is left of the frame.  The     *)
(* functions may wait, and others, or the functions themselves, then       *)
(* schedule and remove functions, pause, start and destroy the scheduler.  *)
(*                                                                         *)
(* How long a frame is is left out: a sleep ends at some time, and a start *)
(* or a destroy ends it at once, as skynet.wakeup does.  A function that   *)
(* raises an error is one that returns.                                    *)
(***************************************************************************)
EXTENDS Naturals, FiniteSets

CONSTANTS nil, MaxHandles   \* bound: functions scheduled

Handles == 1..MaxHandles
Running == [handle : Handles, func : {"function", "true"}]

HandlesAssumption == MaxHandles \in Nat /\ nil \notin Running

VARIABLES
  open, continue,
  initialHandle,
  call_map,     \* of each handle: "function", "true" once removed, or "none"
  schedulerCo,  \* "ready" to go round its loop, "update", "sleep", "wait" or "over"
  keys,         \* handles update has yet to look up
  running       \* the handle update calls, and what it has for it
frame == <<keys, running>>
vars == <<open, continue, initialHandle, call_map, schedulerCo, frame>>

Init ==
  /\ open = TRUE /\ continue = FALSE /\ initialHandle = 0
  /\ call_map = [h \in Handles |-> "none"]
  /\ schedulerCo = "ready" /\ keys = {} /\ running = nil

(* Another coroutine, or the function that is called, has the processor.   *)
Yielded == schedulerCo = "update" => running # nil

scheduleUpdate ==
  /\ Yielded /\ initialHandle < MaxHandles /\ initialHandle' = initialHandle + 1
  /\ call_map' = [call_map EXCEPT ![initialHandle'] = "function"]
  /\ UNCHANGED <<open, continue, schedulerCo, frame>>

unscheduleUpdate(h) ==
  /\ Yielded /\ call_map[h] # "none"
  /\ call_map' = [call_map EXCEPT ![h] = "true"]
  /\ UNCHANGED <<open, continue, initialHandle, schedulerCo, frame>>

(* skynet.wakeup: of a coroutine that sleeps or waits.                     *)
Woken == IF schedulerCo \in {"sleep", "wait"} THEN "ready" ELSE schedulerCo

(* Mutant: start only sets the flag.                                       *)
startUnwoken ==
  /\ Yielded /\ continue' = TRUE
  /\ UNCHANGED <<open, initialHandle, call_map, schedulerCo, frame>>

start ==
  /\ Yielded /\ continue' = TRUE /\ schedulerCo' = Woken
  /\ UNCHANGED <<open, initialHandle, call_map, frame>>

pause ==
  /\ Yielded /\ continue' = FALSE
  /\ UNCHANGED <<open, initialHandle, call_map, schedulerCo, frame>>

destroy ==
  /\ Yielded /\ open' = FALSE /\ continue' = FALSE /\ schedulerCo' = Woken
  /\ UNCHANGED <<initialHandle, call_map, frame>>

(* The coroutine goes round its loop once; update lists the handles.       *)
coFun ==
  /\ schedulerCo = "ready"
  /\ schedulerCo' = IF ~open THEN "over" ELSE IF continue THEN "update" ELSE "wait"
  /\ keys' = IF schedulerCo' = "update" THEN {h \in Handles : call_map[h] # "none"} ELSE {}
  /\ UNCHANGED <<open, continue, initialHandle, call_map, running>>

(* Mutant: what was scheduled when update began is called.                 *)
callListed(h) ==
  /\ schedulerCo = "update" /\ running = nil /\ h \in keys
  /\ keys' = keys \ {h} /\ running' = [handle |-> h, func |-> "function"]
  /\ UNCHANGED <<open, continue, initialHandle, call_map, schedulerCo>>

(* update calls what it has for the next handle, in no particular order.   *)
call(h) ==
  /\ schedulerCo = "update" /\ running = nil /\ h \in keys
  /\ keys' = keys \ {h} /\ running' = [handle |-> h, func |-> call_map[h]]
  /\ UNCHANGED <<open, continue, initialHandle, call_map, schedulerCo>>

callReturns ==
  /\ running # nil /\ running' = nil
  /\ UNCHANGED <<open, continue, initialHandle, call_map, schedulerCo, keys>>

(* The coroutine sleeps, even if no time is left.                          *)
updateEnds ==
  /\ schedulerCo = "update" /\ running = nil /\ keys = {}
  /\ schedulerCo' = "sleep"
  /\ UNCHANGED <<open, continue, initialHandle, call_map, frame>>

sleepEnds ==
  /\ Yielded /\ schedulerCo = "sleep" /\ schedulerCo' = "ready"
  /\ UNCHANGED <<open, continue, initialHandle, call_map, frame>>

Next ==
  \/ scheduleUpdate \/ start \/ pause \/ destroy
  \/ \E h \in Handles : unscheduleUpdate(h) \/ call(h)
  \/ coFun \/ callReturns \/ updateEnds \/ sleepEnds

Spec == Init /\ [][Next]_vars

(* skynet resumes what is ready and what has slept; functions return.      *)
Fairness ==
  /\ WF_vars(coFun) /\ WF_vars(callReturns) /\ WF_vars(updateEnds) /\ WF_vars(sleepEnds)
  /\ WF_vars(\E h \in Handles : call(h))

FairSpec == Spec /\ Fairness

-----------------------------------------------------------------------------
(* Types; handles are given out in order.                                  *)
TypeOK ==
  /\ open \in BOOLEAN /\ continue \in BOOLEAN /\ initialHandle \in 0..MaxHandles
  /\ call_map \in [Handles -> {"none", "function", "true"}]
  /\ \A h \in Handles : call_map[h] = "none" <=> h > initialHandle
  /\ schedulerCo \in {"ready", "update", "sleep", "wait", "over"}
  /\ keys \subseteq 1..initialHandle
  /\ running \in {nil} \cup [handle : 1..initialHandle, func : {"function", "true"}]

(* unscheduleUpdate: a function removed by another function of the same    *)
(* frame, or while one waits, is not called any more.                      *)
RemovedDoNotRun ==
  [][\A h \in Handles : call_map[h] = "true" /\ running = nil =>
       running' # [handle |-> h, func |-> "function"]]_vars

(* start, destroy: the coroutine never waits while the scheduler is to run *)
(* or to end, however they fall together with pause and the end of a frame.*)
NoStartIsLost == TypeOK /\ (schedulerCo = "wait" => open /\ ~continue)

(* update: a function that is scheduled is called, if the scheduler is not *)
(* paused or destroyed for ever and the others return.                     *)
EveryFunctionIsCalled ==
  \A h \in Handles :
    call_map[h] = "function" /\ open /\ continue ~>
      \/ ~continue \/ ~open \/ call_map[h] = "true"
      \/ running = [handle |-> h, func |-> "function"]

(* destroy: the coroutine ends, whatever it was doing.                     *)
DestroyEnds == ~open ~> schedulerCo = "over"

(* All of these: a frame comes to every function there is and to no other, *)
(* and an end to every scheduler.                                          *)
FunctionsRun == RemovedDoNotRun /\ EveryFunctionIsCalled /\ DestroyEnds
=============================================================================
