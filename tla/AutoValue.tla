----------------------------- MODULE AutoValue ------------------------------
(***************************************************************************)
(* liblua/util/autoValueCom.lua: a value that is added again and again,    *)
(* every cd, until endTime.  It keeps one timer of delayTimer, whose       *)
(* module has the pass of update and its clock; here are the calls of the  *)
(* component, and its callback, in the middle of which addFunc may wait.   *)
(***************************************************************************)
EXTENDS Naturals, Sequences

CONSTANTS
  cd, endTime,
  MaxTime, MaxTimers,   \* bounds: the clock, the timers ever made
  nil

PeriodAssumption == cd \in Nat \ {0} /\ endTime \in Nat
nilAssumption == nil \notin Nat

VARIABLES
  variant, now, auto, nodeList, set, armed, rank, running, forked, born, fired, removed,
  timerIndex, nextTime,   \* the timer and when it is due, or nil
  added,                  \* history: the times at which values were due that were added
  started,                \* history: when start was last called
  spoilt                  \* history: whether start or stop was called during addFunc,
                          \* or addFunc raised an error
ownVars == <<timerIndex, nextTime, added, started, spoilt>>
vars == <<variant, now, auto, nodeList, set, armed, rank, running, forked, born, fired, removed,
          ownVars>>

DT == INSTANCE DelayTimer WITH Variants <- {"inline"}, Periods <- {0}

Init == DT!Init /\ timerIndex = nil /\ nextTime = nil /\ added = <<>> /\ started = 0 /\ spoilt = FALSE

(* uniqueDelay, with the timer there is, if any.                           *)
SetTimer(t) ==
  /\ IF timerIndex = nil THEN DT!delay(t, 0) ELSE DT!uniqueDelay(t, timerIndex)
  /\ timerIndex' = auto /\ nextTime' = t

(* Mutant: the timer there is stays.                                       *)
startAnother ==
  /\ DT!ServiceRuns /\ now + cd < endTime
  /\ DT!delay(now + cd, 0) /\ timerIndex' = auto /\ nextTime' = now + cd
  /\ added' = <<>> /\ started' = now /\ spoilt' = (spoilt \/ running # nil)
  /\ UNCHANGED variant

start ==
  /\ DT!ServiceRuns /\ now + cd < endTime
  /\ SetTimer(now + cd)
  /\ added' = <<>> /\ started' = now /\ spoilt' = (spoilt \/ running # nil)
  /\ UNCHANGED variant

stop ==
  /\ DT!ServiceRuns /\ timerIndex # nil
  /\ DT!removeNode(timerIndex) /\ timerIndex' = nil
  /\ spoilt' = (spoilt \/ running # nil)
  /\ UNCHANGED <<variant, nextTime, added, started>>

(* onAddHandler calls addFunc.                                             *)
onAddHandler(e) ==
  /\ DT!callback(e)
  /\ added' = IF running' # nil THEN Append(added, e[1]) ELSE added
  /\ UNCHANGED <<variant, timerIndex, nextTime, started, spoilt>>

(* addFunc has returned: the next timer, if there is to be one; then the   *)
(* pass removes the timer whose callback this was.  After a start that was *)
(* overtaken nextTime may be nil, and the handler ends with an error.      *)
addFuncReturns ==
  LET next == nextTime + cd
      old == {running, timerIndex} \ {nil} IN
  /\ running # nil
  /\ IF nextTime = nil THEN DT!callbackReturns /\ UNCHANGED <<timerIndex, nextTime>>
     ELSE IF next >= endTime
     THEN DT!callbackReturns /\ timerIndex' = nil /\ nextTime' = nil
     ELSE /\ auto \in DT!Timers /\ auto' = auto + 1
          /\ nodeList' = [m \in DT!Timers |-> IF m = auto THEN [time |-> next, period |-> 0]
                                              ELSE IF m \in old THEN nil ELSE nodeList[m]]
          /\ set' = {e \in set : e[2] \notin old} \cup {<<next, auto>>}
          /\ born' = [born EXCEPT ![auto] = [time |-> next, period |-> 0]]
          /\ removed' = removed \cup ({timerIndex} \ {nil})
          /\ running' = nil /\ DT!Continue(rank)
          /\ timerIndex' = auto /\ nextTime' = next
          /\ UNCHANGED <<now, forked, fired>>
  /\ UNCHANGED <<variant, added, started, spoilt>>

(* addFunc raises an error, which the pass logs.                           *)
addFuncFails ==
  /\ DT!callbackReturns /\ spoilt' = TRUE
  /\ UNCHANGED <<variant, timerIndex, nextTime, added, started>>

(* The passes of the timers, and the clock.                                *)
Clock == (DT!update \/ DT!Tick) /\ UNCHANGED <<variant, ownVars>>

Next == start \/ stop \/ (\E e \in rank : onAddHandler(e)) \/ addFuncReturns \/ addFuncFails
  \/ Clock

Spec == Init /\ [][Next]_vars

-----------------------------------------------------------------------------
(* A value is added once for each cd since the start, however late the     *)
(* pass is that adds it, none is left out, and while it goes on there is   *)
(* the one timer; after stop, or the last value before endTime, there is   *)
(* none.  This fails once start or stop is called while addFunc waits,     *)
(* which does not look at them when it goes on, and when addFunc raises an *)
(* error, after which nothing sets the timer again.                        *)
Live == {m \in DT!Timers : nodeList[m] # nil}
Due(n) == started + n * cd
ValuesComeOnTime ==
  /\ DT!OnSchedule
  /\ ~spoilt =>
       LET n == Len(added) IN
       /\ \A i \in 1..n : added[i] = Due(i)
       /\ Live = {timerIndex} \ {nil}
       /\ timerIndex # nil => nextTime = IF running = nil THEN Due(n + 1) ELSE Due(n)
       /\ timerIndex = nil /\ nextTime = nil /\ started > 0 => Due(n + 1) >= endTime
=============================================================================
