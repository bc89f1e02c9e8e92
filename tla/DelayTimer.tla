----------------------------- MODULE DelayTimer -----------------------------
(***************************************************************************)
(* The timers of a service: delayTimer.lua, delayTimerLit.lua,             *)
(* delayTimerMilLit.lua ("inline") and delayTimerForkInst.lua ("fork").    *)
(* Timers are kept by id in nodeList and by due time in set; update, run   *)
(* by the clock, calls those that are due.                                 *)
(*                                                                         *)
(* A callback may wait (it is a coroutine), add timers and remove any of   *)
(* them, its own too.  The inline variants wait for it in the middle of    *)
(* the pass; the other forks every callback and has done with the timers.  *)
(* Only delayTimerMilLit has timers with a period; 0 is none.  Whether a   *)
(* callback ends with an error makes no difference: it is run by xpcall.   *)
(***************************************************************************)
EXTENDS Naturals

CONSTANTS
  Variants,             \* of the timers: "inline" and "fork"
  Periods,              \* periods of timers: 0 is a timer that fires once
  MaxTime, MaxTimers,   \* bounds: the clock, the timers ever made
  nil

VariantsAssumption == Variants \subseteq {"inline", "fork"}
PeriodsAssumption == Periods \subseteq Nat /\ 0 \in Periods
BoundAssumption == MaxTime \in Nat /\ MaxTimers \in Nat

Timers == 1..MaxTimers
Node == [time : Nat, period : Periods]
nilAssumption == nil \notin Node /\ nil \notin Timers

VARIABLES
  variant,              \* the one of this behaviour
  now, auto,            \* the clock, the next id
  nodeList, set,        \* timers by id, and pairs <<due time, id>>
  armed,                \* skynet.timeout will run update
  rank,                 \* the pairs this pass of update has yet to handle
  running,              \* the timer whose callback the pass waits for, or nil
  forked,               \* callbacks forked that have not begun
  born, fired, removed  \* history: how made, how often fired, removed by hand
pass == <<armed, rank, running, forked>>
vars == <<variant, now, auto, nodeList, set, armed, rank, running, forked, born, fired, removed>>

Init ==
  /\ variant \in Variants
  /\ now = 1 /\ auto = 1 /\ nodeList = [m \in Timers |-> nil] /\ set = {}
  /\ armed = TRUE /\ rank = {} /\ running = nil /\ forked = {}
  /\ born = [m \in Timers |-> nil] /\ fired = [m \in Timers |-> 0] /\ removed = {}

EntriesOf(m) == {e \in set : e[2] = m}
Due == {e \in set : e[1] <= now}

(* Code of the service runs between passes and while a callback waits.     *)
ServiceRuns == armed \/ running # nil

(* delay and every: a timer for time t, then each period.                  *)
delay(t, p) ==
  LET node == [time |-> t, period |-> p] IN
  /\ ServiceRuns /\ auto \in Timers
  /\ nodeList' = [nodeList EXCEPT ![auto] = node] /\ set' = set \cup {<<t, auto>>}
  /\ born' = [born EXCEPT ![auto] = node] /\ auto' = auto + 1
  /\ UNCHANGED <<now, pass, fired, removed>>

removeNode(m) ==
  /\ ServiceRuns /\ m < auto
  /\ nodeList' = [nodeList EXCEPT ![m] = nil] /\ set' = set \ EntriesOf(m)
  /\ removed' = removed \cup {m}
  /\ UNCHANGED <<now, auto, pass, born, fired>>

(* uniqueDelay: the new timer replaces timer m.                            *)
uniqueDelay(t, m) ==
  LET node == [time |-> t, period |-> 0] IN
  /\ ServiceRuns /\ auto \in Timers /\ m < auto
  /\ nodeList' = [nodeList EXCEPT ![m] = nil, ![auto] = node]
  /\ set' = (set \ EntriesOf(m)) \cup {<<t, auto>>}
  /\ removed' = removed \cup {m}
  /\ born' = [born EXCEPT ![auto] = node] /\ auto' = auto + 1
  /\ UNCHANGED <<now, pass, fired>>

(* update of the inline variants: the timers that are due now are handled  *)
(* one by one.                                                             *)
update ==
  /\ variant = "inline" /\ armed /\ Due # {}
  /\ armed' = FALSE /\ rank' = Due
  /\ UNCHANGED <<now, auto, nodeList, set, running, forked, born, fired, removed>>

(* The pass goes on with the rest; after the last one update runs itself   *)
(* again.                                                                  *)
Continue(rest) == rank' = rest /\ armed' = (rest = {})

IsNext(e) == e \in rank /\ \A f \in rank : e[1] <= f[1]

Fire(m) == fired' = [fired EXCEPT ![m] = @ + 1]

(* Mutant: nobody looks whether the timer is still there.                  *)
callbackUnchecked(e) ==
  /\ ~armed /\ running = nil /\ IsNext(e)
  /\ running' = e[2] /\ Fire(e[2]) /\ rank' = rank \ {e}
  /\ UNCHANGED <<now, auto, nodeList, set, armed, forked, born, removed>>

(* The next timer of the pass is called, if nobody removed it meanwhile.   *)
callback(e) ==
  /\ ~armed /\ running = nil /\ IsNext(e)
  /\ \/ /\ nodeList[e[2]] # nil
        /\ running' = e[2] /\ Fire(e[2]) /\ rank' = rank \ {e}
        /\ UNCHANGED armed
     \/ /\ nodeList[e[2]] = nil
        /\ Continue(rank \ {e})
        /\ UNCHANGED <<running, fired>>
  /\ UNCHANGED <<now, auto, nodeList, set, forked, born, removed>>

(* Mutant: counted from when the callback ended.                           *)
NextDueFromNow(node) == now + node.period

(* Where a timer with a period is put again.                               *)
NextDue(node) == node.time + node.period

(* Mutant: no xpcall, the error of a callback ends update.                 *)
callbackEndsUpdate ==
  /\ running # nil /\ running' = nil /\ rank' = {}
  /\ UNCHANGED <<now, auto, nodeList, set, armed, forked, born, fired, removed>>

(* The callback has returned: a timer with a period that is still there is *)
(* put again, any other is gone.                                           *)
callbackReturns ==
  LET m == running
      again == [nodeList[m] EXCEPT !.time = NextDue(nodeList[m])] IN
  /\ running # nil /\ running' = nil /\ Continue(rank)
  /\ IF nodeList[m] # nil /\ nodeList[m].period > 0
     THEN /\ nodeList' = [nodeList EXCEPT ![m] = again]
          /\ set' = (set \ EntriesOf(m)) \cup {<<again.time, m>>}
     ELSE nodeList' = [nodeList EXCEPT ![m] = nil] /\ set' = set \ EntriesOf(m)
  /\ UNCHANGED <<now, auto, forked, born, fired, removed>>

(* update of delayTimerForkInst: every timer that is due is forked and     *)
(* removed, in one go.                                                     *)
forkDue ==
  /\ variant = "fork" /\ Due # {}
  /\ forked' = forked \cup Due /\ set' = set \ Due
  /\ nodeList' = [m \in Timers |-> IF \E e \in Due : e[2] = m THEN nil ELSE nodeList[m]]
  /\ UNCHANGED <<now, auto, armed, rank, running, born, fired, removed>>

(* A forked callback begins.                                               *)
begin(e) ==
  /\ e \in forked /\ forked' = forked \ {e} /\ Fire(e[2])
  /\ UNCHANGED <<now, auto, nodeList, set, armed, rank, running, born, removed>>

Tick ==
  /\ now < MaxTime /\ now' = now + 1
  /\ UNCHANGED <<auto, nodeList, set, pass, born, fired, removed>>

Client ==
  \/ \E t \in 1..MaxTime, p \in Periods : (variant = "fork" => p = 0) /\ delay(t, p)
  \/ \E m \in Timers : removeNode(m)
  \/ \E t \in 1..MaxTime, m \in Timers : uniqueDelay(t, m)

Clock ==
  /\ \/ update \/ (\E e \in rank : callback(e)) \/ callbackReturns \/ forkDue
     \/ (\E e \in forked : begin(e))
  /\ UNCHANGED variant

Next == Clock \/ ((Client \/ Tick) /\ UNCHANGED variant)

Spec == Init /\ [][Next]_vars

(* skynet.timeout fires, what is forked runs, and every callback returns.  *)
FairSpec == Spec /\ WF_vars(Clock)

-----------------------------------------------------------------------------
(* Types; ids in use are below the next one.                               *)
TypeOK ==
  /\ variant \in Variants /\ now \in Nat /\ auto \in 1..MaxTimers + 1
  /\ nodeList \in [Timers -> Node \cup {nil}] /\ born \in [Timers -> Node \cup {nil}]
  /\ set \subseteq Nat \X Timers /\ rank \subseteq Nat \X Timers
  /\ forked \subseteq Nat \X Timers
  /\ armed \in BOOLEAN /\ running \in Timers \cup {nil}
  /\ fired \in [Timers -> Nat] /\ removed \subseteq Timers
  /\ \A m \in Timers : born[m] # nil <=> m < auto

(* The two indices agree, whatever a callback did to its own timer or to   *)
(* others of the pass: a timer in only one of them would never fire, or    *)
(* could not be removed.                                                   *)
IndicesAgree ==
  /\ TypeOK
  /\ set = {<<nodeList[m].time, m>> : m \in {x \in Timers : nodeList[x] # nil}}

(* A timer fires once, one with a period once for each period: never early *)
(* and, however late a pass is, never off the schedule it was made with;   *)
(* and the indices agree.                                                  *)
OnSchedule ==
  IndicesAgree /\ \A m \in Timers : born[m] # nil =>
    /\ fired[m] > 0 => born[m].time + (fired[m] - 1) * born[m].period <= now
    /\ born[m].period = 0 => fired[m] <= 1
    /\ nodeList[m] # nil /\ running # m =>
         nodeList[m].time = born[m].time + fired[m] * born[m].period

(* A removed timer is never called, even if it was removed, or replaced,   *)
(* by a callback of the same pass.  Inline variants only.                  *)
RemovedDoNotFire ==
  [][variant = "inline" => \A m \in removed : fired'[m] = fired[m]]_vars

(* Timer m should have been called by now.                                 *)
Late(m) ==
  /\ born[m] # nil /\ m \notin removed
  /\ IF born[m].period = 0 THEN fired[m] = 0 /\ born[m].time <= now
     ELSE born[m].time + fired[m] * born[m].period <= now

(* Every timer that is due is called, and one with a period as often as it *)
(* is due.                                                                 *)
EveryTimerFires == \A m \in Timers : Late(m) ~> ~Late(m)
=============================================================================
