-------------------------- MODULE DelayTimerProofs --------------------------
(***************************************************************************)
(* Proofs about DelayTimer, for both variants, any periods, any number of  *)
(* timers and any length of time:                                          *)
(*   OnScheduleCorrect  Spec => []OnSchedule                               *)
(*   RemovedCorrect     Spec => RemovedDoNotFire                           *)
(*                                                                         *)
(* OnSchedule is not inductive: it needs to know of the pass (InPass) that *)
(* what it has yet to handle is due, is handled once, and is in the        *)
(* indices as it was or gone; of the callbacks forked (Forked) that their  *)
(* timers are gone; and when a timer fired last, while it runs (Times).    *)
(***************************************************************************)
EXTENDS DelayTimer, Integers, TLAPS

TimerAssumption == VariantsAssumption /\ PeriodsAssumption /\ BoundAssumption /\ nilAssumption

(* Nothing is known of ids that have not been given out.                   *)
Fresh == \A m \in Timers : m >= auto => nodeList[m] = nil /\ fired[m] = 0 /\ m \notin removed

(* The two indices agree, entry by entry.                                  *)
Indexed ==
  /\ \A e \in set : nodeList[e[2]] # nil /\ nodeList[e[2]].time = e[1]
  /\ \A m \in Timers : nodeList[m] # nil => <<nodeList[m].time, m>> \in set

(* A timer that is there was not removed and keeps its period.             *)
Kept ==
  \A m \in Timers : nodeList[m] # nil =>
    m \notin removed /\ nodeList[m].period = born[m].period

(* What the pass has yet to handle.                                        *)
InPass ==
  /\ armed => rank = {} /\ running = nil
  /\ running # nil => running < auto
  /\ \A e \in rank :
       /\ e[1] <= now /\ e[2] < auto /\ e[2] # running
       /\ nodeList[e[2]] # nil => nodeList[e[2]].time = e[1]
  /\ \A e, f \in rank : e[2] = f[2] => e = f

(* What has been forked.                                                   *)
Forked ==
  /\ variant = "inline" => forked = {}
  /\ variant = "fork" => armed /\ \A m \in Timers : born[m] # nil => born[m].period = 0
  /\ \A e \in forked :
       /\ e[2] < auto /\ nodeList[e[2]] = nil /\ fired[e[2]] = 0 /\ born[e[2]].time <= now
  /\ \A e, f \in forked : e[2] = f[2] => e = f

(* How often a timer has fired, and when it is due next or, while its      *)
(* callback runs, was last.                                                *)
TimesOf(m) ==
  /\ fired[m] > 0 => born[m].time + (fired[m] - 1) * born[m].period <= now
  /\ born[m].period = 0 => fired[m] <= 1
  /\ nodeList[m] # nil /\ running # m =>
       /\ nodeList[m].time = born[m].time + fired[m] * born[m].period
       /\ born[m].period = 0 => fired[m] = 0
  /\ nodeList[m] # nil /\ running = m =>
       /\ fired[m] > 0
       /\ nodeList[m].time = born[m].time + (fired[m] - 1) * born[m].period
Times == \A m \in Timers : m < auto => TimesOf(m)

Inv == TypeOK /\ Fresh /\ Indexed /\ Kept /\ InPass /\ Forked /\ Times

LEMMA InitInv == ASSUME TimerAssumption, Init PROVE Inv
  <1> USE DEF Init, TimerAssumption, nilAssumption, BoundAssumption, Timers
  <1>1. TypeOK
    BY DEF TypeOK
  <1>2. Fresh /\ Indexed /\ Kept /\ InPass /\ Forked
    BY DEF Fresh, Indexed, Kept, InPass, Forked
  <1>3. Times
    BY DEF Times
  <1> QED
    BY <1>1, <1>2, <1>3 DEF Inv

(* delay, every.                                                           *)
LEMMA DelayInv ==
  ASSUME TimerAssumption, Inv, NEW t \in Nat, NEW p \in Periods,
         variant = "fork" => p = 0, delay(t, p), UNCHANGED variant
  PROVE Inv'
  <1> DEFINE node == [time |-> t, period |-> p]
  <1> USE DEF Inv, pass
  <1>1. /\ node \in Node /\ node # nil /\ node.time = t /\ node.period = p
        /\ auto \in Timers /\ auto \in Nat /\ nodeList[auto] = nil /\ fired[auto] = 0
        /\ auto \notin removed /\ born[auto] = nil /\ auto # nil
    BY DEF TimerAssumption, nilAssumption, TypeOK, Fresh, delay, Node, Timers
  <1>2. /\ auto' = auto + 1
        /\ \A m \in Timers : /\ nodeList'[m] = IF m = auto THEN node ELSE nodeList[m]
                             /\ born'[m] = IF m = auto THEN node ELSE born[m]
        /\ set' = set \cup {<<t, auto>>}
    BY <1>1 DEF delay, TypeOK
  <1>3. TypeOK'
    BY <1>1, <1>2, TimerAssumption DEF TypeOK, delay, Timers, TimerAssumption, BoundAssumption
  <1>4. Fresh'
    BY <1>1, <1>2 DEF Fresh, delay, TypeOK, Timers
  <1>5. Indexed'
    BY <1>1, <1>2 DEF Indexed, delay, TypeOK
  <1>6. Kept'
    BY <1>1, <1>2 DEF Kept, delay, TypeOK
  <1>7. InPass'
    BY <1>1, <1>2 DEF InPass, delay, TypeOK, Timers
  <1>8. Forked'
    BY <1>1, <1>2 DEF Forked, delay, TypeOK, Timers
  <1>9. Times'
    <2> SUFFICES ASSUME NEW m \in Timers, m < auto + 1 PROVE TimesOf(m)'
      BY <1>2 DEF Times
    <2>1. CASE m = auto
      <3>1. /\ born'[m] = node /\ nodeList'[m] = node /\ fired'[m] = 0 /\ running' # m
            /\ 0 * p = 0
        BY <1>1, <1>2, <2>1, TimerAssumption
           DEF delay, InPass, TypeOK, TimerAssumption, PeriodsAssumption
      <3> QED
        BY <1>1, <3>1, TimerAssumption DEF TimesOf, TimerAssumption, PeriodsAssumption
    <2>2. CASE m # auto
      BY <1>1, <1>2, <2>2 DEF TimesOf, Times, delay, TypeOK, Timers
    <2> QED
      BY <2>1, <2>2
  <1> QED
    BY <1>3, <1>4, <1>5, <1>6, <1>7, <1>8, <1>9


(* A timer leaves both indices; the one whose callback runs may.           *)
LEMMA RemoveInv ==
  ASSUME TimerAssumption, Inv, NEW m \in Timers, removeNode(m), UNCHANGED variant
  PROVE Inv'
  <1> USE DEF Inv, pass
  <1>1. /\ m < auto
        /\ \A x \in Timers : nodeList'[x] = IF x = m THEN nil ELSE nodeList[x]
        /\ set' = {e \in set : e[2] # m}
    BY DEF removeNode, EntriesOf, TypeOK
  <1>2. TypeOK'
    BY <1>1 DEF TypeOK, removeNode
  <1>3. Fresh'
    BY <1>1 DEF Fresh, removeNode, TypeOK, Timers
  <1>4. Indexed'
    BY <1>1 DEF Indexed, TypeOK
  <1>5. Kept'
    BY <1>1 DEF Kept, removeNode, TypeOK
  <1>6. InPass'
    BY <1>1 DEF InPass, removeNode, TypeOK
  <1>7. Forked'
    BY <1>1 DEF Forked, removeNode, TypeOK
  <1>8. Times'
    BY <1>1 DEF Times, TimesOf, removeNode, TypeOK
  <1> QED
    BY <1>2, <1>3, <1>4, <1>5, <1>6, <1>7, <1>8

(* uniqueDelay is a removal and a delay in one.                            *)
LEMMA UniqueDelayInv ==
  ASSUME TimerAssumption, Inv, NEW t \in Nat, NEW m \in Timers, uniqueDelay(t, m),
         UNCHANGED variant
  PROVE Inv'
  <1> DEFINE node == [time |-> t, period |-> 0]
  <1> USE DEF Inv, pass
  <1>1. /\ node \in Node /\ node # nil /\ node.time = t /\ node.period = 0
        /\ auto \in Timers /\ auto \in Nat /\ nodeList[auto] = nil /\ fired[auto] = 0
        /\ auto \notin removed /\ born[auto] = nil /\ auto # nil /\ m < auto
    BY DEF TimerAssumption, nilAssumption, PeriodsAssumption, TypeOK, Fresh, uniqueDelay, Node, Timers
  <1>2. /\ auto' = auto + 1
        /\ \A x \in Timers :
             /\ nodeList'[x] = IF x = auto THEN node ELSE IF x = m THEN nil ELSE nodeList[x]
             /\ born'[x] = IF x = auto THEN node ELSE born[x]
        /\ set' = {e \in set : e[2] # m} \cup {<<t, auto>>}
    BY <1>1 DEF uniqueDelay, EntriesOf, TypeOK, Timers
  <1>3. TypeOK'
    BY <1>1, <1>2, TimerAssumption, SMTT(20)
       DEF TypeOK, uniqueDelay, Timers, TimerAssumption, BoundAssumption
  <1>4. Fresh'
    BY <1>1, <1>2 DEF Fresh, uniqueDelay, TypeOK, Timers
  <1>5. Indexed'
    <2>1. \A e \in set : e[2] \in Timers /\ e[2] # auto
      BY <1>1 DEF Indexed, TypeOK
    <2>2. \A e \in set' : nodeList'[e[2]] # nil /\ nodeList'[e[2]].time = e[1]
      BY <1>1, <1>2, <2>1 DEF Indexed
    <2>3. \A x \in Timers : nodeList'[x] # nil => <<nodeList'[x].time, x>> \in set'
      BY <1>1, <1>2 DEF Indexed
    <2> QED
      BY <2>2, <2>3 DEF Indexed
  <1>6. Kept'
    BY <1>1, <1>2 DEF Kept, uniqueDelay, TypeOK
  <1>7. InPass'
    BY <1>1, <1>2 DEF InPass, uniqueDelay, TypeOK, Timers
  <1>8. Forked'
    BY <1>1, <1>2 DEF Forked, uniqueDelay, TypeOK, Timers
  <1>9. Times'
    <2> SUFFICES ASSUME NEW x \in Timers, x < auto + 1 PROVE TimesOf(x)'
      BY <1>2 DEF Times
    <2>1. CASE x = auto
      <3>1. /\ born'[x] = node /\ nodeList'[x] = node /\ fired'[x] = 0 /\ running' # x
        BY <1>1, <1>2, <2>1 DEF uniqueDelay, InPass, TypeOK
      <3> QED
        BY <1>1, <3>1 DEF TimesOf
    <2>2. CASE x # auto
      BY <1>1, <1>2, <2>2 DEF TimesOf, Times, uniqueDelay, TypeOK, Timers
    <2> QED
      BY <2>1, <2>2
  <1> QED
    BY <1>3, <1>4, <1>5, <1>6, <1>7, <1>8, <1>9

(* A pass begins with what is due, each timer once.                        *)
LEMMA UpdateInv == ASSUME TimerAssumption, Inv, update, UNCHANGED variant PROVE Inv'
  <1> USE DEF Inv, pass
  <1>1. /\ TypeOK' /\ Fresh' /\ Indexed' /\ Kept' /\ Forked'
    BY DEF update, TypeOK, Fresh, Indexed, Kept, Forked, Due
  <1>2. Times'
    BY DEF update, Times, TimesOf
  <1>3. InPass'
    <2>1. running' = nil
      BY DEF update, InPass
    <2>2. \A e \in rank' : e[1] <= now /\ e[2] < auto /\ e[2] # nil /\ e[2] \in Timers
      <3> SUFFICES ASSUME NEW e \in set, e[1] <= now
                   PROVE e[2] < auto /\ e[2] # nil /\ e[2] \in Timers
        BY DEF update, Due
      <3>1. e[2] \in Timers /\ nodeList[e[2]] # nil
        BY DEF TypeOK, Indexed
      <3> QED
        BY <3>1 DEF Fresh, TypeOK, Timers, TimerAssumption, nilAssumption
    <2>3. \A e \in rank' : nodeList'[e[2]].time = e[1]
      BY DEF update, Due, Indexed
    <2>4. \A e, f \in rank' : e[2] = f[2] => e = f
      BY DEF update, Due, Indexed, TypeOK
    <2> QED
      BY <2>1, <2>2, <2>3, <2>4 DEF InPass, update
  <1> QED
    BY <1>1, <1>2, <1>3

(* The next timer of the pass is called, for the time it was due.          *)
LEMMA CallbackInv ==
  ASSUME TimerAssumption, Inv, NEW e \in rank, callback(e), UNCHANGED variant
  PROVE Inv'
  <1> DEFINE m == e[2]
  <1> USE DEF Inv, pass
  <1>1. m \in Timers /\ m # nil /\ m < auto /\ e[1] <= now /\ e[1] \in Nat
    BY DEF TypeOK, InPass, TimerAssumption, nilAssumption
  <1>2. ~armed /\ running = nil /\ rank' = rank \ {e} /\ variant' = variant
    BY DEF callback, Continue
  <1>3. UNCHANGED <<now, auto, nodeList, set, forked, born, removed>>
    BY DEF callback
  <1>4. CASE nodeList[m] # nil
    <2>1. running' = m /\ fired' = [fired EXCEPT ![m] = fired[m] + 1] /\ armed' = armed
      BY <1>4 DEF callback, Fire
    <2>2. fired' \in [Timers -> Nat] /\ \A x \in Timers : fired'[x] = IF x = m THEN fired[m] + 1 ELSE fired[x]
      BY <1>1, <2>1 DEF TypeOK
    <2>3. TypeOK' /\ Fresh' /\ Indexed' /\ Kept'
      BY <1>1, <1>2, <1>3, <2>1, <2>2, SMTT(20) DEF TypeOK, Fresh, Indexed, Kept, Timers
    <2>4. InPass'
      BY <1>1, <1>2, <1>3, <2>1 DEF InPass, TypeOK
    <2>5. Forked'
      BY <1>1, <1>2, <1>3, <1>4, <2>1, <2>2 DEF Forked, TypeOK
    <2>6. Times'
      <3> SUFFICES ASSUME NEW x \in Timers, x < auto PROVE TimesOf(x)'
        BY <1>3 DEF Times
      <3>1. CASE x # m
        BY <1>2, <1>3, <2>1, <2>2, <3>1, x # nil DEF TimesOf, Times, TimerAssumption, nilAssumption
      <3>2. CASE x = m
        <4>1. /\ nodeList[m].time = born[m].time + fired[m] * born[m].period
              /\ born[m].period = 0 => fired[m] = 0
              /\ nodeList[m].time = e[1] /\ fired[m] \in Nat
          BY <1>1, <1>2, <1>4 DEF Times, TimesOf, InPass, TypeOK
        <4>2. fired'[m] = fired[m] + 1 /\ fired'[m] - 1 = fired[m]
          BY <1>1, <2>2, <4>1
        <4> QED
          BY <1>1, <1>3, <1>4, <2>1, <3>2, <4>1, <4>2 DEF TimesOf
      <3> QED
        BY <3>1, <3>2
    <2> QED
      BY <2>3, <2>4, <2>5, <2>6
  <1>5. CASE nodeList[m] = nil
    <2>1. running' = running /\ fired' = fired /\ armed' = (rank \ {e} = {})
      BY <1>5 DEF callback, Continue
    <2>2. TypeOK' /\ Fresh' /\ Indexed' /\ Kept'
      BY <1>2, <1>3, <2>1 DEF TypeOK, Fresh, Indexed, Kept
    <2>3. InPass'
      BY <1>2, <1>3, <2>1 DEF InPass
    <2>4. Forked'
      BY <1>2, <1>3, <2>1 DEF Forked
    <2>5. Times'
      BY <1>2, <1>3, <2>1 DEF Times, TimesOf
    <2> QED
      BY <2>2, <2>3, <2>4, <2>5
  <1> QED
    BY <1>4, <1>5

(* A timer with a period is due again one period after it was due.         *)
LEMMA CallbackReturnsInv ==
  ASSUME TimerAssumption, Inv, callbackReturns, UNCHANGED variant
  PROVE Inv'
  <1> DEFINE m == running
  <1> DEFINE again == [nodeList[m] EXCEPT !.time = NextDue(nodeList[m])]
  <1> USE DEF Inv, pass
  <1>1. /\ m \in Timers /\ m # nil /\ m < auto /\ running' = nil /\ rank' = rank
        /\ armed' = (rank = {}) /\ UNCHANGED <<now, auto, forked, born, fired, removed, variant>>
        /\ \A e \in rank : e[2] # m /\ e[2] \in Timers /\ e[2] # nil
    BY DEF callbackReturns, Continue, TypeOK, InPass, TimerAssumption, nilAssumption
  <1>2. ~armed
    BY <1>1 DEF InPass
  <1>3. variant = "inline" => forked = {}
    BY DEF Forked
  <1>4. variant # "fork"
    BY <1>2 DEF Forked
  <1>5. Forked'
    BY <1>1, <1>4 DEF Forked, TypeOK, TimerAssumption, VariantsAssumption
  <1>6. CASE nodeList[m] # nil /\ nodeList[m].period > 0
    <2>1. /\ nodeList[m] \in Node /\ nodeList[m].time \in Nat /\ nodeList[m].period \in Nat
          /\ nodeList[m].period \in Periods /\ nodeList[m].period = born[m].period
      BY <1>1, <1>6, TimerAssumption DEF TypeOK, Node, TimerAssumption, PeriodsAssumption, Kept
    <2>2. /\ again \in Node /\ again.time = nodeList[m].time + nodeList[m].period
          /\ again.period = nodeList[m].period /\ again # nil
      BY <2>1 DEF Node, NextDue, TimerAssumption, nilAssumption
    <2>3. /\ nodeList' = [nodeList EXCEPT ![m] = again]
          /\ set' = {e \in set : e[2] # m} \cup {<<again.time, m>>}
      BY <1>6 DEF callbackReturns, EntriesOf
    <2> HIDE DEF again
    <2>4. \A x \in Timers : nodeList'[x] = IF x = m THEN again ELSE nodeList[x]
      BY <1>1, <2>3 DEF TypeOK
    <2>5. again.time \in Nat
      BY <2>1, <2>2
    <2>6. TypeOK'
      BY <1>1, <2>2, <2>3, <2>5 DEF TypeOK
    <2>7. Fresh'
      BY <1>1, <2>4 DEF Fresh, Timers, TypeOK
    <2>8. Indexed'
      BY <1>1, <2>2, <2>3, <2>4 DEF Indexed, TypeOK
    <2>9. Kept'
      BY <1>1, <1>6, <2>1, <2>2, <2>4 DEF Kept
    <2>10. InPass'
      BY <1>1, <2>4 DEF InPass, TypeOK
    <2>11. Times'
      <3> SUFFICES ASSUME NEW x \in Timers, x < auto PROVE TimesOf(x)'
        BY <1>1 DEF Times
      <3>1. CASE x # m
        BY <1>1, <2>4, <3>1, x # nil DEF TimesOf, Times, TimerAssumption, nilAssumption
      <3>2. CASE x = m
        <4> DEFINE p == born[m].period
        <4> DEFINE f == fired[m]
        <4>1. /\ f > 0 /\ nodeList[m].time = born[m].time + (f - 1) * p
              /\ p \in Nat /\ p > 0 /\ f \in Nat
          BY <1>1, <1>6, <2>1 DEF Times, TimesOf, TypeOK
        <4>2. born[m].time \in Nat
          <5>1. born[m] # nil
            BY <1>1 DEF TypeOK
          <5> QED
            BY <1>1, <5>1 DEF TypeOK, Node
        <4>3. (f - 1) * p + p = f * p
          BY <4>1
        <4>4. again.time = born[m].time + f * p
          <5>1. (f - 1) * p \in Int /\ f * p \in Int
            BY <4>1
          <5> QED
            BY <2>1, <2>2, <4>1, <4>2, <4>3, <5>1
        <4>5. /\ nodeList'[m] = again /\ fired'[m] = f /\ born'[m] = born[m] /\ now' = now
              /\ running' # m
          BY <1>1, <2>4
        <4>6. /\ f > 0 => born[m].time + (f - 1) * p <= now
              /\ p = 0 => f <= 1
          BY <1>1 DEF Times, TimesOf
        <4> QED
          BY <3>2, <4>1, <4>4, <4>5, <4>6 DEF TimesOf
      <3> QED
        BY <3>1, <3>2
    <2> QED
      BY <1>5, <2>6, <2>7, <2>8, <2>9, <2>10, <2>11
  <1>7. CASE ~(nodeList[m] # nil /\ nodeList[m].period > 0)
    <2>1. /\ nodeList' = [nodeList EXCEPT ![m] = nil] /\ set' = {e \in set : e[2] # m}
          /\ \A x \in Timers : nodeList'[x] = IF x = m THEN nil ELSE nodeList[x]
      BY <1>1, <1>7 DEF callbackReturns, EntriesOf, TypeOK
    <2>2. TypeOK'
      BY <1>1, <2>1 DEF TypeOK
    <2>3. Fresh' /\ Kept'
      BY <1>1, <2>1 DEF Fresh, Kept
    <2>4. Indexed'
      BY <1>1, <2>1 DEF Indexed, TypeOK
    <2>5. InPass'
      BY <1>1, <2>1 DEF InPass, TypeOK
    <2>6. Times'
      <3> SUFFICES ASSUME NEW x \in Timers, x < auto PROVE TimesOf(x)'
        BY <1>1 DEF Times
      <3>1. x # nil /\ (nodeList'[x] # nil => x # m /\ nodeList'[x] = nodeList[x])
        BY <2>1 DEF TimerAssumption, nilAssumption
      <3> QED
        BY <1>1, <3>1 DEF Times, TimesOf
    <2> QED
      BY <1>5, <2>2, <2>3, <2>4, <2>5, <2>6
  <1> QED
    BY <1>6, <1>7

(* What is due is forked, and gone.                                        *)
LEMMA ForkDueInv == ASSUME TimerAssumption, Inv, forkDue, UNCHANGED variant PROVE Inv'
  <1> USE DEF Inv, pass
  <1>1. /\ UNCHANGED <<variant, now, auto, armed, rank, running, born, fired, removed>>
        /\ forked' = forked \cup Due /\ set' = set \ Due
        /\ rank = {} /\ running = nil /\ variant = "fork" /\ Due \subseteq set
    BY DEF forkDue, Forked, InPass, Due
  <1>2. \A e \in set : e[1] \in Nat /\ e[2] \in Timers /\ nodeList[e[2]] # nil /\ nodeList[e[2]].time = e[1]
    BY DEF TypeOK, Indexed
  <1>3. /\ nodeList' \in [Timers -> Node \cup {nil}]
        /\ \A m \in Timers : nodeList'[m] = IF \E e \in Due : e[2] = m THEN nil ELSE nodeList[m]
    BY DEF forkDue, TypeOK
  <1>4. TypeOK'
    BY <1>1, <1>3 DEF TypeOK
  <1>5. Fresh'
    BY <1>1, <1>3 DEF Fresh
  <1>6. Indexed'
    <2>1. ASSUME NEW e \in set' PROVE nodeList'[e[2]] # nil /\ nodeList'[e[2]].time = e[1]
      <3>1. e \in set /\ e \notin Due
        BY <1>1
      <3>2. \A f \in Due : f[2] # e[2]
        BY <1>1, <1>2, <3>1 DEF Due
      <3> QED
        BY <1>2, <1>3, <3>1, <3>2
    <2>2. ASSUME NEW m \in Timers, nodeList'[m] # nil PROVE <<nodeList'[m].time, m>> \in set'
      <3>1. nodeList'[m] = nodeList[m] /\ \A e \in Due : e[2] # m
        BY <1>3, <2>2
      <3>2. <<nodeList[m].time, m>> \in set
        BY <2>2, <3>1 DEF Indexed
      <3> QED
        BY <1>1, <3>1, <3>2
    <2> QED
      BY <2>1, <2>2 DEF Indexed
  <1>7. Kept'
    BY <1>1, <1>3 DEF Kept
  <1>8. InPass'
    BY <1>1 DEF InPass
  <1>9. Times'
    BY <1>1, <1>3 DEF Times, TimesOf
  <1>10. Forked'
    <2>1. ASSUME NEW e \in Due
          PROVE /\ e[2] \in Timers /\ e[2] < auto /\ nodeList'[e[2]] = nil /\ fired[e[2]] = 0
                /\ born[e[2]].time <= now
      <3>1. e[2] \in Timers /\ e[1] <= now /\ nodeList[e[2]] # nil /\ nodeList[e[2]].time = e[1]
        BY <1>1, <1>2 DEF Due
      <3>2. e[2] < auto
        BY <3>1 DEF Fresh, TypeOK, Timers
      <3>3. born[e[2]] # nil /\ born[e[2]].period = 0
        BY <1>1, <3>1, <3>2 DEF TypeOK, Forked
      <3>4. e[2] # nil
        BY <3>1 DEF TimerAssumption, nilAssumption
      <3>5. fired[e[2]] = 0 /\ nodeList[e[2]].time = born[e[2]].time + 0 * 0
        BY <1>1, <3>1, <3>2, <3>3, <3>4 DEF Times, TimesOf
      <3>6. born[e[2]].time \in Nat
        BY <3>1, <3>3 DEF TypeOK, Node
      <3> QED
        BY <1>3, <3>1, <3>2, <3>5, <3>6
    <2>2. \A e \in forked : e[2] \in Timers /\ nodeList[e[2]] = nil /\ nodeList'[e[2]] = nil
      BY <1>3 DEF Forked, TypeOK
    <2>3. \A e \in forked, f \in Due : e[2] # f[2]
      BY <1>1, <1>2, <2>2
    <2>4. \A e, f \in Due : e[2] = f[2] => e = f
      BY <1>1, <1>2 DEF TypeOK
    <2>5. \A e \in forked' : e[2] < auto /\ nodeList'[e[2]] = nil /\ fired[e[2]] = 0 /\ born[e[2]].time <= now
      BY <1>1, <2>1, <2>2 DEF Forked
    <2>6. \A e, f \in forked' : e[2] = f[2] => e = f
      BY <1>1, <2>3, <2>4 DEF Forked
    <2>7. variant' = "fork" /\ armed' /\ \A m \in Timers : born'[m] # nil => born'[m].period = 0
      BY <1>1 DEF Forked
    <2> QED
      BY <1>1, <2>5, <2>6, <2>7 DEF Forked
  <1> QED
    BY <1>4, <1>5, <1>6, <1>7, <1>8, <1>9, <1>10

(* A forked callback fires its timer, which fires once.                    *)
LEMMA BeginInv ==
  ASSUME TimerAssumption, Inv, NEW e \in forked, begin(e), UNCHANGED variant
  PROVE Inv'
  <1> DEFINE m == e[2]
  <1> USE DEF Inv, pass
  <1>1. /\ m \in Timers /\ m < auto /\ nodeList[m] = nil /\ fired[m] = 0 /\ born[m].time <= now
        /\ variant = "fork" /\ running = nil
    BY DEF TypeOK, Forked, InPass, TimerAssumption, VariantsAssumption
  <1>2. born[m] # nil /\ born[m].period = 0 /\ born[m].time \in Nat
    BY <1>1 DEF TypeOK, Forked, Node
  <1>3. /\ UNCHANGED <<variant, now, auto, nodeList, set, armed, rank, running, born, removed>>
        /\ forked' = forked \ {e} /\ fired' \in [Timers -> Nat]
        /\ \A x \in Timers : fired'[x] = IF x = m THEN 1 ELSE fired[x]
    BY <1>1 DEF begin, Fire, TypeOK
  <1>4. TypeOK' /\ Fresh' /\ Indexed' /\ Kept' /\ InPass'
    BY <1>1, <1>3 DEF TypeOK, Fresh, Indexed, Kept, InPass, Timers
  <1>5. Forked'
    BY <1>1, <1>3 DEF Forked, TypeOK
  <1>6. Times'
    <2> SUFFICES ASSUME NEW x \in Timers, x < auto PROVE TimesOf(x)'
      BY <1>3 DEF Times
    <2>1. CASE x # m
      BY <1>3, <2>1 DEF Times, TimesOf
    <2>2. CASE x = m
      BY <1>1, <1>2, <1>3, <2>2 DEF TimesOf
    <2> QED
      BY <2>1, <2>2
  <1> QED
    BY <1>4, <1>5, <1>6

(* The clock moves on: what was due stays due.                             *)
LEMMA TickInv == ASSUME TimerAssumption, Inv, Tick, UNCHANGED variant PROVE Inv'
  <1> USE DEF Inv, pass
  <1>1. /\ now' = now + 1 /\ now \in Nat
        /\ UNCHANGED <<variant, auto, nodeList, set, armed, rank, running, forked, born, fired, removed>>
    BY DEF Tick, TypeOK
  <1>2. TypeOK' /\ Fresh' /\ Indexed' /\ Kept'
    BY <1>1 DEF TypeOK, Fresh, Indexed, Kept
  <1>3. InPass'
    BY <1>1 DEF InPass, TypeOK
  <1>4. ASSUME NEW m \in Timers, m < auto
        PROVE born[m] \in Node /\ born[m].time \in Nat /\ born[m].period \in Nat /\ fired[m] \in Nat
    BY <1>4, TimerAssumption DEF TypeOK, Node, TimerAssumption, PeriodsAssumption
  <1>5. Forked'
    BY <1>1, <1>4 DEF Forked, TypeOK
  <1>6. Times'
    <2> SUFFICES ASSUME NEW m \in Timers, m < auto PROVE TimesOf(m)'
      BY <1>1 DEF Times
    <2>1. TimesOf(m)
      BY DEF Times
    <2>2. (fired[m] - 1) * born[m].period \in Int
      BY <1>4
    <2>3. fired[m] > 0 => born[m].time + (fired[m] - 1) * born[m].period <= now'
      BY <1>1, <1>4, <2>1, <2>2 DEF TimesOf
    <2> QED
      BY <1>1, <2>1, <2>3 DEF TimesOf
  <1> QED
    BY <1>2, <1>3, <1>5, <1>6

LEMMA StepInv == ASSUME TimerAssumption, Inv, [Next]_vars PROVE Inv'
  <1>1. CASE Clock
    BY <1>1, UpdateInv, CallbackInv, CallbackReturnsInv, ForkDueInv, BeginInv DEF Clock
  <1>2. CASE Client /\ UNCHANGED variant
    <2>1. \A t \in 1..MaxTime : t \in Nat
      OBVIOUS
    <2> QED
      BY <1>2, <2>1, DelayInv, RemoveInv, UniqueDelayInv DEF Client
  <1>3. CASE Tick /\ UNCHANGED variant
    BY <1>3, TickInv
  <1>4. CASE UNCHANGED vars
    BY <1>4 DEF vars, Inv, TypeOK, Fresh, Indexed, Kept, InPass, Forked, Times, TimesOf
  <1> QED
    BY <1>1, <1>2, <1>3, <1>4 DEF Next

LEMMA InvAgree == ASSUME TimerAssumption, Inv PROVE IndicesAgree
  <1> USE DEF Inv
  <1>1. \A e \in set : e = <<e[1], e[2]>> /\ e[2] \in Timers
    BY DEF TypeOK
  <1>2. set = {<<nodeList[m].time, m>> : m \in {x \in Timers : nodeList[x] # nil}}
    BY <1>1 DEF Indexed
  <1> QED
    BY <1>2 DEF IndicesAgree

LEMMA InvOnSchedule == ASSUME TimerAssumption, Inv PROVE OnSchedule
  <1> SUFFICES ASSUME NEW m \in Timers, born[m] # nil
               PROVE /\ fired[m] > 0 => born[m].time + (fired[m] - 1) * born[m].period <= now
                     /\ born[m].period = 0 => fired[m] <= 1
                     /\ nodeList[m] # nil /\ running # m =>
                          nodeList[m].time = born[m].time + fired[m] * born[m].period
    BY InvAgree DEF OnSchedule
  <1>1. m < auto
    BY DEF Inv, TypeOK
  <1> QED
    BY <1>1 DEF Inv, Times, TimesOf

-----------------------------------------------------------------------------
(* update, delay, every: a timer fires once, or once for each period,      *)
(* never early and never off the schedule it was made with, and the two    *)
(* indices agree.                                                          *)
THEOREM OnScheduleCorrect == ASSUME TimerAssumption PROVE Spec => []OnSchedule
  <1>1. Init => Inv
    BY InitInv
  <1>2. Inv /\ [Next]_vars => Inv'
    BY StepInv
  <1>3. Inv => OnSchedule
    BY InvOnSchedule
  <1> QED
    BY <1>1, <1>2, <1>3, PTL DEF Spec

(* update: a timer that was removed is not called any more.                *)
THEOREM RemovedCorrect == ASSUME TimerAssumption PROVE Spec => RemovedDoNotFire
  <1>1. Init => Inv
    BY InitInv
  <1>2. Inv /\ [Next]_vars => Inv'
    BY StepInv
  <1>3. Inv /\ [Next]_vars =>
          [variant = "inline" => \A m \in removed : fired'[m] = fired[m]]_vars
    <2> SUFFICES ASSUME Inv, Next, variant = "inline", NEW m \in removed
                 PROVE fired'[m] = fired[m]
      OBVIOUS
    <2>1. m \in Timers /\ nodeList[m] = nil /\ forked = {}
      BY DEF Inv, TypeOK, Kept, Forked
    <2>2. ASSUME NEW e \in rank, callback(e) PROVE fired'[m] = fired[m]
      BY <2>1, <2>2 DEF callback, Fire, Inv, TypeOK
    <2>3. CASE Client \/ Tick
      BY <2>3 DEF Client, Tick, delay, removeNode, uniqueDelay
    <2> QED
      BY <2>1, <2>2, <2>3 DEF Next, Clock, update, callbackReturns, forkDue
  <1> QED
    BY <1>1, <1>2, <1>3, PTL DEF Spec, RemovedDoNotFire
=============================================================================
