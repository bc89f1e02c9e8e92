------------------------------- MODULE Alarms -------------------------------
(***************************************************************************)
(* What a clock of timers promises: a timer set to run out after some      *)
(* ticks is called back when that many have passed, and once.              *)
(***************************************************************************)
EXTENDS Naturals

CONSTANTS Handles, Delays
VARIABLE pending    \* the timers that run, and the ticks they have left
vars == <<pending>>

Init == pending = [h \in {} |-> 0]

Set(h, ticks) ==
  /\ h \notin DOMAIN pending
  /\ pending' = [k \in DOMAIN pending \cup {h} |-> IF k = h THEN ticks ELSE pending[k]]

Tick ==
  /\ \A h \in DOMAIN pending : pending[h] > 0
  /\ pending' = [h \in DOMAIN pending |-> pending[h] - 1]

Fire(h) ==
  /\ h \in DOMAIN pending /\ pending[h] = 0
  /\ pending' = [k \in DOMAIN pending \ {h} |-> pending[k]]

Next == Tick \/ \E h \in Handles : Fire(h) \/ \E ticks \in Delays : Set(h, ticks)

Spec == Init /\ [][Next]_vars
=============================================================================
