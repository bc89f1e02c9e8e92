---------------------------- MODULE TimingWheel ----------------------------
(***************************************************************************)
(* depends/timer/timer.c, the timers of a C library: the ones that run out *)
(* soon have a slot for each tick (near), the others are in slots of       *)
(* coarser and coarser levels (t), and move nearer as time comes to the    *)
(* slot.  Time has as many bits as the levels together, and wraps around.  *)
(*                                                                         *)
(* Slots are sequences of nodes.  A pass of timer_update is cut where it   *)
(* gives up the lock: at each callback, which may add timers.              *)
(***************************************************************************)
EXTENDS Naturals, Sequences, FiniteSets, Functions

CONSTANTS
  TIME_NEAR, TIME_LEVEL,   \* slots of near and of a level, powers of two
  LEVELS,                  \* how many levels (4)
  Handles, Delays,
  MaxDiff                  \* bound: ticks the clock moves on between two updates

(* The ticks a slot of a level stands for; Width[LEVELS] is all there are. *)
Width[i \in Nat] == IF i = 0 THEN TIME_NEAR ELSE TIME_LEVEL * Width[i - 1]

(* timeout takes an int, so that half of the time there is is its limit.   *)
WheelAssumption ==
  /\ TIME_NEAR \in Nat \ {0} /\ TIME_LEVEL \in Nat \ {0, 1} /\ LEVELS \in Nat \ {0}
  /\ Delays \subseteq 1..(Width[LEVELS] \div 2 - 1)

VARIABLES
  near, t,        \* the slots
  time,
  diff,           \* ticks updatetime has still to make
  dispatching,    \* the list dispatch_list works through
  shifted         \* whether the tick has been made: what remains is its second timer_execute
vars == <<near, t, time, diff, dispatching, shifted>>

Init ==
  /\ near = [idx \in 0..TIME_NEAR - 1 |-> <<>>]
  /\ t = [i \in 0..LEVELS - 1 |-> [idx \in 0..TIME_LEVEL - 1 |-> <<>>]]
  /\ time = 0 /\ diff = 0 /\ dispatching = <<>> /\ shifted = TRUE

-----------------------------------------------------------------------------
(* Mutant: near is what comes within a turn of the near slots, the last    *)
(* tick of it included.                                                    *)
SlotByDistance(expire, now) ==
  LET far == (expire + Width[LEVELS] - now) % Width[LEVELS]
      i == CHOOSE j \in 0..LEVELS - 1 : far <= Width[j + 1] /\ far > Width[j] IN
  IF far <= TIME_NEAR THEN [level |-> LEVELS, idx |-> expire % TIME_NEAR]
  ELSE [level |-> i, idx |-> (expire \div Width[i]) % TIME_LEVEL]

(* The slot of a node: near if nothing but the low bits of its time differ *)
(* from now, else that of the first level of which this is true.           *)
Slot(expire, now) ==
  IF expire \div TIME_NEAR = now \div TIME_NEAR THEN [level |-> LEVELS, idx |-> expire % TIME_NEAR]
  ELSE LET same == {i \in 0..LEVELS - 2 : expire \div Width[i + 1] = now \div Width[i + 1]}
           i == IF same = {} THEN LEVELS - 1 ELSE CHOOSE j \in same : \A k \in same : j <= k
       IN  [level |-> i, idx |-> (expire \div Width[i]) % TIME_LEVEL]

(* add_node puts a node at the end of its slot.                            *)
add_node(wheel, node, now) ==
  LET slot == Slot(node.expire, now) IN
  IF slot.level = LEVELS THEN [wheel EXCEPT !.near[slot.idx] = Append(@, node)]
  ELSE [wheel EXCEPT !.t[slot.level][slot.idx] = Append(@, node)]

move_list(wheel, level, idx, now) ==
  LET list == wheel.t[level][idx]
      moved[n \in 0..Len(list)] ==
        IF n = 0 THEN [wheel EXCEPT !.t[level][idx] = <<>>]
        ELSE add_node(moved[n - 1], list[n], now)
  IN  moved[Len(list)]

(* Where the low bits of the new time have all become zero, the slot of    *)
(* the first level at which it is not zero comes nearer; at time 0, that   *)
(* is the first slot of the last level.                                    *)
Shift(wheel, now) ==
  LET Index(i) == (now \div Width[i]) % TIME_LEVEL
      due == {i \in 0..LEVELS - 1 : now % Width[i] = 0 /\ Index(i) # 0} IN
  IF now = 0 THEN move_list(wheel, LEVELS - 1, 0, now)
  ELSE IF due = {} THEN wheel
  ELSE LET i == CHOOSE j \in due : \A k \in due : j <= k IN move_list(wheel, i, Index(i), now)

-----------------------------------------------------------------------------
Idle == dispatching = <<>> /\ shifted /\ diff = 0

Slots == {near[idx] : idx \in DOMAIN near} \cup UNION {{t[i][idx] : idx \in DOMAIN t[i]} : i \in DOMAIN t}
Nodes == UNION {Range(slot) : slot \in Slots \cup {dispatching}}

(* Whoever has the timer, and a callback too, may add to it.  Handles are  *)
(* the caller's, who uses one again when it was called back.               *)
timer_add(handle, ticks) ==
  /\ handle \notin {node.handle : node \in Nodes}
  /\ LET wheel == add_node([near |-> near, t |-> t],
                           [handle |-> handle, expire |-> (time + ticks) % Width[LEVELS]], time)
     IN  near' = wheel.near /\ t' = wheel.t
  /\ UNCHANGED <<time, diff, dispatching, shifted>>

timeout(handle, ticks) == ticks > 0 /\ timer_add(handle, ticks)

(* updatetime: the ticks that have passed since the last time; when the    *)
(* clock went back, none.                                                  *)
updatetime(passed) ==
  /\ Idle
  /\ diff' = passed /\ UNCHANGED <<near, t, time, dispatching, shifted>>

(* timer_execute takes the list of the slot of now, as often as there is   *)
(* one, and dispatch_list calls back one node after the other.             *)
now_idx == time % TIME_NEAR

timer_execute ==
  /\ dispatching = <<>> /\ diff > 0 /\ near[now_idx] # <<>>
  /\ dispatching' = near[now_idx] /\ near' = [near EXCEPT ![now_idx] = <<>>]
  /\ UNCHANGED <<t, time, diff, shifted>>

dispatch_list ==
  /\ dispatching # <<>>
  /\ dispatching' = Tail(dispatching) /\ UNCHANGED <<near, t, time, diff, shifted>>

(* timer_update shifts between two calls of timer_execute.                 *)
timer_shift ==
  /\ dispatching = <<>> /\ near[now_idx] = <<>> /\ diff > 0 /\ shifted
  /\ time' = (time + 1) % Width[LEVELS]
  /\ LET wheel == Shift([near |-> near, t |-> t], time')
     IN  near' = wheel.near /\ t' = wheel.t
  /\ shifted' = FALSE /\ UNCHANGED <<diff, dispatching>>

EndOfUpdate ==
  /\ dispatching = <<>> /\ near[now_idx] = <<>> /\ ~shifted
  /\ shifted' = TRUE /\ diff' = diff - 1 /\ UNCHANGED <<near, t, time, dispatching>>

Next ==
  \/ \E handle \in Handles, ticks \in Delays : timeout(handle, ticks)
  \/ \E passed \in 0..MaxDiff : updatetime(passed)
  \/ timer_execute \/ dispatch_list \/ timer_shift \/ EndOfUpdate

Spec == Init /\ [][Next]_vars

-----------------------------------------------------------------------------
(* Every timer is called back at its tick and not at another, however far  *)
(* away it was set, whichever slots it came through, when time wraps       *)
(* around, and when the timers of a tick set others.                       *)
Left(h) == LET node == CHOOSE n \in Nodes : n.handle = h
           IN  (node.expire + Width[LEVELS] - time) % Width[LEVELS]
Ideal == INSTANCE Alarms WITH pending <- [h \in {node.handle : node \in Nodes} |-> Left(h)]
FiresOnTime == Ideal!Spec
=============================================================================
