------------------------------- MODULE CsLock -------------------------------
(***************************************************************************)
(* game/liblua/util/csUtil.lua: critical sections by key.  lock runs a     *)
(* function of its caller in the skynet.queue of the key, a queue that the *)
(* first caller makes and the last one to leave forgets.                   *)
(*                                                                         *)
(* Callers are coroutines of one service.  A caller may lock its key again *)
(* from inside, up to MaxDepth times.  The queue is skynet's (external):   *)
(* it lets its current caller in again, makes the others wait in order,    *)
(* and is handed over before the next one runs.                            *)
(***************************************************************************)
EXTENDS Naturals, Sequences, FiniteSets

CONSTANTS
  Callers, Keys, Nobody,
  Queues, nil,   \* the queue objects, and none; one per caller is enough
  MaxDepth       \* bound: locks of one key inside each other

ASSUME CallersAssumption == IsFiniteSet(Callers) /\ Nobody \notin Callers
ASSUME QueuesAssumption == nil \notin Queues
ASSUME BoundAssumption == MaxDepth \in Nat \ {0}

VARIABLES
  tb, counter,               \* csUtil's tables; tb[k] = nil has no queue
  current, ref, thread_queue,                      \* of each queue
  key, cs, depth, pc         \* of each caller: what it has locked
tables == <<tb, counter>>
vars == <<tb, counter, current, ref, thread_queue, key, cs, depth, pc>>

Init ==
  /\ tb = [k \in Keys |-> nil] /\ counter = [k \in Keys |-> 0]
  /\ current = [q \in Queues |-> Nobody] /\ ref = [q \in Queues |-> 0]
  /\ thread_queue = [q \in Queues |-> <<>>]
  /\ key \in [Callers -> Keys] /\ depth = [c \in Callers |-> 0]
  /\ cs = [c \in Callers |-> [d \in 1..MaxDepth |-> nil]]
  /\ pc = [c \in Callers |-> "out"]

(* Queues nothing refers to: a new queue is one of them.                   *)
Unused == {q \in Queues : /\ \A k \in Keys : tb[k] # q
                          /\ \A c \in Callers : \A d \in 1..depth[c] : cs[c][d] # q}

(* A caller calls the queue: it runs, runs again, or waits.                *)
Enter(c, q) ==
  \/ /\ current[q] \in {Nobody, c}
     /\ current' = [current EXCEPT ![q] = c]
     /\ ref' = [ref EXCEPT ![q] = @ + 1]
     /\ pc' = [pc EXCEPT ![c] = "in"]
     /\ UNCHANGED thread_queue
  \/ /\ current[q] \notin {Nobody, c}
     /\ thread_queue' = [thread_queue EXCEPT ![q] = Append(@, c)]
     /\ pc' = [pc EXCEPT ![c] = "waiting"]
     /\ UNCHANGED <<current, ref>>

(* lock: the queue of the key, made if there is none, is counted and       *)
(* called.                                                                 *)
lock(c, k) ==
  /\ pc[c] # "waiting" /\ depth[c] < MaxDepth /\ (depth[c] > 0 => k = key[c])
  /\ \E q \in Queues :
       /\ \/ /\ tb[k] = nil /\ q \in Unused
             /\ tb' = [tb EXCEPT ![k] = q] /\ counter' = [counter EXCEPT ![k] = 1]
          \/ /\ tb[k] = q
             /\ counter' = [counter EXCEPT ![k] = @ + 1] /\ UNCHANGED tb
       /\ Enter(c, q)
       /\ cs' = [cs EXCEPT ![c][depth[c] + 1] = q]
  /\ key' = [key EXCEPT ![c] = k] /\ depth' = [depth EXCEPT ![c] = @ + 1]

(* The queue was handed over to a waiting caller, which now runs.          *)
resume(c) ==
  LET q == cs[c][depth[c]] IN
  /\ pc[c] = "waiting" /\ current[q] = c
  /\ ref' = [ref EXCEPT ![q] = @ + 1]
  /\ pc' = [pc EXCEPT ![c] = "in"]
  /\ UNCHANGED <<tb, counter, current, thread_queue, key, cs, depth>>

(* Mutant: who waits is not woken.                                         *)
HandOverToNobody(q) ==
  /\ ref' = [ref EXCEPT ![q] = @ - 1]
  /\ current' = [current EXCEPT ![q] = IF ref[q] = 1 THEN Nobody ELSE @]
  /\ UNCHANGED thread_queue

(* The outermost function has ended: the first waiting caller is next.     *)
HandOver(q) ==
  /\ ref' = [ref EXCEPT ![q] = @ - 1]
  /\ IF ref[q] = 1 /\ thread_queue[q] # <<>>
     THEN /\ current' = [current EXCEPT ![q] = Head(thread_queue[q])]
          /\ thread_queue' = [thread_queue EXCEPT ![q] = Tail(@)]
     ELSE /\ current' = [current EXCEPT ![q] = IF ref[q] = 1 THEN Nobody ELSE @]
          /\ UNCHANGED thread_queue

(* Mutant: the queue is forgotten while somebody waits in it.              *)
unlockForgets(k) ==
  /\ counter' = [counter EXCEPT ![k] = @ - 1]
  /\ tb' = [tb EXCEPT ![k] = IF counter[k] <= 2 THEN nil ELSE @]

(* Mutant: the queue is never forgotten.                                   *)
unlockKeeps(k) ==
  /\ counter' = [counter EXCEPT ![k] = @ - 1]
  /\ UNCHANGED tb

unlock(k) ==
  /\ counter' = [counter EXCEPT ![k] = @ - 1]
  /\ tb' = [tb EXCEPT ![k] = IF counter[k] <= 1 THEN nil ELSE @]

(* The function of a caller has ended, normally or with an error, and lock *)
(* returns.                                                                *)
procssLockRet(c) ==
  /\ pc[c] = "in"
  /\ HandOver(cs[c][depth[c]])
  /\ unlock(key[c])
  /\ depth' = [depth EXCEPT ![c] = @ - 1]
  /\ pc' = [pc EXCEPT ![c] = IF depth[c] = 1 THEN "out" ELSE "in"]
  /\ UNCHANGED <<key, cs>>

Next ==
  \E c \in Callers : (\E k \in Keys : lock(c, k)) \/ resume(c) \/ procssLockRet(c)

Spec == Init /\ [][Next]_vars

(* skynet resumes who was woken; every function ends, the outermost one    *)
(* too: none locks its key again and again for ever.                       *)
FairSpec ==
  Spec /\ \A c \in Callers : /\ WF_vars(resume(c)) /\ WF_vars(procssLockRet(c))
                             /\ SF_vars(procssLockRet(c) /\ depth[c] = 1)

-----------------------------------------------------------------------------
(* Types of the tables, the queues and the callers.                        *)
TypeOK ==
  /\ tb \in [Keys -> Queues \cup {nil}] /\ counter \in [Keys -> Nat]
  /\ current \in [Queues -> Callers \cup {Nobody}] /\ ref \in [Queues -> Nat]
  /\ thread_queue \in [Queues -> Seq(Callers)]
  /\ key \in [Callers -> Keys] /\ depth \in [Callers -> 0..MaxDepth]
  /\ cs \in [Callers -> [1..MaxDepth -> Queues \cup {nil}]]
  /\ pc \in [Callers -> {"out", "waiting", "in"}]

(* What lock is for: two callers are never inside the same key.            *)
MutualExclusion ==
  \A c1, c2 \in Callers : pc[c1] = "in" /\ pc[c2] = "in" /\ key[c1] = key[c2] => c1 = c2

(* csUtil keeps the queue of a key exactly while somebody is in it or      *)
(* waits for it, and everybody is in that queue: none was left behind in   *)
(* one that was forgotten, and none stays in the table for ever.           *)
OneQueuePerKey ==
  \A k \in Keys :
    LET inside == {c \in Callers : depth[c] > 0 /\ key[c] = k} IN
    /\ tb[k] = nil <=> inside = {}
    /\ \A c \in inside : \A d \in 1..depth[c] : cs[c][d] = tb[k]

(* All of these, in every state.                                           *)
SectionsAreSound == TypeOK /\ MutualExclusion /\ OneQueuePerKey

(* Nobody waits for ever for a section others keep leaving.                *)
EverybodyEnters == \A c \in Callers : pc[c] = "waiting" ~> pc[c] = "in"
=============================================================================
