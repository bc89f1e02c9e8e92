---------------------------- MODULE CsLockProofs ----------------------------
(***************************************************************************)
(* Proofs about CsLock, for every finite set of callers and every set of   *)
(* keys and queues: the types, mutual exclusion, and that a key has one    *)
(* queue while anybody uses it.                                            *)
(*                                                                         *)
(* The invariant has two halves.  Locks is about csUtil: counter counts    *)
(* the locks not yet left, so a queue is forgotten by the last of them.    *)
(* Holds is about the queues: who is inside is who the queue lets in, and  *)
(* who waits is neither.                                                   *)
(***************************************************************************)
EXTENDS CsLock, SequenceTheorems, FiniteSetTheorems, TLAPS

(* The locks of key k that were not left yet.                              *)
Entries(k) == {e \in Callers \X (1..MaxDepth) : key[e[1]] = k /\ e[2] <= depth[e[1]]}

Counted == \A k \in Keys : counter[k] = Cardinality(Entries(k))

Phases == \A c \in Callers : /\ pc[c] = "out" <=> depth[c] = 0
                             /\ pc[c] = "waiting" => depth[c] = 1

CurrentIsIn ==
  /\ \A c \in Callers : pc[c] = "in" => current[cs[c][1]] = c
  /\ \A q \in Queues : current[q] # Nobody => /\ depth[current[q]] > 0
                                              /\ cs[current[q]][1] = q

RefCounts ==
  \A q \in Queues :
    ref[q] = IF current[q] # Nobody /\ pc[current[q]] = "in" THEN depth[current[q]] ELSE 0

WaitersWait ==
  \A q \in Queues : \A i \in 1..Len(thread_queue[q]) :
    /\ pc[thread_queue[q][i]] = "waiting" /\ cs[thread_queue[q][i]][1] = q
    /\ current[q] # Nobody /\ current[q] # thread_queue[q][i]
    /\ \A j \in 1..Len(thread_queue[q]) : thread_queue[q][i] = thread_queue[q][j] => i = j

Locks == Counted /\ OneQueuePerKey
Holds == Phases /\ CurrentIsIn /\ RefCounts /\ WaitersWait
Inv == TypeOK /\ Locks /\ Holds

USE CallersAssumption, QueuesAssumption, BoundAssumption

(* There are finitely many locks.                                          *)
LEMMA EntriesFinite ==
  \A E \in SUBSET (Callers \X (1..MaxDepth)) : IsFiniteSet(E) /\ Cardinality(E) \in Nat
  <1>1. IsFiniteSet(1..MaxDepth)
    BY FS_Interval, 1 \in Int, MaxDepth \in Int
  <1>2. IsFiniteSet(Callers \X (1..MaxDepth))
    BY <1>1, FS_Product
  <1> QED
    BY <1>2, FS_Subset, FS_CardinalityType

(* A caller inside a key is in the queue of that key, at every depth.      *)
LEMMA InsideQueue ==
  ASSUME Inv, NEW c \in Callers, depth[c] > 0
  PROVE /\ tb[key[c]] \in Queues /\ cs[c][1] = tb[key[c]]
        /\ \A d \in 1..depth[c] : cs[c][d] = tb[key[c]]
  <1>1. key[c] \in Keys /\ depth[c] \in 1..MaxDepth
    BY DEF Inv, TypeOK
  <1>2. c \in {x \in Callers : depth[x] > 0 /\ key[x] = key[c]}
    OBVIOUS
  <1>3. tb[key[c]] # nil /\ \A d \in 1..depth[c] : cs[c][d] = tb[key[c]]
    BY <1>1, <1>2 DEF Inv, Locks, OneQueuePerKey
  <1> QED
    BY <1>1, <1>3 DEF Inv, TypeOK

(* Nobody is inside at first.                                              *)
LEMMA InitInv == Init => Inv
  <1> SUFFICES ASSUME Init PROVE Inv
    OBVIOUS
  <1>1. TypeOK
    BY DEF Init, TypeOK
  <1>2. \A k \in Keys : Entries(k) = {}
    BY DEF Init, Entries
  <1>3. Locks
    <2>1. Counted
      BY <1>2, FS_EmptySet DEF Init, Counted
    <2>2. \A k \in Keys : {c \in Callers : depth[c] > 0 /\ key[c] = k} = {} /\ tb[k] = nil
      BY DEF Init
    <2>3. OneQueuePerKey
      BY <2>2 DEF OneQueuePerKey
    <2> QED
      BY <2>1, <2>3 DEF Locks
  <1>4. Holds
    BY DEF Init, Holds, Phases, CurrentIsIn, RefCounts, WaitersWait
  <1> QED
    BY <1>1, <1>3, <1>4 DEF Inv

-----------------------------------------------------------------------------
(* What a call of lock finds and sets.                                     *)
LEMMA LockFacts ==
  ASSUME Inv, NEW c \in Callers, NEW k \in Keys, lock(c, k)
  PROVE \E q \in Queues :
          /\ Enter(c, q)
          /\ pc[c] # "waiting" /\ depth[c] \in 0..MaxDepth - 1
          /\ depth[c] > 0 => pc[c] = "in" /\ key[c] = k /\ tb[k] = q /\ cs[c][1] = q
          /\ tb[k] = nil => counter[k] = 0 /\ current[q] = Nobody
          /\ tb[k] \in {nil, q}
          /\ tb' = [tb EXCEPT ![k] = q] /\ counter' = [counter EXCEPT ![k] = @ + 1]
          /\ key' = [key EXCEPT ![c] = k] /\ depth' = [depth EXCEPT ![c] = @ + 1]
          /\ cs' = [cs EXCEPT ![c][depth[c] + 1] = q]
  <1>1. PICK q \in Queues :
          /\ \/ /\ tb[k] = nil /\ q \in Unused
                /\ tb' = [tb EXCEPT ![k] = q] /\ counter' = [counter EXCEPT ![k] = 1]
             \/ /\ tb[k] = q
                /\ counter' = [counter EXCEPT ![k] = @ + 1] /\ UNCHANGED tb
          /\ Enter(c, q)
          /\ cs' = [cs EXCEPT ![c][depth[c] + 1] = q]
    BY DEF lock
  <1>2. /\ pc[c] # "waiting" /\ depth[c] \in 0..MaxDepth - 1 /\ (depth[c] > 0 => key[c] = k)
        /\ key' = [key EXCEPT ![c] = k] /\ depth' = [depth EXCEPT ![c] = @ + 1]
    BY DEF lock, Inv, TypeOK
  <1>3. ASSUME depth[c] > 0
        PROVE pc[c] = "in" /\ key[c] = k /\ tb[k] = q /\ cs[c][1] = q
    <2>1. pc[c] = "in" /\ key[c] = k
      BY <1>2, <1>3 DEF Inv, Holds, Phases, TypeOK
    <2>2. tb[k] \in Queues /\ cs[c][1] = tb[k]
      BY <1>3, <2>1, InsideQueue
    <2> QED
      BY <1>1, <2>1, <2>2
  <1>4. ASSUME tb[k] = nil
        PROVE counter[k] = 0 /\ current[q] = Nobody
    <2>1. q \in Unused
      BY <1>1, <1>4
    <2>2. current[q] = Nobody
      <3> SUFFICES ASSUME current[q] # Nobody PROVE FALSE
        OBVIOUS
      <3>1. current[q] \in Callers /\ depth[current[q]] > 0 /\ cs[current[q]][1] = q
        BY DEF Inv, TypeOK, Holds, CurrentIsIn
      <3>2. 1 \in 1..depth[current[q]]
        BY <3>1 DEF Inv, TypeOK
      <3> QED
        BY <2>1, <3>1, <3>2 DEF Unused
    <2>3. {x \in Callers : depth[x] > 0 /\ key[x] = k} = {}
      BY <1>4 DEF Inv, Locks, OneQueuePerKey
    <2>4. Entries(k) = {}
      <3> SUFFICES ASSUME NEW e \in Callers \X (1..MaxDepth), key[e[1]] = k, e[2] <= depth[e[1]]
                   PROVE FALSE
        BY DEF Entries
      <3> QED
        BY <2>3 DEF Inv, TypeOK
    <2> QED
      BY <2>2, <2>4, FS_EmptySet DEF Inv, Locks, Counted
  <1>5. tb' = [tb EXCEPT ![k] = q] /\ counter' = [counter EXCEPT ![k] = @ + 1]
    BY <1>1, <1>4 DEF Inv, TypeOK
  <1> QED
    BY <1>1, <1>2, <1>3, <1>4, <1>5

(* lock keeps csUtil's half of the invariant.                              *)
LEMMA LockLocks ==
  ASSUME Inv, NEW c \in Callers, NEW k \in Keys, lock(c, k)
  PROVE Locks'
  <1>1. PICK q \in Queues :
          /\ pc[c] # "waiting" /\ depth[c] \in 0..MaxDepth - 1
          /\ depth[c] > 0 => pc[c] = "in" /\ key[c] = k /\ tb[k] = q /\ cs[c][1] = q
          /\ tb[k] \in {nil, q}
          /\ tb' = [tb EXCEPT ![k] = q] /\ counter' = [counter EXCEPT ![k] = @ + 1]
          /\ key' = [key EXCEPT ![c] = k] /\ depth' = [depth EXCEPT ![c] = @ + 1]
          /\ cs' = [cs EXCEPT ![c][depth[c] + 1] = q]
    BY LockFacts
  <1>2. \A x \in Callers : /\ key'[x] = IF x = c THEN k ELSE key[x]
                           /\ depth'[x] = IF x = c THEN depth[x] + 1 ELSE depth[x]
                           /\ x # c => cs'[x] = cs[x]
    BY <1>1 DEF Inv, TypeOK
  <1>3. \A d \in 1..MaxDepth : cs'[c][d] = IF d = depth[c] + 1 THEN q ELSE cs[c][d]
    BY <1>1 DEF Inv, TypeOK
  <1>4. \A x \in Keys : /\ tb'[x] = IF x = k THEN q ELSE tb[x]
                        /\ counter'[x] = IF x = k THEN counter[x] + 1 ELSE counter[x]
    BY <1>1 DEF Inv, TypeOK
  <1>5. \A x \in Keys : Entries(x)' = IF x = k THEN Entries(x) \cup {<<c, depth[c] + 1>>}
                                      ELSE Entries(x)
    <2> SUFFICES ASSUME NEW x \in Keys, NEW b \in Callers, NEW d \in 1..MaxDepth
                 PROVE <<b, d>> \in Entries(x)' <=>
                         \/ <<b, d>> \in Entries(x)
                         \/ x = k /\ b = c /\ d = depth[c] + 1
      <3>1. <<c, depth[c] + 1>> \in Callers \X (1..MaxDepth)
        BY <1>1
      <3> QED
        BY <3>1 DEF Entries
    <2>1. <<b, d>> \in Entries(x) <=> key[b] = x /\ d <= depth[b]
      BY DEF Entries
    <2>2. <<b, d>> \in Entries(x)' <=> key'[b] = x /\ d <= depth'[b]
      BY DEF Entries
    <2> QED
      BY <1>1, <1>2, <2>1, <2>2 DEF Inv, TypeOK
  <1>6. Counted'
    <2> SUFFICES ASSUME NEW x \in Keys PROVE counter'[x] = Cardinality(Entries(x)')
      BY DEF Counted
    <2>1. IsFiniteSet(Entries(x)) /\ counter[x] = Cardinality(Entries(x))
      BY EntriesFinite DEF Entries, Inv, Locks, Counted
    <2>2. <<c, depth[c] + 1>> \notin Entries(x)
      BY <1>1 DEF Entries, Inv, TypeOK
    <2>3. Cardinality(Entries(x) \cup {<<c, depth[c] + 1>>}) = Cardinality(Entries(x)) + 1
      BY <2>1, <2>2, FS_AddElement
    <2> QED
      BY <1>4, <1>5, <2>1, <2>3
  <1>7. OneQueuePerKey'
    <2> DEFINE inside(x) == {b \in Callers : depth[b] > 0 /\ key[b] = x}
               insideNow(x) == {b \in Callers : depth'[b] > 0 /\ key'[b] = x}
    <2> SUFFICES ASSUME NEW x \in Keys
                 PROVE /\ tb'[x] = nil <=> insideNow(x) = {}
                       /\ \A b \in insideNow(x) : \A d \in 1..depth'[b] : cs'[b][d] = tb'[x]
      BY DEF OneQueuePerKey
    <2>1. /\ tb[x] = nil <=> inside(x) = {}
          /\ \A b \in inside(x) : \A d \in 1..depth[b] : cs[b][d] = tb[x]
      BY DEF Inv, Locks, OneQueuePerKey
    <2>2. CASE x = k
      <3>1. c \in insideNow(x) /\ tb'[x] = q
        BY <1>1, <1>2, <1>4, <2>2 DEF Inv, TypeOK
      <3>2. ASSUME NEW b \in insideNow(x), NEW d \in 1..depth'[b]
            PROVE cs'[b][d] = q
        <4>1. CASE b # c
          <5>1. b \in inside(x) /\ d \in 1..depth[b]
            BY <1>2, <4>1
          <5> QED
            BY <1>1, <1>2, <2>1, <2>2, <4>1, <5>1
        <4>2. CASE b = c
          <5>1. d \in 1..MaxDepth /\ d <= depth[c] + 1
            BY <1>1, <1>2, <4>2
          <5>2. d <= depth[c] => c \in inside(x) /\ d \in 1..depth[c] /\ tb[k] = q
            BY <1>1, <2>2, <5>1
          <5> QED
            BY <1>1, <1>3, <2>1, <2>2, <4>2, <5>1, <5>2
        <4> QED
          BY <4>1, <4>2
      <3> QED
        BY <3>1, <3>2
    <2>3. CASE x # k
      <3>1. insideNow(x) = inside(x) /\ c \notin inside(x)
        BY <1>1, <1>2, <2>3
      <3> QED
        BY <1>2, <1>4, <2>1, <2>3, <3>1
    <2> QED
      BY <2>2, <2>3
  <1> QED
    BY <1>6, <1>7 DEF Locks

(* lock keeps the queues' half of the invariant.                           *)
LEMMA LockHolds ==
  ASSUME Inv, NEW c \in Callers, NEW k \in Keys, lock(c, k)
  PROVE Holds' /\ TypeOK'
  <1>1. PICK q \in Queues :
          /\ Enter(c, q)
          /\ pc[c] # "waiting" /\ depth[c] \in 0..MaxDepth - 1
          /\ depth[c] > 0 => pc[c] = "in" /\ key[c] = k /\ tb[k] = q /\ cs[c][1] = q
          /\ tb[k] = nil => counter[k] = 0 /\ current[q] = Nobody
          /\ tb' = [tb EXCEPT ![k] = q] /\ counter' = [counter EXCEPT ![k] = @ + 1]
          /\ key' = [key EXCEPT ![c] = k] /\ depth' = [depth EXCEPT ![c] = @ + 1]
          /\ cs' = [cs EXCEPT ![c][depth[c] + 1] = q]
    BY LockFacts
  <1>2. \A x \in Callers : /\ depth'[x] = IF x = c THEN depth[x] + 1 ELSE depth[x]
                           /\ x # c => cs'[x] = cs[x]
    BY <1>1 DEF Inv, TypeOK
  <1>3. cs'[c][1] = q
    BY <1>1 DEF Inv, TypeOK
  <1>4. /\ tb' \in [Keys -> Queues \cup {nil}] /\ counter' \in [Keys -> Nat]
        /\ key' \in [Callers -> Keys] /\ depth' \in [Callers -> 0..MaxDepth]
        /\ cs' \in [Callers -> [1..MaxDepth -> Queues \cup {nil}]]
    <2>1. cs' \in [Callers -> [1..MaxDepth -> Queues \cup {nil}]]
      <3>1. [cs[c] EXCEPT ![depth[c] + 1] = q] \in [1..MaxDepth -> Queues \cup {nil}]
        BY <1>1 DEF Inv, TypeOK
      <3> QED
        BY <1>1, <3>1 DEF Inv, TypeOK
    <2> QED
      BY <1>1, <2>1 DEF Inv, TypeOK
  <1>5. pc[c] = "out" <=> depth[c] = 0
    BY DEF Inv, Holds, Phases
  <1>6. CASE current[q] \in {Nobody, c}
    <2>1. /\ current' = [current EXCEPT ![q] = c] /\ ref' = [ref EXCEPT ![q] = @ + 1]
          /\ pc' = [pc EXCEPT ![c] = "in"] /\ thread_queue' = thread_queue
      BY <1>1, <1>6 DEF Enter
    <2>2. /\ \A x \in Queues : current'[x] = IF x = q THEN c ELSE current[x]
          /\ \A x \in Queues : ref'[x] = IF x = q THEN ref[x] + 1 ELSE ref[x]
          /\ \A x \in Callers : pc'[x] = IF x = c THEN "in" ELSE pc[x]
      BY <2>1 DEF Inv, TypeOK
    <2>3. TypeOK'
      BY <1>4, <2>1 DEF Inv, TypeOK
    <2>4. Phases'
      BY <1>1, <1>2, <2>2, SMTT(20) DEF Phases, Inv, Holds, TypeOK
    <2>5. CurrentIsIn'
      <3>1. ASSUME NEW x \in Callers, pc'[x] = "in" PROVE current'[cs'[x][1]] = x
        <4>1. CASE x = c
          BY <1>3, <2>2, <4>1
        <4>2. CASE x # c
          <5>1. pc[x] = "in" /\ cs'[x] = cs[x] /\ depth[x] > 0
            BY <1>2, <2>2, <3>1, <4>2 DEF Inv, Holds, Phases, TypeOK
          <5>2. current[cs[x][1]] = x /\ cs[x][1] \in Queues
            BY <5>1, InsideQueue DEF Inv, Holds, CurrentIsIn
          <5>3. cs[x][1] # q
            BY <1>6, <4>2, <5>2
          <5> QED
            BY <2>2, <5>1, <5>2, <5>3
        <4> QED
          BY <4>1, <4>2
      <3>2. ASSUME NEW x \in Queues, current'[x] # Nobody
            PROVE depth'[current'[x]] > 0 /\ cs'[current'[x]][1] = x
        <4>1. CASE x = q
          BY <1>1, <1>2, <1>3, <2>2, <4>1
        <4>2. CASE x # q
          <5>1. current'[x] = current[x] /\ current[x] \in Callers
                /\ depth[current[x]] > 0 /\ cs[current[x]][1] = x
            BY <2>2, <3>2, <4>2 DEF Inv, TypeOK, Holds, CurrentIsIn
          <5>2. current[x] # c
            BY <1>1, <4>2, <5>1
          <5> QED
            BY <1>2, <5>1, <5>2
        <4> QED
          BY <4>1, <4>2
      <3> QED
        BY <3>1, <3>2 DEF CurrentIsIn
    <2>6. RefCounts'
      <3> SUFFICES ASSUME NEW x \in Queues
                   PROVE ref'[x] = IF current'[x] # Nobody /\ pc'[current'[x]] = "in"
                                   THEN depth'[current'[x]] ELSE 0
        BY DEF RefCounts
      <3>1. ref[x] = IF current[x] # Nobody /\ pc[current[x]] = "in"
                     THEN depth[current[x]] ELSE 0
        BY DEF Inv, Holds, RefCounts
      <3>2. CASE x = q
        <4>1. ref[q] = depth[c]
          <5>1. CASE current[q] = Nobody
            <6>1. depth[c] = 0
              <7>1. pc[c] = "in" => current[cs[c][1]] = c
                BY DEF Inv, Holds, CurrentIsIn
              <7> QED
                BY <1>1, <5>1, <7>1
            <6> QED
              BY <3>1, <3>2, <5>1, <6>1
          <5>2. CASE current[q] = c
            <6>1. depth[c] > 0 /\ c # Nobody
              BY <5>2 DEF Inv, Holds, CurrentIsIn
            <6> QED
              BY <1>1, <3>1, <3>2, <5>2, <6>1
          <5> QED
            BY <1>6, <5>1, <5>2
        <4> QED
          BY <1>2, <2>2, <3>2, <4>1
      <3>3. CASE x # q
        <4>1. current'[x] = current[x] /\ ref'[x] = ref[x]
          BY <2>2, <3>3
        <4>2. current[x] # Nobody => current[x] \in Callers /\ current[x] # c
          BY <1>1, <3>3 DEF Inv, TypeOK, Holds, CurrentIsIn
        <4> QED
          BY <1>2, <2>2, <3>1, <4>1, <4>2
      <3> QED
        BY <3>2, <3>3
    <2>7. WaitersWait'
      <3> SUFFICES ASSUME NEW x \in Queues, NEW i \in 1..Len(thread_queue[x])
                   PROVE LET w == thread_queue[x][i] IN
                         /\ pc'[w] = "waiting" /\ cs'[w][1] = x
                         /\ current'[x] # Nobody /\ current'[x] # w
                         /\ \A j \in 1..Len(thread_queue[x]) : w = thread_queue[x][j] => i = j
        BY <2>1 DEF WaitersWait
      <3> DEFINE w == thread_queue[x][i]
      <3>1. /\ w \in Callers /\ pc[w] = "waiting" /\ cs[w][1] = x
            /\ current[x] # Nobody /\ current[x] # w
            /\ \A j \in 1..Len(thread_queue[x]) : w = thread_queue[x][j] => i = j
        <4>1. thread_queue[x] \in Seq(Callers)
          BY DEF Inv, TypeOK, Holds
        <4>2. w \in Callers
          BY <4>1, ElementOfSeq
        <4> QED
          BY <4>2 DEF Inv, Holds, WaitersWait
      <3>2. w # c
        BY <1>1, <3>1
      <3> HIDE DEF w
      <3>3. pc'[w] = "waiting" /\ cs'[w][1] = x /\ current'[x] # Nobody /\ current'[x] # w
        BY <1>2, <2>2, <3>1, <3>2
      <3> QED
        BY <3>1, <3>3 DEF w
    <2> QED
      BY <2>3, <2>4, <2>5, <2>6, <2>7 DEF Holds
  <1>7. CASE current[q] \notin {Nobody, c}
    <2>1. /\ thread_queue' = [thread_queue EXCEPT ![q] = Append(@, c)]
          /\ pc' = [pc EXCEPT ![c] = "waiting"] /\ current' = current /\ ref' = ref
      BY <1>1, <1>7 DEF Enter
    <2>2. \A x \in Callers : pc'[x] = IF x = c THEN "waiting" ELSE pc[x]
      BY <2>1 DEF Inv, TypeOK
    <2>3. depth[c] = 0
      <3>1. pc[c] = "in" => current[cs[c][1]] = c
        BY DEF Inv, Holds, CurrentIsIn
      <3> QED
        BY <1>1, <1>7, <3>1
    <2>4. TypeOK'
      <3>1. thread_queue' \in [Queues -> Seq(Callers)]
        BY <2>1, AppendProperties DEF Inv, TypeOK
      <3> QED
        BY <1>4, <2>1, <3>1 DEF Inv, TypeOK
    <2>5. Phases'
      <3> SUFFICES ASSUME NEW x \in Callers
                   PROVE  (pc'[x] = "out" <=> depth'[x] = 0) /\ (pc'[x] = "waiting" => depth'[x] = 1)
        BY DEF Phases
      <3>1. (pc[x] = "out" <=> depth[x] = 0) /\ (pc[x] = "waiting" => depth[x] = 1)
        BY DEF Inv, Holds, Phases
      <3> QED
        BY <1>2, <2>2, <2>3, <3>1, SMTT(20) DEF Inv, TypeOK
    <2>6. \A x \in Queues : current[x] # Nobody => current[x] \in Callers /\ current[x] # c
      BY <2>3 DEF Inv, TypeOK, Holds, CurrentIsIn
    <2>7. CurrentIsIn'
      <3>1. ASSUME NEW x \in Callers, pc'[x] = "in" PROVE current'[cs'[x][1]] = x
        BY <1>2, <2>1, <2>2, <3>1 DEF Inv, Holds, CurrentIsIn
      <3>2. ASSUME NEW x \in Queues, current'[x] # Nobody
            PROVE depth'[current'[x]] > 0 /\ cs'[current'[x]][1] = x
        BY <1>2, <2>1, <2>6, <3>2 DEF Inv, Holds, CurrentIsIn
      <3> QED
        BY <3>1, <3>2 DEF CurrentIsIn
    <2>8. RefCounts'
      BY <1>2, <2>1, <2>2, <2>6 DEF Inv, Holds, RefCounts
    <2>9. WaitersWait'
      <3> SUFFICES ASSUME NEW x \in Queues, NEW i \in 1..Len(thread_queue'[x])
                   PROVE /\ pc'[thread_queue'[x][i]] = "waiting"
                         /\ cs'[thread_queue'[x][i]][1] = x
                         /\ current'[x] # Nobody /\ current'[x] # thread_queue'[x][i]
                         /\ \A j \in 1..Len(thread_queue'[x]) :
                              thread_queue'[x][i] = thread_queue'[x][j] => i = j
        BY DEF WaitersWait
      <3>1. \A n \in 1..Len(thread_queue[x]) :
              LET w == thread_queue[x][n] IN
              /\ w \in Callers /\ w # c /\ pc[w] = "waiting" /\ cs[w][1] = x
              /\ current[x] # Nobody /\ current[x] # w
              /\ \A j \in 1..Len(thread_queue[x]) : w = thread_queue[x][j] => n = j
        <4> TAKE n \in 1..Len(thread_queue[x])
        <4>1. thread_queue[x][n] \in Callers
          BY ElementOfSeq DEF Inv, TypeOK
        <4> QED
          BY <1>1, <4>1 DEF Inv, Holds, WaitersWait
      <3>2. CASE x # q
        <4>1. thread_queue'[x] = thread_queue[x]
          BY <2>1, <3>2 DEF Inv, TypeOK
        <4> DEFINE w == thread_queue[x][i]
        <4>2. /\ w \in Callers /\ w # c /\ pc[w] = "waiting" /\ cs[w][1] = x
              /\ current[x] # Nobody /\ current[x] # w
              /\ \A j \in 1..Len(thread_queue[x]) : w = thread_queue[x][j] => i = j
          BY <3>1, <4>1
        <4> HIDE DEF w
        <4>3. pc'[w] = "waiting" /\ cs'[w][1] = x /\ current'[x] # Nobody /\ current'[x] # w
          BY <1>2, <2>1, <2>2, <4>2
        <4> QED
          BY <4>1, <4>2, <4>3 DEF w
      <3>3. CASE x = q
        <4> DEFINE s == thread_queue[x]  t == thread_queue'[x]
        <4>1. /\ t = Append(s, c) /\ Len(t) = Len(s) + 1 /\ Len(s) \in Nat
              /\ \A n \in 1..Len(s) : t[n] = s[n]
              /\ t[Len(s) + 1] = c
          <5>1. t = Append(s, c) /\ s \in Seq(Callers)
            BY <2>1, <3>3 DEF Inv, TypeOK
          <5> QED
            BY <5>1, AppendProperties, LenProperties
        <4> HIDE DEF s, t
        <4>2. \A n \in 1..Len(s) : /\ s[n] \in Callers /\ s[n] # c /\ pc[s[n]] = "waiting"
                                   /\ cs[s[n]][1] = x /\ current[x] # s[n]
                                   /\ \A j \in 1..Len(s) : s[n] = s[j] => n = j
          BY <3>1 DEF s
        <4>3. i \in 1..Len(s) + 1
          BY <4>1 DEF t
        <4>4. current'[x] # Nobody /\ current'[x] # c
          BY <1>7, <2>1, <3>3
        <4>5. /\ pc'[t[i]] = "waiting" /\ cs'[t[i]][1] = x /\ current'[x] # t[i]
          <5>1. CASE i = Len(s) + 1
            BY <1>3, <2>2, <3>3, <4>1, <4>4, <5>1
          <5>2. CASE i \in 1..Len(s)
            BY <1>2, <2>1, <2>2, <4>1, <4>2, <5>2
          <5> QED
            BY <4>1, <4>3, <5>1, <5>2
        <4>6. \A j \in 1..Len(t) : t[i] = t[j] => i = j
          <5> TAKE j \in 1..Len(t)
          <5>1. i \in 1..Len(s) /\ j \in 1..Len(s) => (t[i] = t[j] => i = j)
            BY <4>1, <4>2
          <5>2. \A n \in 1..Len(s) : t[n] # c
            BY <4>1, <4>2
          <5> QED
            BY <4>1, <4>3, <5>1, <5>2
        <4> QED
          BY <4>4, <4>5, <4>6 DEF t
      <3> QED
        BY <3>2, <3>3
    <2> QED
      BY <2>4, <2>5, <2>7, <2>8, <2>9 DEF Holds
  <1> QED
    BY <1>6, <1>7

-----------------------------------------------------------------------------
(* A woken caller keeps the invariant.                                     *)
LEMMA ResumeInv ==
  ASSUME Inv, NEW c \in Callers, resume(c)
  PROVE Inv'
  <1> DEFINE q == cs[c][1]
  <1>1. /\ pc[c] = "waiting" /\ depth[c] = 1 /\ current[q] = c
        /\ ref' = [ref EXCEPT ![q] = @ + 1] /\ pc' = [pc EXCEPT ![c] = "in"]
        /\ UNCHANGED <<tb, counter, current, thread_queue, key, cs, depth>>
    BY DEF resume, Inv, Holds, Phases
  <1>2. q \in Queues
    BY <1>1, InsideQueue
  <1> HIDE DEF q
  <1>3. /\ \A x \in Queues : ref'[x] = IF x = q THEN ref[x] + 1 ELSE ref[x]
        /\ \A x \in Callers : pc'[x] = IF x = c THEN "in" ELSE pc[x]
    BY <1>1 DEF Inv, TypeOK
  <1>4. TypeOK'
    BY <1>1, <1>2 DEF Inv, TypeOK
  <1>5. Locks'
    BY <1>1 DEF Inv, Locks, Counted, Entries, OneQueuePerKey
  <1>6. Phases'
    BY <1>1, <1>3 DEF Inv, Holds, Phases
  <1>7. CurrentIsIn'
    BY <1>1, <1>3 DEF Inv, Holds, CurrentIsIn, q
  <1>8. RefCounts'
    <2> SUFFICES ASSUME NEW x \in Queues
                 PROVE ref'[x] = IF current[x] # Nobody /\ pc'[current[x]] = "in"
                                 THEN depth[current[x]] ELSE 0
      BY <1>1 DEF RefCounts
    <2>1. ref[x] = IF current[x] # Nobody /\ pc[current[x]] = "in"
                   THEN depth[current[x]] ELSE 0
      BY DEF Inv, Holds, RefCounts
    <2>2. current[x] # Nobody => current[x] \in Callers /\ (current[x] = c => x = q)
      BY DEF Inv, TypeOK, Holds, CurrentIsIn, q
    <2> QED
      BY <1>1, <1>3, <2>1, <2>2
  <1>9. WaitersWait'
    <2> SUFFICES ASSUME NEW x \in Queues, NEW i \in 1..Len(thread_queue[x])
                 PROVE pc'[thread_queue[x][i]] = "waiting"
      BY <1>1 DEF WaitersWait, Inv, Holds
    <2>1. thread_queue[x][i] \in Callers
      BY ElementOfSeq DEF Inv, TypeOK
    <2>2. /\ pc[thread_queue[x][i]] = "waiting" /\ cs[thread_queue[x][i]][1] = x
          /\ current[x] # thread_queue[x][i]
      BY DEF Inv, Holds, WaitersWait
    <2> QED
      BY <1>1, <1>3, <2>1, <2>2 DEF q
  <1> QED
    BY <1>4, <1>5, <1>6, <1>7, <1>8, <1>9 DEF Inv, Holds

-----------------------------------------------------------------------------
(* What a caller that leaves a lock finds: it is inside its queue, at the  *)
(* depth the queue counts.                                                 *)
LEMMA RetFacts ==
  ASSUME Inv, NEW c \in Callers, procssLockRet(c)
  PROVE /\ depth[c] \in 1..MaxDepth /\ key[c] \in Keys
        /\ cs[c][1] \in Queues /\ tb[key[c]] = cs[c][1]
        /\ current[cs[c][1]] = c /\ ref[cs[c][1]] = depth[c]
        /\ HandOver(cs[c][1])
  <1>1. pc[c] = "in" /\ HandOver(cs[c][depth[c]])
    BY DEF procssLockRet
  <1>2. depth[c] \in 1..MaxDepth /\ key[c] \in Keys
    BY <1>1 DEF Inv, TypeOK, Holds, Phases
  <1>3. /\ tb[key[c]] \in Queues /\ cs[c][1] = tb[key[c]]
        /\ cs[c][depth[c]] = tb[key[c]]
    BY <1>2, InsideQueue
  <1>4. current[cs[c][1]] = c
    BY <1>1 DEF Inv, Holds, CurrentIsIn
  <1>5. ref[cs[c][1]] = depth[c]
    BY <1>1, <1>3, <1>4 DEF Inv, Holds, RefCounts
  <1> QED
    BY <1>1, <1>2, <1>3, <1>4, <1>5

(* procssLockRet keeps csUtil's half of the invariant: the last lock to be *)
(* left is the one that forgets the queue.                                 *)
LEMMA RetLocks ==
  ASSUME Inv, NEW c \in Callers, procssLockRet(c)
  PROVE Locks'
  <1> DEFINE k == key[c]  d == depth[c]
  <1>1. d \in 1..MaxDepth /\ k \in Keys
    BY RetFacts
  <1>2. /\ counter' = [counter EXCEPT ![k] = @ - 1]
        /\ tb' = [tb EXCEPT ![k] = IF counter[k] <= 1 THEN nil ELSE @]
        /\ depth' = [depth EXCEPT ![c] = @ - 1] /\ key' = key /\ cs' = cs
    BY DEF procssLockRet, unlock
  <1>3. \A x \in Callers : depth'[x] = IF x = c THEN d - 1 ELSE depth[x]
    BY <1>2 DEF Inv, TypeOK
  <1>4. \A x \in Keys : Entries(x)' = IF x = k THEN Entries(x) \ {<<c, d>>} ELSE Entries(x)
    <2> SUFFICES ASSUME NEW x \in Keys, NEW b \in Callers, NEW n \in 1..MaxDepth
                 PROVE <<b, n>> \in Entries(x)' <=>
                         <<b, n>> \in Entries(x) /\ (x = k => ~(b = c /\ n = d))
      BY DEF Entries
    <2>1. <<b, n>> \in Entries(x) <=> key[b] = x /\ n <= depth[b]
      BY DEF Entries
    <2>2. <<b, n>> \in Entries(x)' <=> key[b] = x /\ n <= depth'[b]
      BY <1>2 DEF Entries
    <2> QED
      BY <1>1, <1>3, <2>1, <2>2 DEF Inv, TypeOK
  <1>5. <<c, d>> \in Entries(k)
    BY <1>1 DEF Entries
  <1> HIDE DEF k, d
  <1>6. \A x \in Keys : IsFiniteSet(Entries(x)) /\ counter[x] = Cardinality(Entries(x))
    BY EntriesFinite DEF Entries, Inv, Locks, Counted
  <1>7. Cardinality(Entries(k) \ {<<c, d>>}) = counter[k] - 1
    BY <1>1, <1>5, <1>6, FS_RemoveElement
  <1>8. Counted'
    <2> SUFFICES ASSUME NEW x \in Keys PROVE counter'[x] = Cardinality(Entries(x)')
      BY DEF Counted
    <2>1. CASE x = k
      BY <1>1, <1>2, <1>4, <1>7, <2>1 DEF Inv, TypeOK
    <2>2. CASE x # k
      BY <1>1, <1>2, <1>4, <1>6, <2>2 DEF Inv, TypeOK
    <2> QED
      BY <2>1, <2>2
  <1>9. OneQueuePerKey'
    <2> DEFINE inside(x) == {b \in Callers : depth[b] > 0 /\ key[b] = x}
               insideNow(x) == {b \in Callers : depth'[b] > 0 /\ key[b] = x}
    <2> SUFFICES ASSUME NEW x \in Keys
                 PROVE /\ tb'[x] = nil <=> insideNow(x) = {}
                       /\ \A b \in insideNow(x) : \A n \in 1..depth'[b] : cs[b][n] = tb'[x]
      BY <1>2 DEF OneQueuePerKey
    <2>1. /\ tb[x] = nil <=> inside(x) = {}
          /\ \A b \in inside(x) : \A n \in 1..depth[b] : cs[b][n] = tb[x]
      BY DEF Inv, Locks, OneQueuePerKey
    <2>2. \A b \in Callers : depth'[b] \in Nat /\ depth[b] \in Nat /\ depth'[b] <= depth[b]
      <3> TAKE b \in Callers
      <3>1. depth[b] \in Nat /\ depth[c] = d /\ d \in Nat /\ d > 0
        BY <1>1 DEF Inv, TypeOK, d
      <3> QED
        BY <1>3, <3>1
    <2>3. insideNow(x) \subseteq inside(x)
      BY <2>2
    <2>4. CASE x # k
      <3>1. tb'[x] = tb[x]
        BY <1>2, <2>4 DEF Inv, TypeOK
      <3>2. \A b \in inside(x) : depth'[b] = depth[b]
        BY <1>3, <2>4 DEF k
      <3> QED
        BY <2>1, <2>3, <3>1, <3>2
    <2>5. CASE x = k
      <3>1. c \in inside(x)
        BY <1>1, <2>5 DEF k, d
      <3>2. tb[x] # nil
        BY <2>1, <3>1
      <3>3. insideNow(x) = {} <=> Entries(x)' = {}
        <4>1. ASSUME NEW b \in insideNow(x) PROVE <<b, 1>> \in Entries(x)'
          <5>1. 1 <= depth'[b]
            BY <2>2
          <5>2. 1 \in 1..MaxDepth
            OBVIOUS
          <5> QED
            BY <1>2, <5>1, <5>2 DEF Entries
        <4>2. ASSUME NEW e \in Entries(x)' PROVE e[1] \in insideNow(x)
          BY <1>2, <2>2, <4>2 DEF Entries
        <4> QED
          BY <4>1, <4>2
      <3>4. Entries(x)' = {} <=> counter[x] <= 1
        <4>1. Entries(x)' = Entries(k) \ {<<c, d>>} /\ IsFiniteSet(Entries(x)')
          BY <1>4, <1>6, <2>5, FS_Subset
        <4>2. Cardinality(Entries(x)') = 0 <=> Entries(x)' = {}
          BY <4>1, FS_EmptySet
        <4>3. Cardinality(Entries(x)') \in Nat
          BY <4>1, FS_CardinalityType
        <4>4. counter[k] \in Nat
          BY <1>1 DEF Inv, TypeOK
        <4> QED
          BY <1>7, <2>5, <4>1, <4>2, <4>3, <4>4
      <3>5. tb'[x] = IF counter[x] <= 1 THEN nil ELSE tb[x]
        BY <1>2, <2>5 DEF Inv, TypeOK
      <3>6. ASSUME NEW b \in insideNow(x), NEW n \in 1..depth'[b] PROVE cs[b][n] = tb'[x]
        <4>1. b \in inside(x) /\ n \in 1..depth[b]
          BY <2>2, <2>3
        <4> QED
          BY <2>1, <3>3, <3>4, <3>5, <4>1
      <3> QED
        BY <3>2, <3>3, <3>4, <3>5, <3>6
    <2> QED
      BY <2>4, <2>5
  <1> QED
    BY <1>8, <1>9 DEF Locks
(* procssLockRet keeps the queues' half of the invariant: who is let in    *)
(* next was waiting, and waits nowhere any more.                           *)
LEMMA RetHolds ==
  ASSUME Inv, NEW c \in Callers, procssLockRet(c)
  PROVE Holds' /\ TypeOK'
  <1> DEFINE q == cs[c][1]  d == depth[c]  s == thread_queue[q]
  <1>1. /\ d \in 1..MaxDepth /\ key[c] \in Keys /\ q \in Queues
        /\ current[q] = c /\ ref[q] = d /\ HandOver(q) /\ pc[c] = "in"
        /\ tb[key[c]] = q
    BY RetFacts DEF procssLockRet
  <1>2. /\ counter' = [counter EXCEPT ![key[c]] = @ - 1]
        /\ tb' = [tb EXCEPT ![key[c]] = IF counter[key[c]] <= 1 THEN nil ELSE @]
        /\ depth' = [depth EXCEPT ![c] = @ - 1] /\ key' = key /\ cs' = cs
        /\ pc' = [pc EXCEPT ![c] = IF depth[c] = 1 THEN "out" ELSE "in"]
    BY DEF procssLockRet, unlock
  <1>3. s \in Seq(Callers) /\ Len(s) \in Nat
    BY <1>1, LenProperties DEF Inv, TypeOK
  <1>4. \A x \in Queues : current[x] = c => x = q
    BY DEF Inv, TypeOK, Holds, CurrentIsIn
  <1>5. \A x \in Queues : \A i \in 1..Len(thread_queue[x]) :
          thread_queue[x][i] \in Callers /\ thread_queue[x][i] # c
    <2> TAKE x \in Queues
    <2> TAKE i \in 1..Len(thread_queue[x])
    <2>1. thread_queue[x][i] \in Callers
      BY ElementOfSeq DEF Inv, TypeOK
    <2>2. pc[thread_queue[x][i]] = "waiting"
      BY DEF Inv, Holds, WaitersWait
    <2> QED
      BY <1>1, <2>1, <2>2
  <1>6. \A i \in 1..Len(s) : /\ pc[s[i]] = "waiting" /\ depth[s[i]] = 1 /\ cs[s[i]][1] = q
                             /\ \A j \in 1..Len(s) : s[i] = s[j] => i = j
    BY <1>1, <1>5 DEF Inv, Holds, WaitersWait, Phases
  <1>7. counter[key[c]] \in Nat \ {0}
    <2>1. <<c, d>> \in Entries(key[c])
      BY <1>1 DEF Entries
    <2>2. IsFiniteSet(Entries(key[c])) /\ counter[key[c]] = Cardinality(Entries(key[c]))
      BY <1>1, EntriesFinite DEF Entries, Inv, Locks, Counted
    <2>3. Cardinality(Entries(key[c])) # 0
      BY <2>1, <2>2, FS_EmptySet
    <2> QED
      BY <1>1, <2>2, <2>3 DEF Inv, TypeOK
  <1>8. /\ tb' \in [Keys -> Queues \cup {nil}] /\ counter' \in [Keys -> Nat]
        /\ key' \in [Callers -> Keys] /\ depth' \in [Callers -> 0..MaxDepth]
        /\ cs' \in [Callers -> [1..MaxDepth -> Queues \cup {nil}]]
        /\ pc' \in [Callers -> {"out", "waiting", "in"}]
    BY <1>1, <1>2, <1>7 DEF Inv, TypeOK
  <1> HIDE DEF q, d, s
  <1>9. \A x \in Callers : /\ depth'[x] = IF x = c THEN d - 1 ELSE depth[x]
                           /\ pc'[x] = IF x = c THEN (IF d = 1 THEN "out" ELSE "in") ELSE pc[x]
    BY <1>2 DEF Inv, TypeOK, d
  <1>10. Phases'
    <2> SUFFICES ASSUME NEW x \in Callers
                 PROVE (pc'[x] = "out" <=> depth'[x] = 0) /\ (pc'[x] = "waiting" => depth'[x] = 1)
      BY DEF Phases
    <2>1. (pc[x] = "out" <=> depth[x] = 0) /\ (pc[x] = "waiting" => depth[x] = 1)
      BY DEF Inv, Holds, Phases
    <2>2. d \in Nat /\ d > 0
      BY <1>1
    <2> QED
      BY <1>9, <2>1, <2>2
  <1>11. \A x \in Queues : ref'[x] = IF x = q THEN d - 1 ELSE ref[x]
    BY <1>1 DEF HandOver, Inv, TypeOK
  <1>12. ref' \in [Queues -> Nat]
    BY <1>1 DEF HandOver, Inv, TypeOK
  <1>13. PICK n \in Callers \cup {Nobody}, t \in Seq(Callers) :
           /\ current' = [current EXCEPT ![q] = n]
           /\ thread_queue' = [thread_queue EXCEPT ![q] = t]
           /\ \/ d > 1 /\ n = c /\ t = s
              \/ d = 1 /\ n = Nobody /\ Len(t) = 0
              \/ /\ d = 1 /\ Len(s) > 0 /\ n = s[1] /\ Len(t) = Len(s) - 1
                 /\ \A i \in 1..Len(t) : t[i] = s[i + 1]
    <2>1. CASE d = 1 /\ s # <<>>
      <3>1. /\ Len(s) > 0 /\ Head(s) = s[1] /\ Head(s) \in Callers
            /\ Tail(s) \in Seq(Callers) /\ Len(Tail(s)) = Len(s) - 1
            /\ \A i \in 1..Len(Tail(s)) : Tail(s)[i] = s[i + 1]
        BY <1>3, <2>1, HeadTailProperties, EmptySeq, ElementOfSeq
      <3>2. /\ current' = [current EXCEPT ![q] = Head(s)]
            /\ thread_queue' = [thread_queue EXCEPT ![q] = Tail(s)]
        BY <1>1, <2>1 DEF HandOver, s
      <3> QED
        BY <2>1, <3>1, <3>2
    <2>2. CASE d > 1
      <3>1. current' = [current EXCEPT ![q] = c] /\ thread_queue' = thread_queue
        BY <1>1, <2>2 DEF HandOver
      <3>2. thread_queue' = [thread_queue EXCEPT ![q] = s]
        BY <1>1, <3>1 DEF s, Inv, TypeOK
      <3> QED
        BY <1>3, <2>2, <3>1, <3>2
    <2>3. CASE d = 1 /\ s = <<>>
      <3>1. current' = [current EXCEPT ![q] = Nobody] /\ thread_queue' = thread_queue
        BY <1>1, <2>3 DEF HandOver, s
      <3>2. thread_queue' = [thread_queue EXCEPT ![q] = s]
        BY <1>1, <3>1 DEF s, Inv, TypeOK
      <3>3. Len(s) = 0
        BY <1>3, <2>3, EmptySeq
      <3> QED
        BY <1>3, <2>3, <3>1, <3>2, <3>3
    <2>4. d = 1 \/ d > 1
      BY <1>1
    <2> QED
      BY <2>1, <2>2, <2>3, <2>4
  <1>14. /\ \A x \in Queues : current'[x] = IF x = q THEN n ELSE current[x]
         /\ \A x \in Queues : thread_queue'[x] = IF x = q THEN t ELSE thread_queue[x]
    BY <1>13 DEF Inv, TypeOK
  <1>15. TypeOK'
    <2>1. current' \in [Queues -> Callers \cup {Nobody}]
      BY <1>13 DEF Inv, TypeOK
    <2>2. thread_queue' \in [Queues -> Seq(Callers)]
      BY <1>13 DEF Inv, TypeOK
    <2> QED
      BY <1>8, <1>12, <2>1, <2>2 DEF TypeOK
  <1>16. d = 1 /\ n # Nobody => n \in Callers /\ n # c /\ n = s[1] /\ 1 \in 1..Len(s)
    <2>1. Len(s) > 0 => s[1] \in Callers /\ s[1] # c /\ 1 \in 1..Len(s)
      BY <1>1, <1>3, <1>5 DEF s
    <2> QED
      BY <1>13, <2>1
  <1>17. CurrentIsIn'
    <2>1. ASSUME NEW x \in Callers, pc'[x] = "in" PROVE current'[cs'[x][1]] = x
      <3>1. CASE x = c
        BY <1>1, <1>2, <1>9, <1>13, <1>14, <2>1, <3>1 DEF q
      <3>2. CASE x # c
        <4>1. pc[x] = "in" /\ depth[x] > 0
          BY <1>9, <2>1, <3>2 DEF Inv, Holds, Phases, TypeOK
        <4>2. current[cs[x][1]] = x /\ cs[x][1] \in Queues
          BY <4>1, InsideQueue DEF Inv, Holds, CurrentIsIn
        <4> QED
          BY <1>1, <1>2, <1>14, <3>2, <4>2
      <3> QED
        BY <3>1, <3>2
    <2>2. ASSUME NEW x \in Queues, current'[x] # Nobody
          PROVE depth'[current'[x]] > 0 /\ cs[current'[x]][1] = x
      <3>1. CASE x # q
        BY <1>4, <1>9, <1>14, <2>2, <3>1 DEF Inv, TypeOK, Holds, CurrentIsIn
      <3>2. CASE x = q /\ d > 1
        <4>1. current'[x] = c /\ depth'[c] = d - 1 /\ d \in Nat
          BY <1>1, <1>9, <1>13, <1>14, <3>2
        <4> QED
          BY <3>2, <4>1 DEF q
      <3>3. CASE x = q /\ d = 1
        BY <1>6, <1>9, <1>14, <1>16, <2>2, <3>3
      <3> QED
        BY <1>1, <3>1, <3>2, <3>3
    <2> QED
      BY <1>2, <2>1, <2>2 DEF CurrentIsIn
  <1>18. RefCounts'
    <2> SUFFICES ASSUME NEW x \in Queues
                 PROVE ref'[x] = IF current'[x] # Nobody /\ pc'[current'[x]] = "in"
                                 THEN depth'[current'[x]] ELSE 0
      BY DEF RefCounts
    <2>1. CASE x # q
      <3>1. ref[x] = IF current[x] # Nobody /\ pc[current[x]] = "in"
                     THEN depth[current[x]] ELSE 0
        BY DEF Inv, Holds, RefCounts
      <3>2. current[x] # Nobody => current[x] \in Callers /\ current[x] # c
        BY <1>4, <2>1 DEF Inv, TypeOK
      <3> QED
        BY <1>9, <1>11, <1>14, <2>1, <3>1, <3>2
    <2>2. CASE x = q /\ d > 1
      BY <1>1, <1>9, <1>11, <1>13, <1>14, <2>2
    <2>3. CASE x = q /\ d = 1
      BY <1>6, <1>9, <1>11, <1>14, <1>16, <2>3
    <2> QED
      BY <1>1, <2>1, <2>2, <2>3
  <1>19. ASSUME NEW x \in Queues, NEW i \in 1..Len(thread_queue'[x])
         PROVE /\ pc'[thread_queue'[x][i]] = "waiting" /\ cs[thread_queue'[x][i]][1] = x
               /\ current'[x] # Nobody /\ current'[x] # thread_queue'[x][i]
               /\ \A j \in 1..Len(thread_queue'[x]) :
                    thread_queue'[x][i] = thread_queue'[x][j] => i = j
    <2>1. \A y \in Queues : \A m \in 1..Len(thread_queue[y]) :
            /\ pc'[thread_queue[y][m]] = "waiting" /\ cs[thread_queue[y][m]][1] = y
            /\ current[y] # Nobody /\ current[y] # thread_queue[y][m]
            /\ \A j \in 1..Len(thread_queue[y]) : thread_queue[y][m] = thread_queue[y][j] => m = j
      BY <1>5, <1>9 DEF Inv, Holds, WaitersWait
    <2>2. CASE x # q
      <3>1. thread_queue'[x] = thread_queue[x] /\ current'[x] = current[x]
        BY <1>14, <2>2
      <3>2. i \in 1..Len(thread_queue[x])
        BY <3>1
      <3> QED
        BY <2>1, <3>1, <3>2
    <2>3. CASE x = q /\ d > 1
      <3>1. thread_queue'[x] = thread_queue[x] /\ current'[x] = current[x]
        BY <1>1, <1>13, <1>14, <2>3 DEF s
      <3>2. i \in 1..Len(thread_queue[x])
        BY <3>1
      <3> QED
        BY <2>1, <3>1, <3>2
    <2>4. CASE x = q /\ d = 1
      <3>1. /\ thread_queue'[x] = t /\ current'[x] = n /\ i \in 1..Len(t)
            /\ Len(s) > 0 /\ n = s[1] /\ Len(t) = Len(s) - 1
            /\ \A j \in 1..Len(t) : t[j] = s[j + 1]
        <4>1. thread_queue'[x] = t /\ current'[x] = n
          BY <1>14, <2>4
        <4>2. i \in 1..Len(t)
          BY <4>1
        <4> QED
          BY <1>13, <2>4, <4>1, <4>2
      <3>2. \A m \in 1..Len(s) : /\ pc'[s[m]] = "waiting" /\ cs[s[m]][1] = q /\ s[m] # Nobody
                                 /\ \A j \in 1..Len(s) : s[m] = s[j] => m = j
        BY <1>1, <1>5, <2>1 DEF s
      <3>3. \A j \in 1..Len(t) : j + 1 \in 1..Len(s) /\ j + 1 # 1
        BY <1>3, <3>1
      <3>4. 1 \in 1..Len(s)
        BY <1>3, <3>1
      <3>5. pc'[t[i]] = "waiting" /\ cs[t[i]][1] = x /\ n # Nobody
        BY <2>4, <3>1, <3>2, <3>3, <3>4
      <3>6. n # t[i]
        BY <3>1, <3>2, <3>3, <3>4
      <3>7. \A j \in 1..Len(t) : t[i] = t[j] => i = j
        <4> TAKE j \in 1..Len(t)
        <4>1. t[i] = s[i + 1] /\ t[j] = s[j + 1] /\ i + 1 \in 1..Len(s) /\ j + 1 \in 1..Len(s)
          BY <3>1, <3>3
        <4>2. s[i + 1] = s[j + 1] => i + 1 = j + 1
          BY <3>2, <4>1
        <4> QED
          BY <3>1, <4>1, <4>2
      <3> QED
        BY <3>1, <3>5, <3>6, <3>7
    <2> QED
      BY <1>1, <2>2, <2>3, <2>4
  <1>20. WaitersWait'
    BY <1>2, <1>19 DEF WaitersWait
  <1> QED
    BY <1>10, <1>15, <1>17, <1>18, <1>20 DEF Holds

-----------------------------------------------------------------------------
(* Every step keeps the invariant.                                         *)
LEMMA StepInv == Inv /\ [Next]_vars => Inv'
  <1> SUFFICES ASSUME Inv, [Next]_vars PROVE Inv'
    OBVIOUS
  <1>1. CASE Next
    <2>1. PICK c \in Callers : (\E k \in Keys : lock(c, k)) \/ resume(c) \/ procssLockRet(c)
      BY <1>1 DEF Next
    <2>2. ASSUME NEW k \in Keys, lock(c, k) PROVE Inv'
      BY <2>2, LockLocks, LockHolds DEF Inv
    <2>3. CASE resume(c)
      BY <2>3, ResumeInv
    <2>4. CASE procssLockRet(c)
      BY <2>4, RetLocks, RetHolds DEF Inv
    <2> QED
      BY <2>1, <2>2, <2>3, <2>4
  <1>2. CASE UNCHANGED vars
    BY <1>2 DEF vars, Inv, TypeOK, Locks, Counted, Entries, OneQueuePerKey,
                Holds, Phases, CurrentIsIn, RefCounts, WaitersWait
  <1> QED
    BY <1>1, <1>2

(* The inductive invariant holds of every reachable state.                 *)
THEOREM Invariant == Spec => []Inv
  <1> QED
    BY InitInv, StepInv, PTL DEF Spec

(* The tables, the queues and the callers keep their types; counter never  *)
(* goes below zero and no caller locks without leaving.                    *)
THEOREM TypeCorrect == Spec => []TypeOK
  <1>1. Inv => TypeOK
    BY DEF Inv
  <1> QED
    BY <1>1, Invariant, PTL

(* However many callers lock a key, at whatever depth, at most one of them *)
(* runs its function: they are in one queue, which lets one in.            *)
THEOREM Exclusion == Spec => []MutualExclusion
  <1>1. Inv => MutualExclusion
    <2> SUFFICES ASSUME Inv, NEW c1 \in Callers, NEW c2 \in Callers,
                        pc[c1] = "in", pc[c2] = "in", key[c1] = key[c2]
                 PROVE c1 = c2
      BY DEF MutualExclusion
    <2>1. depth[c1] > 0 /\ depth[c2] > 0
      BY DEF Inv, Holds, Phases, TypeOK
    <2>2. cs[c1][1] = cs[c2][1]
      BY <2>1, InsideQueue
    <2>3. current[cs[c1][1]] = c1 /\ current[cs[c2][1]] = c2
      BY DEF Inv, Holds, CurrentIsIn
    <2> QED
      BY <2>2, <2>3
  <1> QED
    BY <1>1, Invariant, PTL

(* A key has a queue exactly while somebody is inside it or waits, and all *)
(* of them are in that queue: it is never forgotten under a waiting caller *)
(* nor kept without one.                                                   *)
THEOREM OneQueue == Spec => []OneQueuePerKey
  <1>1. Inv => OneQueuePerKey
    BY DEF Inv, Locks
  <1> QED
    BY <1>1, Invariant, PTL

(* Types, exclusion and queues together: what the sections promise.        *)
THEOREM SectionsCorrect == Spec => []SectionsAreSound
  <1>1. TypeOK /\ MutualExclusion /\ OneQueuePerKey => SectionsAreSound
    BY DEF SectionsAreSound
  <1> QED
    BY <1>1, TypeCorrect, Exclusion, OneQueue, PTL
=============================================================================
