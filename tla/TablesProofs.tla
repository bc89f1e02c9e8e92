---------------------------- MODULE TablesProofs ----------------------------
(***************************************************************************)
(* Proofs about parts that keep a table between calls, for any values of   *)
(* their constants.  First each part by itself:                            *)
(*   CacheCorrect    Spec => []CacheIsSound             the LRU cache      *)
(*   Refinement      Spec => ImplementsLRU                                 *)
(*   ChainCorrect    LQ!Spec => []LQ!ChainIsSound       the linked queue   *)
(*   QueueRefines    LQ!Spec => LQ!ImplementsFIFO                          *)
(*   LinesCorrect    DL!Spec => []DL!LinesAreRight      the data logs      *)
(*   ValuesCorrect   AV!Spec => []AV!ValuesComeOnTime   the timed values   *)
(*   RecordsCorrect  RL!Spec => []RL!RecordsAreRight    the record lists   *)
(* then, by Parts, what Tables promises of all of them at once:            *)
(*   QueueCorrect    TBSpec => []ChainIsSound                              *)
(*   QueueIsFIFO     TBSpec => ImplementsFIFO                              *)
(*   LogsCorrect     TBSpec => []LinesAreRight                             *)
(*   ValueCorrect    TBSpec => []ValuesComeOnTime                          *)
(*   ListsCorrect    TBSpec => []RecordsAreRight                           *)
(***************************************************************************)
EXTENDS Tables, WellFoundedInduction, SequenceTheorems, FiniteSetTheorems,
        NaturalsInduction, TLAPS

AT == INSTANCE DelayTimerProofs WITH
        Variants <- {"inline"}, Periods <- {0}, MaxTime <- avMaxTime, now <- avNow

DLAssumption == DL!TimeAssumption /\ DL!nilAssumption
AVAssumption == AV!PeriodAssumption /\ AV!nilAssumption /\ AT!TimerAssumption
RLAssumption == RL!LimitAssumption /\ RL!IdAssumption /\ RL!nilAssumption

-----------------------------------------------------------------------------
(* LRUCache.  FromHead and FromTail, recursive functions, are walks along  *)
(* a link; a walk is known by its least wrong step.  The invariant names   *)
(* the nodes of the list, s[1], ..., s[count], so that what PushFront,     *)
(* Insert and Unlink do to the links are the lemmas ToFront, InFront and   *)
(* Leave about s.                                                          *)

(* Every set of naturals that is not empty has a least element.            *)
Smaller == {p \in Nat \X Nat : p[1] < p[2]}

LEMMA LeastOf ==
  ASSUME NEW S \in SUBSET Nat, S # {}
  PROVE  \E x \in S : \A y \in S : x <= y
  <1>1. IsWellFoundedOn(Smaller, Nat)
    BY NatLessThanWellFounded DEF OpToRel, Smaller
  <1>2. PICK x \in S : \A y \in S : ~ (<<y, x>> \in Smaller)
    BY <1>1, WFMin
  <1>3. x \in Nat /\ \A y \in S : y \in Nat /\ ~ (y < x)
    BY <1>2 DEF Smaller
  <1> QED
    BY <1>3

-----------------------------------------------------------------------------
(* FromHead and FromTail walk along links.                                 *)
Walk(first, link) == CHOOSE f : f = [i \in Nat |-> IF i = 0 THEN first ELSE link[f[i - 1]]]
Steps(first, link, n, g) == g = [i \in 0..n |-> IF i = 0 THEN first ELSE link[g[i - 1]]]

LEMMA StepsAgree ==
  ASSUME NEW first, NEW link, NEW m \in Nat, NEW n \in Nat, NEW g, NEW h,
         Steps(first, link, m, g), Steps(first, link, n, h)
  PROVE  \A i \in 0..m : i <= n => g[i] = h[i]
  <1> DEFINE Bad == {i \in 0..m : i <= n /\ g[i] # h[i]}
  <1> SUFFICES ASSUME Bad # {} PROVE FALSE
    OBVIOUS
  <1>0. Bad \in SUBSET Nat
    OBVIOUS
  <1>1. PICK i \in Bad : \A j \in Bad : i <= j
    BY <1>0, LeastOf
  <1>2. i \in 0..m /\ i \in 0..n /\ g[i] # h[i]
    OBVIOUS
  <1>3. g[i] = IF i = 0 THEN first ELSE link[g[i - 1]]
    BY <1>2 DEF Steps
  <1>4. h[i] = IF i = 0 THEN first ELSE link[h[i - 1]]
    BY <1>2 DEF Steps
  <1>5. i # 0 => i - 1 \in 0..m /\ i - 1 <= n /\ ~ (i <= i - 1)
    BY <1>2
  <1>6. i # 0 => g[i - 1] = h[i - 1]
    BY <1>1, <1>5
  <1> QED
    BY <1>2, <1>3, <1>4, <1>6

LEMMA StepsExist ==
  ASSUME NEW first, NEW link, NEW n \in Nat
  PROVE  \E g : Steps(first, link, n, g)
  <1> DEFINE Bad == {i \in Nat : ~ \E g : Steps(first, link, i, g)}
  <1> SUFFICES ASSUME Bad # {} PROVE FALSE
    OBVIOUS
  <1>1. PICK i \in Bad : \A j \in Bad : i <= j
    BY LeastOf
  <1>2. i # 0
    <2>1. Steps(first, link, 0, [j \in 0..0 |-> first])
      BY DEF Steps
    <2> QED
      BY <2>1
  <1>3. i - 1 \in Nat /\ ~ (i <= i - 1)
    BY <1>2
  <1>4. PICK g : Steps(first, link, i - 1, g)
    BY <1>1, <1>3
  <1> DEFINE h == [j \in 0..i |-> IF j = i THEN link[g[i - 1]] ELSE g[j]]
  <1>5. Steps(first, link, i, h)
    <2>1. \A j \in 0..i - 1 : g[j] = IF j = 0 THEN first ELSE link[g[j - 1]]
      BY <1>4 DEF Steps
    <2>2. \A j \in 0..i : h[j] = IF j = 0 THEN first ELSE link[h[j - 1]]
      <3> SUFFICES ASSUME NEW j \in 0..i PROVE h[j] = IF j = 0 THEN first ELSE link[h[j - 1]]
        OBVIOUS
      <3>1. CASE j = i
        <4>1. i - 1 \in 0..i /\ i - 1 # i
          BY <1>2
        <4> QED
          BY <1>2, <3>1, <4>1
      <3>2. CASE j # i /\ j # 0
        <4>1. j \in 0..i - 1 /\ j - 1 \in 0..i /\ j - 1 # i
          BY <3>2
        <4> QED
          BY <2>1, <3>2, <4>1
      <3>3. CASE j # i /\ j = 0
        <4>1. j \in 0..i - 1
          BY <3>3
        <4> QED
          BY <2>1, <3>3, <4>1
      <3> QED
        BY <3>1, <3>2, <3>3
    <2> HIDE DEF h
    <2>3. h = [j \in 0..i |-> h[j]]
      BY DEF h
    <2>4. [j \in 0..i |-> h[j]] = [j \in 0..i |-> IF j = 0 THEN first ELSE link[h[j - 1]]]
      BY <2>2
    <2> QED
      BY <2>3, <2>4 DEF Steps
  <1> QED
    BY <1>5

LEMMA WalkIs ==
  ASSUME NEW first, NEW link
  PROVE  /\ Walk(first, link)[0] = first
         /\ \A n \in Nat : Walk(first, link)[n + 1] = link[Walk(first, link)[n]]
  <1> DEFINE G(n) == CHOOSE g : Steps(first, link, n, g)
  <1> DEFINE f == [n \in Nat |-> G(n)[n]]
  <1>1. \A n \in Nat : Steps(first, link, n, G(n))
    BY StepsExist
  <1> HIDE DEF G
  <1>2. \A n \in Nat : f[n] = IF n = 0 THEN first ELSE link[f[n - 1]]
    <2> SUFFICES ASSUME NEW n \in Nat PROVE f[n] = IF n = 0 THEN first ELSE link[f[n - 1]]
      OBVIOUS
    <2>1. n \in 0..n /\ G(n) = [i \in 0..n |-> IF i = 0 THEN first ELSE link[G(n)[i - 1]]]
      BY <1>1 DEF Steps
    <2>2. f[n] = IF n = 0 THEN first ELSE link[G(n)[n - 1]]
      BY <2>1
    <2>3. n # 0 => n - 1 \in Nat /\ n - 1 \in 0..n - 1 /\ n - 1 <= n
      OBVIOUS
    <2>4. n # 0 => G(n - 1)[n - 1] = G(n)[n - 1]
      BY <1>1, <2>3, StepsAgree
    <2>5. n # 0 => f[n - 1] = G(n - 1)[n - 1]
      BY <2>3
    <2> HIDE DEF f
    <2> QED
      BY <2>2, <2>4, <2>5
  <1>3. f = [n \in Nat |-> IF n = 0 THEN first ELSE link[f[n - 1]]]
    <2>1. [n \in Nat |-> f[n]] = [n \in Nat |-> IF n = 0 THEN first ELSE link[f[n - 1]]]
      <3> HIDE DEF f
      <3> QED
        BY <1>2
    <2>2. f = [n \in Nat |-> f[n]]
      OBVIOUS
    <2> QED
      BY <2>1, <2>2
  <1> HIDE DEF f
  <1> DEFINE w == Walk(first, link)
  <1>4. w = [n \in Nat |-> IF n = 0 THEN first ELSE link[w[n - 1]]]
    BY <1>3 DEF Walk
  <1> HIDE DEF w
  <1>5. w[0] = first
    BY <1>4
  <1>6. \A n \in Nat : n + 1 \in Nat /\ n + 1 # 0 /\ (n + 1) - 1 = n
    OBVIOUS
  <1>7. ASSUME NEW n \in Nat PROVE w[n + 1] = link[w[n]]
    <2>1. w[n + 1] = IF n + 1 = 0 THEN first ELSE link[w[(n + 1) - 1]]
      BY <1>4, <1>6
    <2> QED
      BY <1>6, <2>1
  <1> QED
    BY <1>5, <1>7 DEF w

LEMMA FromHeadIs == FromHead = Walk(cacheHead, nextNode)
  BY DEF FromHead, Walk

LEMMA FromTailIs == FromTail = Walk(cacheTail, preNode)
  BY DEF FromTail, Walk

-----------------------------------------------------------------------------
(* The nodes s[1], ..., s[c] are linked in both directions.                *)
ListOf(s, front, tail, pre, nxt, c) ==
  /\ c \in Nat /\ s \in [1..c -> Nodes]
  /\ pre \in [Nodes -> Nodes \cup {nil}] /\ nxt \in [Nodes -> Nodes \cup {nil}]
  /\ \A i, j \in 1..c : s[i] = s[j] => i = j
  /\ c = 0 => front = nil /\ tail = nil
  /\ c > 0 => front = s[1] /\ tail = s[c]
  /\ \A i \in 1..c : /\ pre[s[i]] = IF i = 1 THEN nil ELSE s[i - 1]
                     /\ nxt[s[i]] = IF i = c THEN nil ELSE s[i + 1]

Elements(s, c) == {s[i] : i \in 1..c}

(* The list, of the nodes L, is u, or some list.                           *)
LinkedAs(u, L, front, tail, pre, nxt, c) ==
  ListOf(u, front, tail, pre, nxt, c) /\ Elements(u, c) = L
Linked(L, front, tail, pre, nxt, c) == \E u : LinkedAs(u, L, front, tail, pre, nxt, c)

LEMMA WalkForth ==
  ASSUME NEW s, NEW front, NEW tail, NEW pre, NEW nxt, NEW c, ListOf(s, front, tail, pre, nxt, c)
  PROVE  /\ \A i \in 0..c - 1 : Walk(front, nxt)[i] = s[i + 1]
         /\ Walk(front, nxt)[c] = nil
  <1> DEFINE w == Walk(front, nxt)
  <1> DEFINE Bad == {i \in 0..c - 1 : w[i] # s[i + 1]}
  <1>1. w[0] = front /\ \A n \in Nat : w[n + 1] = nxt[w[n]]
    BY WalkIs
  <1>2. c \in Nat
    BY DEF ListOf
  <1> HIDE DEF w
  <1>3. ASSUME Bad # {} PROVE FALSE
    <2>0. Bad \in SUBSET Nat
      BY <1>2
    <2>1. PICK i \in Bad : \A j \in Bad : i <= j
      BY <1>3, <2>0, LeastOf
    <2>2. i \in 0..c - 1 /\ w[i] # s[i + 1]
      OBVIOUS
    <2>3. i # 0
      <3>1. c > 0 => front = s[1]
        BY DEF ListOf
      <3> QED
        BY <1>1, <1>2, <2>2, <3>1
    <2>4. i - 1 \in 0..c - 1 /\ i - 1 \in Nat /\ (i - 1) + 1 = i /\ i \in 1..c /\ ~ (i <= i - 1) /\ i # c
      BY <1>2, <2>2, <2>3
    <2>5. w[i - 1] = s[i]
      BY <2>1, <2>4
    <2>6. w[i] = nxt[s[i]]
      BY <1>1, <2>4, <2>5
    <2> QED
      BY <2>2, <2>4, <2>6 DEF ListOf
  <1>4. \A i \in 0..c - 1 : w[i] = s[i + 1]
    BY <1>3
  <1>5. w[c] = nil
    <2>1. CASE c = 0
      BY <1>1, <2>1 DEF ListOf
    <2>2. CASE c # 0
      <3>1. c - 1 \in 0..c - 1 /\ c - 1 \in Nat /\ (c - 1) + 1 = c /\ c \in 1..c
        BY <1>2, <2>2
      <3>2. w[c] = nxt[s[c]]
        BY <1>1, <1>4, <3>1
      <3> QED
        BY <3>1, <3>2 DEF ListOf
    <2> QED
      BY <2>1, <2>2
  <1> QED
    BY <1>4, <1>5 DEF w

LEMMA WalkBack ==
  ASSUME NEW s, NEW front, NEW tail, NEW pre, NEW nxt, NEW c, ListOf(s, front, tail, pre, nxt, c)
  PROVE  \A i \in 0..c - 1 : Walk(tail, pre)[i] = s[c - i]
  <1> DEFINE w == Walk(tail, pre)
  <1> DEFINE Bad == {i \in 0..c - 1 : w[i] # s[c - i]}
  <1>1. w[0] = tail /\ \A n \in Nat : w[n + 1] = pre[w[n]]
    BY WalkIs
  <1>2. c \in Nat
    BY DEF ListOf
  <1> HIDE DEF w
  <1>3. ASSUME Bad # {} PROVE FALSE
    <2>0. Bad \in SUBSET Nat
      BY <1>2
    <2>1. PICK i \in Bad : \A j \in Bad : i <= j
      BY <1>3, <2>0, LeastOf
    <2>2. i \in 0..c - 1 /\ w[i] # s[c - i]
      OBVIOUS
    <2>3. i # 0
      <3>1. c > 0 => tail = s[c]
        BY DEF ListOf
      <3> QED
        BY <1>1, <1>2, <2>2, <3>1
    <2>4. /\ i - 1 \in 0..c - 1 /\ i - 1 \in Nat /\ (i - 1) + 1 = i /\ ~ (i <= i - 1)
          /\ c - (i - 1) \in 1..c /\ c - (i - 1) # 1 /\ (c - (i - 1)) - 1 = c - i
      BY <1>2, <2>2, <2>3
    <2>5. w[i - 1] = s[c - (i - 1)]
      BY <2>1, <2>4
    <2>6. w[i] = pre[s[c - (i - 1)]]
      BY <1>1, <2>4, <2>5
    <2> QED
      BY <2>2, <2>4, <2>6 DEF ListOf
  <1> QED
    BY <1>3 DEF w

(* What PushFront, Insert and Unlink make of the links.                    *)
Pushed(n, front, tail, pre, nxt, tail2, pre2, next2) ==
  /\ tail2 = IF n = tail THEN pre[n] ELSE tail
  /\ pre2 \in [Nodes -> Nodes \cup {nil}] /\ next2 \in [Nodes -> Nodes \cup {nil}]
  /\ \A m \in Nodes : pre2[m] = IF m = n THEN nil
                                ELSE IF m = front THEN n
                                ELSE IF m = nxt[n] THEN pre[n] ELSE pre[m]
  /\ \A m \in Nodes : next2[m] = IF m = n THEN front ELSE IF m = pre[n] THEN nxt[n] ELSE nxt[m]
Put(n, front, back, pre, nxt, pre2, next2) ==
  /\ pre2 \in [Nodes -> Nodes \cup {nil}] /\ next2 \in [Nodes -> Nodes \cup {nil}]
  /\ \A m \in Nodes : pre2[m] = IF m = front THEN n ELSE pre[m]
  /\ \A m \in Nodes : next2[m] = IF m = n THEN front ELSE IF m = back THEN nil ELSE nxt[m]
Left(n, front, tail, pre, nxt, head2, tail2, pre2, next2) ==
  /\ head2 = IF n = front THEN nxt[n] ELSE front
  /\ tail2 = IF n = tail THEN pre[n] ELSE tail
  /\ pre2 \in [Nodes -> Nodes \cup {nil}] /\ next2 \in [Nodes -> Nodes \cup {nil}]
  /\ \A m \in Nodes : pre2[m] = IF m = nxt[n] THEN pre[n] ELSE pre[m]
  /\ \A m \in Nodes : next2[m] = IF m = pre[n] THEN nxt[n] ELSE nxt[m]

(* The lists with the p-th node first, with a new one before the first d,  *)
(* and without the p-th.                                                   *)
Front(s, p, c) ==
  [i \in 1..c |-> IF i = 1 THEN s[p] ELSE IF i <= p THEN s[i - 1] ELSE s[i]]
Before(n, s, d) == [i \in 1..d + 1 |-> IF i = 1 THEN n ELSE s[i - 1]]
Less(s, p, c) == [i \in 1..c - 1 |-> IF i < p THEN s[i] ELSE s[i + 1]]

(* The p-th node comes to the front.                                       *)
LEMMA ToFront ==
  ASSUME NEW s, NEW front, NEW tail, NEW pre, NEW nxt, NEW c, ListOf(s, front, tail, pre, nxt, c),
         nil \notin Nodes, NEW p \in 1..c, p # 1, NEW n, n = s[p],
         NEW tail2, NEW pre2, NEW next2,
         Pushed(n, front, tail, pre, nxt, tail2, pre2, next2)
  PROVE  LinkedAs(Front(s, p, c), Elements(s, c), n, tail2, pre2, next2, c)
  <1> DEFINE u == Front(s, p, c)
  <1>1. /\ c \in Nat /\ c > 0 /\ p - 1 \in 1..c /\ 1 \in 1..c /\ c \in 1..c
        /\ s \in [1..c -> Nodes] /\ pre \in [Nodes -> Nodes \cup {nil}] /\ nxt \in [Nodes -> Nodes \cup {nil}]
        /\ \A i, j \in 1..c : s[i] = s[j] => i = j
        /\ front = s[1] /\ tail = s[c]
        /\ \A i \in 1..c : /\ pre[s[i]] = IF i = 1 THEN nil ELSE s[i - 1]
                           /\ nxt[s[i]] = IF i = c THEN nil ELSE s[i + 1]
    BY DEF ListOf
  <1>2. /\ n \in Nodes /\ pre[n] = s[p - 1] /\ nxt[n] = IF p = c THEN nil ELSE s[p + 1]
        /\ front \in Nodes /\ front # n /\ pre[n] # n
    BY <1>1
  <1>0. /\ tail2 = IF n = tail THEN pre[n] ELSE tail
        /\ pre2 \in [Nodes -> Nodes \cup {nil}] /\ next2 \in [Nodes -> Nodes \cup {nil}]
    BY DEF Pushed
  <1>3. u \in [1..c -> Nodes] /\ pre2 \in [Nodes -> Nodes \cup {nil}] /\ next2 \in [Nodes -> Nodes \cup {nil}]
    <2>1. \A i \in 1..c : i # 1 => i - 1 \in 1..c
      BY <1>1
    <2> QED
      BY <1>0, <1>1, <1>2, <2>1 DEF Front
  <1>4. \A i \in 1..c : u[i] = IF i = 1 THEN n ELSE IF i <= p THEN s[i - 1] ELSE s[i]
    BY DEF Front
  <1>5. /\ \A m \in Nodes : pre2[m] = IF m = n THEN nil
                                     ELSE IF m = front THEN n
                                     ELSE IF m = nxt[n] THEN pre[n] ELSE pre[m]
        /\ \A m \in Nodes : next2[m] = IF m = n THEN front ELSE IF m = pre[n] THEN nxt[n] ELSE nxt[m]
    BY DEF Pushed
  <1> HIDE DEF u
  <1>6. \A i, j \in 1..c : u[i] = u[j] => i = j
    <2> SUFFICES ASSUME NEW i \in 1..c, NEW j \in 1..c, i < j PROVE u[i] # u[j]
      BY <1>1
    <2>1. u[j] = IF j <= p THEN s[j - 1] ELSE s[j]
      BY <1>1, <1>4
    <2>2. CASE i = 1
      <3>1. j <= p => j - 1 \in 1..c /\ j - 1 # p
        BY <1>1, <2>2
      <3> QED
        BY <1>1, <1>4, <2>1, <2>2, <3>1
    <2>3. CASE i # 1
      <3>1. /\ i - 1 \in 1..c /\ i - 1 # j /\ i - 1 # j - 1 /\ j - 1 \in 1..c
            /\ i # j /\ (j <= p => i <= p) /\ (i = j - 1 /\ i <= p => j <= p + 1)
        BY <1>1, <2>3
      <3>2. u[i] = IF i <= p THEN s[i - 1] ELSE s[i]
        BY <1>4, <2>3
      <3> QED
        BY <1>1, <2>1, <3>1, <3>2
    <2> QED
      BY <2>2, <2>3
  <1>7. u[1] = n /\ u[c] = tail2
    <2>1. tail2 = IF p = c THEN s[p - 1] ELSE s[c]
      BY <1>0, <1>1, <1>2
    <2>2. p = c => p - 1 = c - 1 /\ c <= p /\ c # 1
      BY <1>1
    <2>3. p # c => ~ (c <= p) /\ c # 1
      BY <1>1
    <2> QED
      BY <1>1, <1>4, <2>1, <2>2, <2>3
  <1>8. ASSUME NEW i \in 1..c
        PROVE  /\ pre2[u[i]] = IF i = 1 THEN nil ELSE u[i - 1]
               /\ next2[u[i]] = IF i = c THEN nil ELSE u[i + 1]
    <2>1. CASE i = 1
      <3>1. u[i] = n /\ u[2] = front /\ c # 1 /\ 2 \in 1..c /\ i + 1 = 2
        BY <1>1, <1>4, <2>1
      <3> QED
        BY <1>2, <1>5, <2>1, <3>1
    <2>2. CASE i # 1 /\ i < p
      <3>1. /\ u[i] = s[i - 1] /\ i - 1 \in 1..c /\ i + 1 \in 1..c /\ u[i + 1] = s[i]
            /\ i - 1 # p /\ i - 1 # p - 1 /\ i - 1 # p + 1 /\ i # c
        BY <1>1, <1>4, <2>2
      <3>2. u[i] # n /\ u[i] # pre[n] /\ u[i] # nxt[n] /\ u[i] \in Nodes
        BY <1>1, <1>2, <3>1
      <3>3. next2[u[i]] = s[i]
        BY <1>1, <1>5, <3>1, <3>2
      <3>4. u[i - 1] = IF i = 2 THEN n ELSE s[i - 2]
        BY <1>1, <1>4, <2>2, <3>1
      <3>5. pre2[u[i]] = IF i = 2 THEN n ELSE s[i - 2]
        <4>1. CASE i = 2
          BY <1>1, <1>2, <1>5, <3>1, <3>2, <4>1
        <4>2. CASE i # 2
          <5>1. i - 1 # 1 /\ (i - 1) - 1 = i - 2
            BY <4>2
          <5>2. pre[u[i]] = s[i - 2] /\ u[i] # front
            BY <1>1, <3>1, <5>1
          <5> QED
            BY <1>5, <3>2, <4>2, <5>2
        <4> QED
          BY <4>1, <4>2
      <3> QED
        BY <2>2, <3>1, <3>3, <3>4, <3>5
    <2>3. CASE i # 1 /\ i = p
      <3>1. /\ u[i] = s[p - 1] /\ p - 1 # p /\ u[i] = pre[n] /\ u[i] # n /\ u[i] \in Nodes
            /\ (p # c => p + 1 \in 1..c /\ u[p + 1] = s[p + 1] /\ p - 1 # p + 1)
        BY <1>1, <1>2, <1>4, <2>3
      <3>2. next2[u[i]] = nxt[n]
        BY <1>5, <3>1
      <3>3. u[i] # nxt[n]
        BY <1>1, <1>2, <3>1
      <3>4. pre2[u[i]] = IF i = 2 THEN n ELSE s[p - 2]
        <4>1. CASE i = 2
          BY <1>1, <1>2, <1>5, <2>3, <3>1, <4>1
        <4>2. CASE i # 2
          <5>1. p - 1 # 1 /\ (p - 1) - 1 = p - 2
            BY <2>3, <4>2
          <5>2. pre[u[i]] = s[p - 2] /\ u[i] # front
            BY <1>1, <3>1, <5>1
          <5> QED
            BY <1>5, <3>1, <3>3, <4>2, <5>2
        <4> QED
          BY <4>1, <4>2
      <3>5. u[i - 1] = IF i = 2 THEN n ELSE s[p - 2]
        BY <1>1, <1>4, <2>3
      <3> QED
        BY <1>2, <2>3, <3>1, <3>2, <3>4, <3>5
    <2>4. CASE i # 1 /\ i > p
      <3>1. u[i] = s[i] /\ i # p /\ i # p - 1 /\ u[i] # n /\ u[i] # pre[n] /\ u[i] \in Nodes /\ u[i] # front
        BY <1>1, <1>2, <1>4, <2>4
      <3>2. next2[u[i]] = IF i = c THEN nil ELSE s[i + 1]
        BY <1>1, <1>5, <3>1
      <3>3. i # c => i + 1 \in 1..c /\ u[i + 1] = s[i + 1]
        BY <1>1, <1>4, <2>4
      <3>4. i - 1 \in 1..c /\ u[i - 1] = IF i = p + 1 THEN s[p - 1] ELSE s[i - 1]
        BY <1>1, <1>4, <2>4
      <3>5. pre2[u[i]] = IF i = p + 1 THEN pre[n] ELSE s[i - 1]
        <4>1. CASE i = p + 1
          BY <1>1, <1>2, <1>5, <3>1, <4>1
        <4>2. CASE i # p + 1
          <5>1. u[i] # nxt[n] /\ pre[u[i]] = s[i - 1]
            BY <1>1, <1>2, <2>4, <3>1, <4>2
          <5> QED
            BY <1>5, <3>1, <4>2, <5>1
        <4> QED
          BY <4>1, <4>2
      <3> QED
        BY <1>2, <2>4, <3>2, <3>3, <3>4, <3>5
    <2> QED
      BY <1>1, <2>1, <2>2, <2>3, <2>4
  <1>9. ListOf(u, n, tail2, pre2, next2, c)
    BY <1>1, <1>3, <1>6, <1>7, <1>8 DEF ListOf
  <1>10. Elements(u, c) = Elements(s, c)
    <2>1. \A i \in 1..c : \E j \in 1..c : u[i] = s[j]
      <3>1. \A i \in 1..c : i # 1 => i - 1 \in 1..c
        BY <1>1
      <3> QED
        BY <1>4, <3>1
    <2>2. \A j \in 1..c : \E i \in 1..c : u[i] = s[j]
      <3> SUFFICES ASSUME NEW j \in 1..c PROVE \E i \in 1..c : u[i] = s[j]
        OBVIOUS
      <3>1. CASE j < p
        <4>1. j + 1 \in 1..c /\ u[j + 1] = s[j]
          BY <1>1, <1>4, <3>1
        <4> QED
          BY <4>1
      <3>2. CASE j = p
        BY <1>1, <1>4, <3>2
      <3>3. CASE j > p
        <4>1. j # 1 /\ ~ (j <= p)
          BY <1>1, <3>3
        <4>2. u[j] = s[j]
          BY <1>4, <4>1
        <4> QED
          BY <4>2
      <3> QED
        BY <1>1, <3>1, <3>2, <3>3
    <2>3. \A i \in 1..c : u[i] \in Elements(s, c)
      BY <2>1 DEF Elements
    <2>4. \A j \in 1..c : s[j] \in Elements(u, c)
      BY <2>2 DEF Elements
    <2> QED
      BY <2>3, <2>4 DEF Elements
  <1> QED
    BY <1>9, <1>10 DEF u, LinkedAs

(* A new node in front, and the last e nodes cut off.                      *)
LEMMA InFront ==
  ASSUME NEW s, NEW front, NEW tail, NEW pre, NEW nxt, NEW c, ListOf(s, front, tail, pre, nxt, c),
         nil \notin Nodes, NEW e \in 0..c, e # c,
         NEW n \in Nodes, n \notin Elements(s, c), pre[n] = nil,
         NEW back, back = s[c - e], NEW pre2, NEW next2,
         Put(n, front, back, pre, nxt, pre2, next2)
  PROVE  LinkedAs(Before(n, s, c - e), Elements(s, c - e) \cup {n}, n, back, pre2, next2, c - e + 1)
  <1> DEFINE d == c - e
  <1> DEFINE u == Before(n, s, d)
  <1>1. /\ c \in Nat /\ d \in Nat /\ d > 0 /\ d \in 1..c /\ 1 \in 1..c /\ d <= c
        /\ s \in [1..c -> Nodes] /\ pre \in [Nodes -> Nodes \cup {nil}] /\ nxt \in [Nodes -> Nodes \cup {nil}]
        /\ \A i, j \in 1..c : s[i] = s[j] => i = j
        /\ front = s[1] /\ back = s[d]
        /\ \A i \in 1..c : /\ pre[s[i]] = IF i = 1 THEN nil ELSE s[i - 1]
                           /\ nxt[s[i]] = IF i = c THEN nil ELSE s[i + 1]
    BY DEF ListOf
  <1> HIDE DEF d
  <1>2. front \in Nodes /\ back \in Nodes /\ \A i \in 1..c : s[i] # n /\ s[i] \in Nodes
    BY <1>1 DEF Elements
  <1>0. pre2 \in [Nodes -> Nodes \cup {nil}] /\ next2 \in [Nodes -> Nodes \cup {nil}]
    BY DEF Put
  <1>3. u \in [1..d + 1 -> Nodes] /\ pre2 \in [Nodes -> Nodes \cup {nil}] /\ next2 \in [Nodes -> Nodes \cup {nil}]
    <2>1. \A i \in 1..d + 1 : i # 1 => i - 1 \in 1..c
      BY <1>1
    <2> QED
      BY <1>0, <1>1, <1>2, <2>1 DEF Before
  <1>4. \A i \in 1..d + 1 : u[i] = IF i = 1 THEN n ELSE s[i - 1]
    BY DEF Before
  <1>5. /\ \A m \in Nodes : pre2[m] = IF m = front THEN n ELSE pre[m]
        /\ \A m \in Nodes : next2[m] = IF m = n THEN front ELSE IF m = back THEN nil ELSE nxt[m]
    BY DEF Put
  <1> HIDE DEF u
  <1>6. \A i, j \in 1..d + 1 : u[i] = u[j] => i = j
    <2> SUFFICES ASSUME NEW i \in 1..d + 1, NEW j \in 1..d + 1, u[i] = u[j] PROVE i = j
      OBVIOUS
    <2>1. (i # 1 => i - 1 \in 1..c) /\ (j # 1 => j - 1 \in 1..c)
      BY <1>1
    <2>2. u[i] = (IF i = 1 THEN n ELSE s[i - 1]) /\ u[j] = IF j = 1 THEN n ELSE s[j - 1]
      BY <1>4
    <2>3. CASE i = 1 \/ j = 1
      BY <1>2, <2>1, <2>2, <2>3
    <2>4. CASE i # 1 /\ j # 1
      <3>0. s[i - 1] = s[j - 1] /\ i - 1 \in 1..c /\ j - 1 \in 1..c
        BY <2>1, <2>2, <2>4
      <3>1. i - 1 = j - 1
        BY <1>1, <3>0
      <3> QED
        BY <3>1
    <2> QED
      BY <2>3, <2>4
  <1>7. u[1] = n /\ u[d + 1] = back
    <2>1. 1 \in 1..d + 1 /\ d + 1 \in 1..d + 1 /\ d + 1 # 1 /\ (d + 1) - 1 = d
      BY <1>1
    <2> QED
      BY <1>1, <1>4, <2>1
  <1>8. ASSUME NEW i \in 1..d + 1
        PROVE  /\ pre2[u[i]] = IF i = 1 THEN nil ELSE u[i - 1]
               /\ next2[u[i]] = IF i = d + 1 THEN nil ELSE u[i + 1]
    <2>1. CASE i = 1
      <3>1. u[i] = n /\ i + 1 \in 1..d + 1 /\ i + 1 # 1 /\ (i + 1) - 1 = 1 /\ i # d + 1
        BY <1>1, <1>4, <2>1
      <3>2. u[i + 1] = front
        BY <1>1, <1>4, <3>1
      <3>3. n # front
        BY <1>1, <1>2
      <3> QED
        BY <1>5, <2>1, <3>1, <3>2, <3>3
    <2>2. CASE i # 1
      <3> DEFINE k == i - 1
      <3>1. k \in 1..c /\ k \in 1..d /\ i = k + 1 /\ (k = d <=> i = d + 1) /\ k \in Nat
        BY <1>1, <2>2
      <3> HIDE DEF k
      <3>2. u[i] = s[k] /\ u[i] \in Nodes /\ u[i] # n
        BY <1>2, <1>4, <2>2, <3>1 DEF k
      <3>3. u[i] = back <=> k = d
        BY <1>1, <3>1, <3>2
      <3>4. u[i] = front <=> k = 1
        BY <1>1, <3>1, <3>2
      <3>5. next2[u[i]] = IF i = d + 1 THEN nil ELSE u[i + 1]
        <4>1. CASE k = d
          BY <1>5, <3>1, <3>2, <3>3, <4>1
        <4>2. CASE k # d
          <5>1. k # c /\ i + 1 \in 1..d + 1 /\ i + 1 # 1 /\ (i + 1) - 1 = k + 1
            BY <1>1, <3>1, <4>2
          <5>2. next2[u[i]] = s[k + 1]
            BY <1>1, <1>5, <3>1, <3>2, <3>3, <4>2, <5>1
          <5>3. u[i + 1] = s[k + 1]
            BY <1>4, <5>1
          <5> QED
            BY <3>1, <4>2, <5>2, <5>3
        <4> QED
          BY <4>1, <4>2
      <3>6. pre2[u[i]] = u[k]
        <4>1. CASE k = 1
          BY <1>5, <1>7, <3>2, <3>4, <4>1
        <4>2. CASE k # 1
          <5>1. k \in 1..d + 1 /\ pre[s[k]] = s[k - 1]
            BY <1>1, <3>1, <4>2
          <5>2. u[k] = s[k - 1]
            BY <1>4, <4>2, <5>1
          <5> QED
            BY <1>5, <3>2, <3>4, <4>2, <5>1, <5>2
        <4> QED
          BY <4>1, <4>2
      <3> QED
        BY <2>2, <3>5, <3>6 DEF k
    <2> QED
      BY <2>1, <2>2
  <1>9. ListOf(u, n, back, pre2, next2, d + 1)
    <2>1. d + 1 \in Nat /\ d + 1 > 0 /\ d + 1 # 0
      BY <1>1
    <2> QED
      BY <1>3, <1>6, <1>7, <1>8, <2>1 DEF ListOf
  <1>10. Elements(u, d + 1) = Elements(s, d) \cup {n}
    <2>1. ASSUME NEW i \in 1..d + 1 PROVE u[i] \in Elements(s, d) \cup {n}
      <3>1. i # 1 => i - 1 \in 1..d
        BY <1>1
      <3> QED
        BY <1>4, <3>1 DEF Elements
    <2>2. ASSUME NEW j \in 1..d PROVE \E i \in 1..d + 1 : u[i] = s[j]
      <3>1. j + 1 \in 1..d + 1 /\ j + 1 # 1 /\ (j + 1) - 1 = j
        BY <1>1
      <3>2. u[j + 1] = s[j]
        BY <1>4, <3>1
      <3> QED
        BY <3>1, <3>2
    <2>3. \E i \in 1..d + 1 : u[i] = n
      <3>1. 1 \in 1..d + 1
        BY <1>1
      <3> QED
        BY <1>7, <3>1
    <2> QED
      BY <2>1, <2>2, <2>3 DEF Elements
  <1> QED
    BY <1>9, <1>10 DEF d, u, LinkedAs

(* The p-th node leaves.                                                   *)
LEMMA Leave ==
  ASSUME NEW s, NEW front, NEW tail, NEW pre, NEW nxt, NEW c, ListOf(s, front, tail, pre, nxt, c),
         nil \notin Nodes, NEW p \in 1..c, NEW n, n = s[p],
         NEW head2, NEW tail2, NEW pre2, NEW next2,
         Left(n, front, tail, pre, nxt, head2, tail2, pre2, next2)
  PROVE  LinkedAs(Less(s, p, c), Elements(s, c) \ {n}, head2, tail2, pre2, next2, c - 1)
  <1> DEFINE u == Less(s, p, c)
  <1>1. /\ c \in Nat /\ c > 0 /\ 1 \in 1..c /\ c \in 1..c /\ c - 1 \in Nat
        /\ s \in [1..c -> Nodes] /\ pre \in [Nodes -> Nodes \cup {nil}] /\ nxt \in [Nodes -> Nodes \cup {nil}]
        /\ \A i, j \in 1..c : s[i] = s[j] => i = j
        /\ front = s[1] /\ tail = s[c]
        /\ \A i \in 1..c : /\ pre[s[i]] = IF i = 1 THEN nil ELSE s[i - 1]
                           /\ nxt[s[i]] = IF i = c THEN nil ELSE s[i + 1]
    BY DEF ListOf
  <1>2. /\ n \in Nodes /\ pre[n] = (IF p = 1 THEN nil ELSE s[p - 1])
        /\ nxt[n] = IF p = c THEN nil ELSE s[p + 1]
    BY <1>1
  <1>0. /\ head2 = IF n = front THEN nxt[n] ELSE front
        /\ tail2 = IF n = tail THEN pre[n] ELSE tail
        /\ pre2 \in [Nodes -> Nodes \cup {nil}] /\ next2 \in [Nodes -> Nodes \cup {nil}]
    BY DEF Left
  <1>3. u \in [1..c - 1 -> Nodes] /\ pre2 \in [Nodes -> Nodes \cup {nil}] /\ next2 \in [Nodes -> Nodes \cup {nil}]
    <2>1. \A i \in 1..c - 1 : i \in 1..c /\ i + 1 \in 1..c
      BY <1>1
    <2> QED
      BY <1>0, <1>1, <2>1 DEF Less
  <1>4. \A i \in 1..c - 1 : u[i] = IF i < p THEN s[i] ELSE s[i + 1]
    BY DEF Less
  <1>5. /\ \A m \in Nodes : pre2[m] = IF m = nxt[n] THEN pre[n] ELSE pre[m]
        /\ \A m \in Nodes : next2[m] = IF m = pre[n] THEN nxt[n] ELSE nxt[m]
    BY DEF Left
  <1> HIDE DEF u
  <1>6. \A i, j \in 1..c - 1 : u[i] = u[j] => i = j
    <2> SUFFICES ASSUME NEW i \in 1..c - 1, NEW j \in 1..c - 1, i < j PROVE u[i] # u[j]
      BY <1>1
    <2>1. i \in 1..c /\ i + 1 \in 1..c /\ j \in 1..c /\ j + 1 \in 1..c /\ i # j /\ i + 1 # j + 1 /\ i # j + 1
          /\ (j < p => i < p)
      BY <1>1
    <2>2. u[i] = (IF i < p THEN s[i] ELSE s[i + 1]) /\ u[j] = IF j < p THEN s[j] ELSE s[j + 1]
      BY <1>4
    <2> QED
      BY <1>1, <2>1, <2>2
  <1>7. /\ c - 1 = 0 => head2 = nil /\ tail2 = nil
        /\ c - 1 > 0 => head2 = u[1] /\ tail2 = u[c - 1]
    <2>1. head2 = IF p = 1 THEN nxt[n] ELSE front
      BY <1>0, <1>1
    <2>2. tail2 = IF p = c THEN pre[n] ELSE tail
      BY <1>0, <1>1
    <2>3. CASE c - 1 = 0
      <3>1. p = 1 /\ p = c
        BY <1>1, <2>3
      <3> QED
        BY <1>2, <2>1, <2>2, <2>3, <3>1
    <2>4. CASE c - 1 > 0
      <3>1. /\ 1 \in 1..c - 1 /\ c - 1 \in 1..c - 1 /\ (p = 1 => ~ (1 < p) /\ p # c /\ p + 1 = 2)
            /\ (p # 1 => 1 < p) /\ 1 + 1 = 2 /\ (p = c => c - 1 < p /\ p # 1 /\ p - 1 = c - 1)
            /\ (p # c => ~ (c - 1 < p) /\ (c - 1) + 1 = c)
        BY <1>1, <2>4
      <3>2. head2 = u[1]
        BY <1>1, <1>2, <1>4, <2>1, <3>1
      <3>3. tail2 = u[c - 1]
        BY <1>1, <1>2, <1>4, <2>2, <3>1
      <3> QED
        BY <2>4, <3>2, <3>3
    <2> QED
      BY <1>1, <2>3, <2>4
  <1>8. ASSUME NEW i \in 1..c - 1
        PROVE  /\ pre2[u[i]] = IF i = 1 THEN nil ELSE u[i - 1]
               /\ next2[u[i]] = IF i = c - 1 THEN nil ELSE u[i + 1]
    <2> DEFINE k == IF i < p THEN i ELSE i + 1
    <2>1. k \in 1..c /\ k \in Nat /\ k # p /\ i \in Nat
      BY <1>1
    <2>2. u[i] = s[k] /\ u[i] \in Nodes
      BY <1>1, <1>4, <2>1
    <2>3. /\ u[i] = nxt[n] <=> k = p + 1
          /\ u[i] = pre[n] <=> k = p - 1
      <3>1. CASE p = c
        <4>1. k # p + 1
          BY <1>1, <2>1, <3>1
        <4>2. u[i] # nxt[n]
          BY <1>2, <2>2, <3>1
        <4>3. p # 1 => p - 1 \in 1..c
          BY <1>1, <3>1
        <4>4. p = 1 => k # p - 1
          BY <2>1
        <4> HIDE DEF k
        <4> QED
          BY <1>1, <1>2, <2>1, <2>2, <4>1, <4>2, <4>3, <4>4
      <3>2. CASE p # c
        <4>1. p + 1 \in 1..c /\ (p # 1 => p - 1 \in 1..c) /\ (p = 1 => k # p - 1)
          BY <1>1, <2>1, <3>2
        <4> HIDE DEF k
        <4> QED
          BY <1>1, <1>2, <2>1, <2>2, <3>2, <4>1
      <3> QED
        BY <3>1, <3>2
    <2>4. next2[u[i]] = IF i = c - 1 THEN nil ELSE u[i + 1]
      <3>1. next2[u[i]] = IF k = p - 1 THEN nxt[n] ELSE nxt[s[k]]
        BY <1>5, <2>2, <2>3
      <3>2. CASE k = p - 1
        <4>1. i = p - 1 /\ i < p /\ (i = c - 1 <=> p = c)
          BY <1>1, <3>2
        <4>2. p # c => i + 1 \in 1..c - 1 /\ ~ (i + 1 < p) /\ (i + 1) + 1 = p + 1
          BY <1>1, <4>1
        <4>3. p # c => u[i + 1] = s[p + 1]
          BY <1>4, <4>2
        <4> QED
          BY <1>2, <3>1, <3>2, <4>1, <4>3
      <3>3. CASE k # p - 1
        <4>1. k = c <=> i = c - 1
          BY <1>1, <3>3
        <4>2. i # c - 1 => /\ i + 1 \in 1..c - 1
                           /\ (i + 1 < p => k + 1 = i + 1) /\ (~ (i + 1 < p) => k + 1 = (i + 1) + 1)
          BY <1>1, <3>3
        <4>3. i # c - 1 => u[i + 1] = s[k + 1]
          BY <1>4, <4>2
        <4>4. nxt[s[k]] = IF k = c THEN nil ELSE s[k + 1]
          BY <1>1, <2>1
        <4> HIDE DEF k
        <4> QED
          BY <3>1, <3>3, <4>1, <4>3, <4>4
      <3> QED
        BY <3>2, <3>3
    <2>5. pre2[u[i]] = IF i = 1 THEN nil ELSE u[i - 1]
      <3>1. pre2[u[i]] = IF k = p + 1 THEN pre[n] ELSE pre[s[k]]
        BY <1>5, <2>2, <2>3
      <3>2. CASE k = p + 1
        <4>1. i = p /\ ~ (i < p)
          BY <1>1, <3>2
        <4>2. i # 1 => i - 1 \in 1..c - 1 /\ i - 1 < p /\ i - 1 = p - 1
          BY <1>1, <4>1
        <4>3. i # 1 => u[i - 1] = s[p - 1]
          BY <1>4, <4>2
        <4> HIDE DEF k
        <4> QED
          BY <1>2, <3>1, <3>2, <4>1, <4>3
      <3>3. CASE k # p + 1
        <4>1. k = 1 <=> i = 1
          BY <1>1, <3>3
        <4>2. i # 1 => /\ i - 1 \in 1..c - 1
                       /\ (i - 1 < p => k - 1 = i - 1) /\ (~ (i - 1 < p) => k - 1 = (i - 1) + 1)
          BY <1>1, <3>3
        <4>3. i # 1 => u[i - 1] = s[k - 1]
          BY <1>4, <4>2
        <4>4. pre[s[k]] = IF k = 1 THEN nil ELSE s[k - 1]
          BY <1>1, <2>1
        <4> HIDE DEF k
        <4> QED
          BY <3>1, <3>3, <4>1, <4>3, <4>4
      <3> QED
        BY <3>2, <3>3
    <2> QED
      BY <2>4, <2>5
  <1>9. ListOf(u, head2, tail2, pre2, next2, c - 1)
    <2> QED
      BY <1>1, <1>3, <1>6, <1>7, <1>8 DEF ListOf
  <1>10. Elements(u, c - 1) = Elements(s, c) \ {n}
    <2>1. ASSUME NEW i \in 1..c - 1 PROVE u[i] \in Elements(s, c) \ {n}
      <3>1. i \in 1..c /\ i + 1 \in 1..c /\ (i < p => i # p) /\ (~ (i < p) => i + 1 # p)
        BY <1>1
      <3> QED
        BY <1>1, <1>4, <3>1 DEF Elements
    <2>2. ASSUME NEW j \in 1..c, j # p PROVE \E i \in 1..c - 1 : u[i] = s[j]
      <3>1. CASE j < p
        <4>1. j \in 1..c - 1
          BY <1>1, <3>1
        <4> QED
          BY <1>4, <3>1, <4>1
      <3>2. CASE ~ (j < p)
        <4>1. j - 1 \in 1..c - 1 /\ ~ (j - 1 < p) /\ (j - 1) + 1 = j
          BY <1>1, <2>2, <3>2
        <4>2. u[j - 1] = s[j]
          BY <1>4, <4>1
        <4> QED
          BY <4>1, <4>2
      <3> QED
        BY <3>1, <3>2
    <2>3. Elements(u, c - 1) \subseteq Elements(s, c) \ {n}
      BY <2>1 DEF Elements
    <2>4. ASSUME NEW x \in Elements(s, c) \ {n} PROVE x \in Elements(u, c - 1)
      <3>1. PICK j \in 1..c : s[j] = x
        BY DEF Elements
      <3>2. j # p
        BY <3>1
      <3> QED
        BY <2>2, <3>1, <3>2 DEF Elements
    <2> QED
      BY <2>3, <2>4
  <1> QED
    BY <1>9, <1>10 DEF u, LinkedAs

-----------------------------------------------------------------------------
(* The list and the table by key are about the nodes L.                    *)
Table(L) ==
  /\ L \subseteq Made
  /\ \A k \in Keys : key2Node[k] # nil => key2Node[k] \in L /\ node[key2Node[k]].key = k
  /\ "failed" \notin spoilt => \A n \in L : key2Node[node[n].key] = n

Chain ==
  \E s : ListOf(s, cacheHead, cacheTail, preNode, nextNode, count) /\ Table(Elements(s, count))

(* Nothing is known of nodes that have not been made.                      *)
FreshNode == \A n \in Nodes \ Made : preNode[n] = nil /\ nextNode[n] = nil /\ handed[n] = 0

(* What Remove took never comes back, and timeoutCheck has a table of its  *)
(* own only after a clean.                                                 *)
GoneNode ==
  /\ \A k \in Keys : key2Node[k] \notin taken
  /\ checked # nil => "cleaned" \in spoilt

Inv == TypeOK /\ Len(node) <= MaxNodes /\ Chain /\ FreshNode /\ GoneNode /\ HandedOverOnce

LEMMA MadeFacts ==
  ASSUME TypeOK, Len(node) <= MaxNodes
  PROVE  /\ Len(node) \in Nat /\ MaxNodes \in Nat /\ Made \subseteq Nodes
         /\ nil \notin Nodes /\ nil \notin Made /\ nil \notin Keys
         /\ \A n \in Made : /\ node[n] \in [key : Keys, value : Values, time : Nat]
                            /\ node[n].key \in Keys /\ node[n].time \in Nat
  <1>1. Len(node) \in Nat /\ MaxNodes \in Nat
    BY BoundAssumption, LenProperties DEF TypeOK
  <1>2. \A n \in Made : node[n] \in [key : Keys, value : Values, time : Nat]
    BY ElementOfSeq DEF Made, TypeOK
  <1>3. Made \subseteq Nodes /\ nil \notin Nodes
    BY <1>1, ValuesAssumption DEF Made, Nodes
  <1> QED
    BY <1>1, <1>2, <1>3, ValuesAssumption

LEMMA ChainNext ==
  ASSUME NEW L, Linked(L, cacheHead', cacheTail', preNode', nextNode', count'), Table(L)'
  PROVE  Chain'
  <1>1. PICK u : /\ ListOf(u, cacheHead', cacheTail', preNode', nextNode', count')
                 /\ Elements(u, count') = L
    BY DEF Linked, LinkedAs
  <1>2. Elements(u, count)' = L
    BY <1>1 DEF Elements
  <1>3. Table(Elements(u, count))'
    BY <1>2 DEF Table
  <1> QED
    BY <1>1, <1>3 DEF Chain

LEMMA InitInv == ASSUME Init PROVE Inv
  <1> USE DEF Init
  <1>1. Len(node) = 0 /\ Made = {} /\ node \in Seq([key : Keys, value : Values, time : Nat])
    BY DEF Made
  <1>2. Len(node) <= MaxNodes
    BY <1>1, BoundAssumption
  <1>3. TypeOK
    BY <1>1, SizesAssumption DEF TypeOK
  <1>4. nil \notin Nodes
    BY <1>2, <1>3, MadeFacts
  <1>5. Chain
    <2> DEFINE s == [i \in 1..0 |-> nil]
    <2>1. ListOf(s, cacheHead, cacheTail, preNode, nextNode, count)
      BY DEF ListOf
    <2>2. Table(Elements(s, count))
      BY DEF Table, Elements
    <2> QED
      BY <2>1, <2>2 DEF Chain
  <1>6. FreshNode /\ GoneNode /\ HandedOverOnce
    BY <1>1 DEF FreshNode, GoneNode, HandedOverOnce
  <1> QED
    BY <1>2, <1>3, <1>5, <1>6 DEF Inv

(* PushFront, of a node that is found.                                     *)
LEMMA PushFrontMoves ==
  ASSUME Inv, NEW k \in Keys, key2Node[k] # nil, PushFront(key2Node[k]),
         NEW s, ListOf(s, cacheHead, cacheTail, preNode, nextNode, count),
         NEW p \in 1..count, s[p] = key2Node[k]
  PROVE  /\ LinkedAs(Front(s, p, count), Elements(s, count),
                     cacheHead', cacheTail', preNode', nextNode', count)
         /\ cacheHead' \in Made \cup {nil} /\ cacheTail' \in Made \cup {nil}
         /\ preNode' \in [Nodes -> Made \cup {nil}] /\ nextNode' \in [Nodes -> Made \cup {nil}]
         /\ \A n \in Nodes \ Made : preNode'[n] = preNode[n] /\ nextNode'[n] = nextNode[n]
  <1> DEFINE n == key2Node[k]
  <1>1. /\ TypeOK /\ Made \subseteq Nodes /\ nil \notin Nodes /\ nil \notin Made
    BY MadeFacts DEF Inv
  <1>2. n \in Made
    BY <1>1 DEF TypeOK
  <1> HIDE DEF n
  <1>3. CASE n = cacheHead
    <2>1. UNCHANGED <<cacheHead, cacheTail, preNode, nextNode>>
      BY <1>3 DEF PushFront, n
    <2>2. p = 1
      <3>1. 1 \in 1..count /\ cacheHead = s[1] /\ \A i, j \in 1..count : s[i] = s[j] => i = j
        BY DEF ListOf
      <3> QED
        BY <1>3, <3>1 DEF n
    <2>3. Front(s, p, count) = s
      <3>1. s \in [1..count -> Nodes] /\ count \in Nat
        BY DEF ListOf
      <3>2. \A i \in 1..count : i = 1 \/ ~ (i <= 1)
        BY <3>1
      <3>3. [i \in 1..count |-> IF i = 1 THEN s[1] ELSE IF i <= 1 THEN s[i - 1] ELSE s[i]] = [i \in 1..count |-> s[i]]
        BY <3>2
      <3> QED
        BY <2>2, <3>1, <3>3 DEF Front
    <2> QED
      BY <1>1, <2>1, <2>3 DEF TypeOK, LinkedAs
  <1>4. CASE n # cacheHead
    <2>1. /\ cacheHead' = n
          /\ cacheTail' = IF n = cacheTail THEN preNode[n] ELSE cacheTail
          /\ nextNode' = [nextNode EXCEPT ![preNode[n]] = nextNode[n], ![n] = cacheHead]
          /\ preNode' = [m \in Nodes |-> IF m = n THEN nil
                                         ELSE IF m = cacheHead THEN n
                                         ELSE IF m = nextNode[n] THEN preNode[n] ELSE preNode[m]]
      BY <1>4 DEF PushFront, n
    <2>2. p # 1 /\ n = s[p]
      BY <1>4 DEF ListOf, n
    <2>3. Pushed(n, cacheHead, cacheTail, preNode, nextNode, cacheTail', preNode', nextNode')
      BY <1>1, <1>2, <2>1 DEF Pushed, TypeOK
    <2>4. nil \notin Nodes
      BY <1>1
    <2>5. LinkedAs(Front(s, p, count), Elements(s, count), n, cacheTail', preNode', nextNode', count)
      BY <2>2, <2>3, <2>4, ToFront
    <2>6. preNode[n] \in Made \cup {nil} /\ nextNode[n] \in Made \cup {nil} /\ cacheHead \in Made \cup {nil}
      BY <1>1, <1>2 DEF TypeOK
    <2>7. cacheHead' \in Made \cup {nil} /\ cacheTail' \in Made \cup {nil}
      BY <1>1, <1>2, <2>1, <2>6 DEF TypeOK
    <2>8. preNode' \in [Nodes -> Made \cup {nil}]
      BY <1>1, <1>2, <2>1, <2>6 DEF TypeOK
    <2>9. nextNode' \in [Nodes -> Made \cup {nil}]
      BY <1>1, <1>2, <2>1, <2>6 DEF TypeOK
    <2>10. ASSUME NEW x \in Nodes \ Made PROVE preNode'[x] = preNode[x] /\ nextNode'[x] = nextNode[x]
      <3>1. x # n /\ x # preNode[n] /\ x # cacheHead /\ x # nextNode[n]
        BY <1>1, <1>2, <2>6
      <3> QED
        BY <1>1, <2>1, <3>1 DEF TypeOK
    <2> QED
      BY <2>1, <2>5, <2>7, <2>8, <2>9, <2>10
  <1> QED
    BY <1>3, <1>4

(* A node that is found by its key has a place in the list.                *)
LEMMA PlaceOf ==
  ASSUME Inv, NEW k \in Keys, key2Node[k] # nil
  PROVE  \E s : /\ ListOf(s, cacheHead, cacheTail, preNode, nextNode, count) /\ Table(Elements(s, count))
               /\ \E p \in 1..count : s[p] = key2Node[k]
  <1>1. PICK s : ListOf(s, cacheHead, cacheTail, preNode, nextNode, count) /\ Table(Elements(s, count))
    BY DEF Inv, Chain
  <1>2. key2Node[k] \in Elements(s, count)
    BY <1>1 DEF Table
  <1> QED
    BY <1>1, <1>2 DEF Elements

LEMMA PushFrontKeeps ==
  ASSUME Inv, NEW k \in Keys, key2Node[k] # nil, PushFront(key2Node[k]),
         UNCHANGED <<key2Node, count, spoilt>>,
         Len(node') = Len(node), \A n \in Made : node'[n].key = node[n].key
  PROVE  /\ Chain'
         /\ cacheHead' \in Made \cup {nil} /\ cacheTail' \in Made \cup {nil}
         /\ preNode' \in [Nodes -> Made \cup {nil}] /\ nextNode' \in [Nodes -> Made \cup {nil}]
         /\ \A n \in Nodes \ Made : preNode'[n] = preNode[n] /\ nextNode'[n] = nextNode[n]
  <1>1. PICK s : /\ ListOf(s, cacheHead, cacheTail, preNode, nextNode, count) /\ Table(Elements(s, count))
                 /\ \E p \in 1..count : s[p] = key2Node[k]
    BY PlaceOf
  <1>2. PICK p \in 1..count : s[p] = key2Node[k]
    BY <1>1
  <1>3. /\ LinkedAs(Front(s, p, count), Elements(s, count),
                    cacheHead', cacheTail', preNode', nextNode', count)
        /\ cacheHead' \in Made \cup {nil} /\ cacheTail' \in Made \cup {nil}
        /\ preNode' \in [Nodes -> Made \cup {nil}] /\ nextNode' \in [Nodes -> Made \cup {nil}]
        /\ \A n \in Nodes \ Made : preNode'[n] = preNode[n] /\ nextNode'[n] = nextNode[n]
    BY <1>1, <1>2, PushFrontMoves
  <1>4. PICK L : L = Elements(s, count)
    OBVIOUS
  <1>5. Linked(L, cacheHead', cacheTail', preNode', nextNode', count')
    BY <1>3, <1>4 DEF Linked, LinkedAs
  <1>6. Table(L)'
    <2>1. Made' = Made /\ \A m \in Made : node[m].key \in Keys
      BY MadeFacts DEF Inv, Made
    <2> QED
      BY <1>1, <1>4, <2>1 DEF Table, Inv, TypeOK
  <1> QED
    BY <1>3, <1>5, <1>6, ChainNext

(* Unlink: one node leaves the list and the table.                         *)
LEMMA UnlinkMoves ==
  ASSUME Inv, NEW k \in Keys, Unlink(k),
         NEW s, ListOf(s, cacheHead, cacheTail, preNode, nextNode, count),
         NEW p \in 1..count, s[p] = key2Node[k]
  PROVE  LinkedAs(Less(s, p, count), Elements(s, count) \ {key2Node[k]},
                  cacheHead', cacheTail', preNode', nextNode', count')
  <1> DEFINE n == key2Node[k]
  <1>1. TypeOK /\ Made \subseteq Nodes /\ nil \notin Nodes
    BY MadeFacts DEF Inv
  <1>2. n \in Made
    BY <1>1 DEF TypeOK, Unlink
  <1>3. /\ cacheHead' = (IF n = cacheHead THEN nextNode[n] ELSE cacheHead)
        /\ cacheTail' = (IF n = cacheTail THEN preNode[n] ELSE cacheTail)
        /\ preNode' = [m \in Nodes |-> IF m = nextNode[n] THEN preNode[n] ELSE preNode[m]]
        /\ nextNode' = [m \in Nodes |-> IF m = preNode[n] THEN nextNode[n] ELSE nextNode[m]]
        /\ count' = count - 1
    BY DEF Unlink
  <1> HIDE DEF n
  <1>4. Left(n, cacheHead, cacheTail, preNode, nextNode, cacheHead', cacheTail', preNode', nextNode')
    BY <1>1, <1>2, <1>3 DEF Left, TypeOK
  <1>5. nil \notin Nodes /\ n = s[p]
    BY <1>1 DEF n
  <1>6. LinkedAs(Less(s, p, count), Elements(s, count) \ {n},
                 cacheHead', cacheTail', preNode', nextNode', count - 1)
    BY <1>4, <1>5, Leave
  <1> QED
    BY <1>3, <1>6 DEF n

LEMMA UnlinkKeeps ==
  ASSUME Inv, NEW k \in Keys, Unlink(k), UNCHANGED spoilt
  PROVE  /\ Chain' /\ count' \in Nat /\ key2Node[k] \in InTable /\ Made' = Made
         /\ InTable' = InTable \ {key2Node[k]}
         /\ key2Node' \in [Keys -> Made \cup {nil}]
         /\ \A x \in Keys : /\ key2Node'[x] = IF x = k THEN nil ELSE key2Node[x]
                            /\ key2Node'[x] # key2Node[k]
         /\ cacheHead' \in Made \cup {nil} /\ cacheTail' \in Made \cup {nil}
         /\ preNode' \in [Nodes -> Made \cup {nil}] /\ nextNode' \in [Nodes -> Made \cup {nil}]
         /\ \A n \in Nodes \ Made : preNode'[n] = preNode[n] /\ nextNode'[n] = nextNode[n]
  <1> DEFINE n == key2Node[k]
  <1>1. /\ TypeOK /\ Len(node) \in Nat /\ MaxNodes \in Nat /\ Made \subseteq Nodes
        /\ nil \notin Nodes /\ nil \notin Made /\ \A m \in Made : node[m].key \in Keys
    BY MadeFacts DEF Inv
  <1>2. PICK s : ListOf(s, cacheHead, cacheTail, preNode, nextNode, count) /\ Table(Elements(s, count))
    BY DEF Inv, Chain
  <1>3. n \in Elements(s, count) /\ n \in Made /\ node[n].key = k /\ n # nil
    BY <1>1, <1>2 DEF Table, TypeOK, Unlink
  <1>4. PICK p \in 1..count : n = s[p]
    BY <1>3 DEF Elements
  <1>5. Made' = Made /\ node' = node
    BY DEF Made, Unlink
  <1>6. /\ cacheHead' = (IF n = cacheHead THEN nextNode[n] ELSE cacheHead)
        /\ cacheTail' = (IF n = cacheTail THEN preNode[n] ELSE cacheTail)
        /\ preNode' = [m \in Nodes |-> IF m = nextNode[n] THEN preNode[n] ELSE preNode[m]]
        /\ nextNode' = [m \in Nodes |-> IF m = preNode[n] THEN nextNode[n] ELSE nextNode[m]]
        /\ count' = count - 1
    BY DEF Unlink
  <1>7. \A x \in Keys : key2Node'[x] = IF x = k THEN nil ELSE key2Node[x]
    BY <1>1 DEF Unlink, TypeOK
  <1>8. key2Node' \in [Keys -> Made \cup {nil}]
    BY <1>1 DEF Unlink, TypeOK
  <1> HIDE DEF n
  <1>9. PICK u : /\ ListOf(u, cacheHead', cacheTail', preNode', nextNode', count')
                 /\ Elements(u, count') = Elements(s, count) \ {n}
    BY <1>2, <1>4, UnlinkMoves DEF n, LinkedAs
  <1>10. Table(Elements(u, count))'
    <2>1. Elements(u, count') \subseteq Made'
      BY <1>2, <1>5, <1>9 DEF Table
    <2>2. ASSUME NEW x \in Keys, key2Node'[x] # nil
          PROVE key2Node'[x] \in Elements(u, count') /\ node'[key2Node'[x]].key = x
      <3>1. x # k /\ key2Node'[x] = key2Node[x]
        BY <1>7, <2>2
      <3>2. key2Node[x] \in Elements(s, count) /\ node[key2Node[x]].key = x
        BY <1>2, <2>2, <3>1 DEF Table
      <3>3. key2Node[x] # n
        BY <1>3, <3>1, <3>2
      <3> QED
        BY <1>5, <1>9, <3>1, <3>2, <3>3
    <2>3. ASSUME "failed" \notin spoilt', NEW x \in Elements(u, count') PROVE key2Node'[node'[x].key] = x
      <3>1. x \in Elements(s, count) /\ x # n /\ x \in Made
        BY <1>2, <1>9 DEF Table
      <3>2. key2Node[node[x].key] = x
        BY <1>2, <2>3, <3>1 DEF Table
      <3>3. node[x].key # k
        BY <3>1, <3>2 DEF n
      <3> QED
        BY <1>1, <1>5, <1>7, <3>1, <3>2, <3>3
    <2>4. Elements(u, count)' = Elements(u, count')
      BY DEF Elements
    <2> QED
      BY <2>1, <2>2, <2>3, <2>4 DEF Table
  <1>11. Chain'
    BY <1>9, <1>10 DEF Chain
  <1>12. n \in InTable /\ InTable' = InTable \ {n}
    <2>1. n \in InTable
      BY <1>3 DEF InTable, n
    <2>2. ASSUME NEW x \in Made PROVE key2Node'[node'[x].key] = x <=> key2Node[node[x].key] = x /\ x # n
      <3>1. CASE node[x].key = k
        BY <1>1, <1>5, <1>7, <3>1 DEF n
      <3>2. CASE node[x].key # k
        BY <1>1, <1>3, <1>5, <1>7, <3>2
      <3> QED
        BY <3>1, <3>2
    <2> QED
      BY <1>5, <2>1, <2>2 DEF InTable
  <1>13. count' \in Nat
    BY <1>9 DEF ListOf
  <1>14. preNode[n] \in Made \cup {nil} /\ nextNode[n] \in Made \cup {nil}
    BY <1>1, <1>3 DEF TypeOK
  <1>15. cacheHead' \in Made \cup {nil} /\ cacheTail' \in Made \cup {nil}
    BY <1>1, <1>6, <1>14 DEF TypeOK
  <1>16. preNode' \in [Nodes -> Made \cup {nil}] /\ nextNode' \in [Nodes -> Made \cup {nil}]
    BY <1>1, <1>6, <1>14 DEF TypeOK
  <1>17. ASSUME NEW x \in Nodes \ Made PROVE preNode'[x] = preNode[x] /\ nextNode'[x] = nextNode[x]
    <2>1. x # preNode[n] /\ x # nextNode[n]
      BY <1>1, <1>14
    <2> QED
      BY <1>6, <2>1
  <1>18. ASSUME NEW x \in Keys PROVE key2Node'[x] # n
    <2>1. CASE x = k
      BY <1>3, <1>7, <2>1
    <2>2. CASE x # k
      BY <1>2, <1>3, <1>7, <2>2 DEF Table
    <2> QED
      BY <2>1, <2>2
  <1> QED
    BY <1>5, <1>7, <1>8, <1>11, <1>12, <1>13, <1>15, <1>16, <1>17, <1>18 DEF n

-----------------------------------------------------------------------------
(* Each action keeps the invariant.                                        *)
LEMMA ChainKept ==
  ASSUME Chain, UNCHANGED <<links, spoilt>>
  PROVE  Chain'
  <1>1. PICK s : ListOf(s, cacheHead, cacheTail, preNode, nextNode, count) /\ Table(Elements(s, count))
    BY DEF Chain
  <1>2. PICK L : L = Elements(s, count)
    OBVIOUS
  <1>3. Linked(L, cacheHead', cacheTail', preNode', nextNode', count')
    BY <1>1, <1>2 DEF Linked, LinkedAs, links
  <1>4. Table(L)'
    BY <1>1, <1>2 DEF Table, Made, links
  <1> QED
    BY <1>3, <1>4, ChainNext

(* Nothing happens to the nodes.                                           *)
LEMMA RestKeeps ==
  ASSUME Inv, UNCHANGED <<links, timer, calls, history>>, maxSize' \in Nat, now' \in Nat
  PROVE  Inv'
  <1>1. Chain'
    BY ChainKept DEF Inv, history
  <1>2. TypeOK'
    BY DEF Inv, TypeOK, Made, links, timer, history
  <1> QED
    BY <1>1, <1>2 DEF Inv, FreshNode, GoneNode, HandedOverOnce, InTable, Made, links, timer, history

LEMMA GetKeeps ==
  ASSUME Inv, NEW k \in Keys, Get(k)
  PROVE  Inv'
  <1>1. /\ Chain'
        /\ cacheHead' \in Made \cup {nil} /\ cacheTail' \in Made \cup {nil}
        /\ preNode' \in [Nodes -> Made \cup {nil}] /\ nextNode' \in [Nodes -> Made \cup {nil}]
        /\ \A n \in Nodes \ Made : preNode'[n] = preNode[n] /\ nextNode'[n] = nextNode[n]
    BY PushFrontKeeps DEF Get
  <1>2. UNCHANGED <<now, maxSize, key2Node, count, node, timer, calls, handed, taken, spoilt>>
        /\ lastUsed' = k
    BY DEF Get
  <1>3. Made' = Made /\ InTable' = InTable
    BY <1>2 DEF Made, InTable
  <1>4. TypeOK'
    BY <1>1, <1>2, <1>3 DEF Inv, TypeOK, timer
  <1> QED
    BY <1>1, <1>2, <1>3, <1>4 DEF Inv, FreshNode, GoneNode, HandedOverOnce, timer

LEMMA SetOldKeeps ==
  ASSUME Inv, NEW k \in Keys, NEW v \in Values, NEW max \in Nat, SetOld(k, v, max)
  PROVE  Inv'
  <1> DEFINE n == key2Node[k]
  <1>1. /\ TypeOK /\ Len(node) \in Nat /\ nil \notin Made
        /\ \A m \in Made : node[m] \in [key : Keys, value : Values, time : Nat]
    BY MadeFacts DEF Inv
  <1>2. /\ UNCHANGED <<now, key2Node, count, timer, calls, handed, taken, spoilt>>
        /\ maxSize' = max /\ lastUsed' = k /\ PushFront(n) /\ n # nil
        /\ node' = [node EXCEPT ![n].value = v]
    BY DEF SetOld
  <1>3. n \in Made
    BY <1>1, <1>2 DEF TypeOK
  <1> HIDE DEF n
  <1>4. /\ node' \in Seq([key : Keys, value : Values, time : Nat]) /\ Len(node') = Len(node)
        /\ \A m \in Made : node'[m].key = node[m].key
    <2>1. [node[n] EXCEPT !.value = v] \in [key : Keys, value : Values, time : Nat]
          /\ [node[n] EXCEPT !.value = v].key = node[n].key
      BY <1>1, <1>3
    <2>2. node' = [node EXCEPT ![n] = [node[n] EXCEPT !.value = v]]
      BY <1>2
    <2>3. PICK r : r = [node[n] EXCEPT !.value = v]
      OBVIOUS
    <2>4. node' = [node EXCEPT ![n] = r] /\ r \in [key : Keys, value : Values, time : Nat] /\ r.key = node[n].key
      BY <2>1, <2>2, <2>3
    <2>5. node \in Seq([key : Keys, value : Values, time : Nat]) /\ n \in 1..Len(node)
      BY <1>1, <1>3 DEF TypeOK, Made
    <2>6. /\ node' \in Seq([key : Keys, value : Values, time : Nat]) /\ Len(node') = Len(node)
          /\ \A m \in 1..Len(node) : node'[m] = IF m = n THEN r ELSE node[m]
      BY <2>4, <2>5, ExceptSeq
    <2> QED
      BY <2>4, <2>6 DEF Made
  <1>5. /\ Chain'
        /\ cacheHead' \in Made \cup {nil} /\ cacheTail' \in Made \cup {nil}
        /\ preNode' \in [Nodes -> Made \cup {nil}] /\ nextNode' \in [Nodes -> Made \cup {nil}]
        /\ \A m \in Nodes \ Made : preNode'[m] = preNode[m] /\ nextNode'[m] = nextNode[m]
    BY <1>2, <1>4, PushFrontKeeps DEF n
  <1>6. Made' = Made
    BY <1>4 DEF Made
  <1>7. InTable' = InTable
    BY <1>2, <1>4, <1>6 DEF InTable
  <1>8. TypeOK'
    BY <1>1, <1>2, <1>4, <1>5, <1>6 DEF TypeOK, timer
  <1> QED
    BY <1>2, <1>4, <1>5, <1>6, <1>7, <1>8 DEF Inv, FreshNode, GoneNode, HandedOverOnce, timer

(* What Remove, timeoutCheck and removeExpired have in common.             *)
LEMMA UnlinkTypes ==
  ASSUME Inv, NEW k \in Keys, Unlink(k), UNCHANGED <<now, maxSize, calls, lastUsed, spoilt>>,
         handed' \in [Nodes -> Nat], taken' \subseteq Made, rmKeys' \subseteq Keys,
         checked' # nil => rmKeys' # {} /\ checked' \in [Keys -> Made \cup {nil}]
  PROVE  TypeOK' /\ Len(node') <= MaxNodes /\ Chain'
  <1>1. /\ Chain' /\ count' \in Nat /\ Made' = Made
        /\ key2Node' \in [Keys -> Made \cup {nil}]
        /\ cacheHead' \in Made \cup {nil} /\ cacheTail' \in Made \cup {nil}
        /\ preNode' \in [Nodes -> Made \cup {nil}] /\ nextNode' \in [Nodes -> Made \cup {nil}]
    BY UnlinkKeeps
  <1>2. node' = node
    BY DEF Unlink
  <1> QED
    BY <1>1, <1>2 DEF Inv, TypeOK

LEMMA RemoveKeeps ==
  ASSUME Inv, NEW k \in Keys, Remove(k)
  PROVE  Inv'
  <1> DEFINE n == key2Node[k]
  <1>1. /\ Unlink(k) /\ taken' = taken \cup {n}
        /\ UNCHANGED <<now, maxSize, timer, calls, handed, lastUsed, spoilt>>
    BY DEF Remove
  <1>2. /\ n \in InTable /\ Made' = Made /\ InTable' = InTable \ {n}
        /\ \A x \in Keys : key2Node'[x] = (IF x = k THEN nil ELSE key2Node[x]) /\ key2Node'[x] # n
        /\ \A m \in Nodes \ Made : preNode'[m] = preNode[m] /\ nextNode'[m] = nextNode[m]
    BY <1>1, UnlinkKeeps
  <1>3. nil \notin Made /\ TypeOK
    BY MadeFacts DEF Inv
  <1> HIDE DEF n
  <1>4. TypeOK' /\ Len(node') <= MaxNodes /\ Chain'
    BY <1>1, <1>2, <1>3, UnlinkTypes DEF TypeOK, InTable, timer
  <1>5. FreshNode'
    BY <1>1, <1>2 DEF Inv, FreshNode
  <1>6. GoneNode'
    <2>1. nil \notin taken
      BY <1>3 DEF TypeOK
    <2> QED
      BY <1>1, <1>2, <2>1 DEF Inv, GoneNode, timer
  <1>7. HandedOverOnce'
    BY <1>1, <1>2 DEF Inv, HandedOverOnce
  <1> QED
    BY <1>4, <1>5, <1>6, <1>7 DEF Inv

(* A node that is unlinked and handed over.                                *)
LEMMA UnlinkHandKeeps ==
  ASSUME Inv, NEW k \in Keys, Unlink(k), Hand(key2Node[k]),
         UNCHANGED <<now, maxSize, calls, taken, lastUsed, spoilt>>, rmKeys' \subseteq Keys,
         checked' # nil => rmKeys' # {} /\ checked' \in [Keys -> Made \cup {nil}] /\ checked # nil
  PROVE  Inv'
  <1> DEFINE n == key2Node[k]
  <1>1. handed' = [handed EXCEPT ![n] = @ + 1]
    BY DEF Hand
  <1>2. /\ n \in InTable /\ Made' = Made /\ InTable' = InTable \ {n}
        /\ \A x \in Keys : key2Node'[x] = (IF x = k THEN nil ELSE key2Node[x]) /\ key2Node'[x] # n
        /\ \A m \in Nodes \ Made : preNode'[m] = preNode[m] /\ nextNode'[m] = nextNode[m]
    BY UnlinkKeeps
  <1>3. nil \notin Made /\ TypeOK /\ Made \subseteq Nodes
    BY MadeFacts DEF Inv
  <1>4. n \notin taken
    BY DEF Inv, GoneNode
  <1> HIDE DEF n
  <1>5. /\ handed' \in [Nodes -> Nat]
        /\ \A m \in Nodes : handed'[m] = IF m = n THEN handed[m] + 1 ELSE handed[m]
    BY <1>1, <1>2, <1>3 DEF TypeOK, InTable
  <1>6. TypeOK' /\ Len(node') <= MaxNodes /\ Chain'
    BY <1>3, <1>5, UnlinkTypes DEF TypeOK
  <1>7. FreshNode'
    BY <1>2, <1>3, <1>5 DEF Inv, FreshNode, InTable
  <1>8. GoneNode'
    <2>1. nil \notin taken
      BY <1>3 DEF TypeOK
    <2> QED
      BY <1>2, <2>1 DEF Inv, GoneNode
  <1>9. HandedOverOnce'
    <2> SUFFICES ASSUME spoilt = {}, NEW m \in Made
                 PROVE handed'[m] + (IF m \in calls THEN 1 ELSE 0) = IF m \in InTable' \cup taken THEN 0 ELSE 1
      BY <1>2 DEF HandedOverOnce
    <2>1. handed[m] + (IF m \in calls THEN 1 ELSE 0) = IF m \in InTable \cup taken THEN 0 ELSE 1
      BY DEF Inv, HandedOverOnce
    <2>2. handed[m] \in Nat
      BY <1>3 DEF TypeOK
    <2>3. handed'[m] = IF m = n THEN handed[m] + 1 ELSE handed[m]
      BY <1>3, <1>5
    <2> QED
      BY <1>2, <1>4, <2>1, <2>2, <2>3
  <1> QED
    BY <1>6, <1>7, <1>8, <1>9 DEF Inv

LEMMA timeoutCheckKeeps ==
  ASSUME Inv, NEW k \in Keys, timeoutCheck(k)
  PROVE  Inv'
  <1>1. /\ Unlink(k) /\ Hand(key2Node[k]) /\ rmKeys = {} /\ rmKeys' = Expired \ {k}
        /\ UNCHANGED <<now, maxSize, checked, calls, taken, lastUsed, spoilt>>
    BY DEF timeoutCheck
  <1>2. checked = nil /\ Expired \subseteq Keys
    BY <1>1 DEF Inv, TypeOK, Expired
  <1> QED
    BY <1>1, <1>2, UnlinkHandKeeps

LEMMA removeExpiredKeeps ==
  ASSUME Inv, NEW k \in Keys, removeExpired(k)
  PROVE  Inv'
  <1> DEFINE n == IF checked = nil THEN key2Node[k] ELSE checked[k]
  <1>1. /\ k \in rmKeys /\ rmKeys' = rmKeys \ {k}
        /\ IF n = nil THEN UNCHANGED <<links, handed>>
           ELSE Hand(n) /\ (Unlink(k) \/ (key2Node[k] = nil /\ UNCHANGED links))
        /\ checked' = IF rmKeys' = {} THEN nil ELSE checked
        /\ UNCHANGED <<now, maxSize, calls, taken, lastUsed, spoilt>>
    BY DEF removeExpired
  <1>2. /\ TypeOK /\ Made \subseteq Nodes /\ nil \notin Made
        /\ Chain /\ FreshNode /\ GoneNode /\ HandedOverOnce /\ Len(node) <= MaxNodes
    BY MadeFacts DEF Inv
  <1>3. n \in Made \cup {nil}
    BY <1>2 DEF TypeOK
  <1>4. checked = nil => n = key2Node[k]
    OBVIOUS
  <1>5. /\ rmKeys' \subseteq Keys
        /\ checked' # nil => rmKeys' # {} /\ checked' \in [Keys -> Made \cup {nil}] /\ checked # nil
    BY <1>1, <1>2 DEF TypeOK
  <1> HIDE DEF n
  <1>6. CASE n = nil
    <2>1. Chain'
      BY <1>1, <1>2, <1>6, ChainKept
    <2>2. TypeOK'
      BY <1>1, <1>2, <1>5, <1>6 DEF TypeOK, Made, links
    <2> QED
      BY <1>1, <1>2, <1>5, <1>6, <2>1, <2>2
      DEF Inv, FreshNode, GoneNode, HandedOverOnce, InTable, Made, links
  <1>7. CASE n # nil
    <2>1. handed' \in [Nodes -> Nat] /\ \A m \in Nodes \ Made : handed'[m] = handed[m]
      <3>1. handed' = [handed EXCEPT ![n] = @ + 1] /\ n \in Made /\ handed \in [Nodes -> Nat]
        BY <1>1, <1>2, <1>3, <1>7 DEF Hand, TypeOK
      <3> QED
        BY <1>2, <3>1
    <2>2. CASE checked = nil
      <3>1. Unlink(k) /\ Hand(key2Node[k])
        BY <1>1, <1>4, <1>7, <2>2
      <3> QED
        BY <1>1, <1>5, <3>1, UnlinkHandKeeps
    <2>3. CASE checked # nil
      <3>1. "cleaned" \in spoilt
        BY <1>2, <2>3 DEF GoneNode
      <3>2. HandedOverOnce'
        BY <1>1, <3>1 DEF HandedOverOnce
      <3>3. nil \notin taken
        BY <1>2 DEF TypeOK
      <3>4. CASE Unlink(k)
        <4>1. /\ Made' = Made
              /\ \A x \in Keys : key2Node'[x] = (IF x = k THEN nil ELSE key2Node[x])
              /\ \A m \in Nodes \ Made : preNode'[m] = preNode[m] /\ nextNode'[m] = nextNode[m]
          BY <3>4, <1>1, UnlinkKeeps
        <4>2. TypeOK' /\ Len(node') <= MaxNodes /\ Chain'
          BY <1>1, <1>2, <1>5, <2>1, <3>4, UnlinkTypes DEF TypeOK
        <4>3. FreshNode'
          BY <1>2, <2>1, <4>1 DEF FreshNode
        <4>4. GoneNode'
          BY <1>1, <1>2, <3>1, <3>3, <4>1 DEF GoneNode
        <4> QED
          BY <3>2, <4>2, <4>3, <4>4 DEF Inv
      <3>5. CASE UNCHANGED links
        <4>1. Chain'
          BY <1>1, <1>2, <3>5, ChainKept
        <4>2. TypeOK'
          BY <1>1, <1>2, <1>5, <2>1, <3>5 DEF TypeOK, Made, links
        <4>3. FreshNode'
          BY <1>2, <2>1, <3>5 DEF FreshNode, Made, links
        <4>4. GoneNode'
          BY <1>1, <1>2, <3>1, <3>5 DEF GoneNode, links
        <4> QED
          BY <1>2, <3>2, <3>5, <4>1, <4>2, <4>3, <4>4 DEF Inv, links
      <3> QED
        BY <1>1, <1>7, <3>4, <3>5
    <2> QED
      BY <2>2, <2>3
  <1> QED
    BY <1>6, <1>7

LEMMA executeRemoveFuncKeeps ==
  ASSUME Inv, NEW n \in calls, executeRemoveFunc(n)
  PROVE  Inv'
  <1>1. /\ calls' = calls \ {n} /\ handed' = [handed EXCEPT ![n] = @ + 1]
        /\ UNCHANGED <<now, maxSize, links, timer, taken, lastUsed, spoilt>>
    BY DEF executeRemoveFunc, Hand
  <1>2. /\ TypeOK /\ Made \subseteq Nodes /\ n \in Made
        /\ Chain /\ FreshNode /\ GoneNode /\ HandedOverOnce /\ Len(node) <= MaxNodes
    BY MadeFacts DEF Inv, TypeOK
  <1>3. Chain'
    BY <1>1, <1>2, ChainKept
  <1>4. /\ handed' \in [Nodes -> Nat]
        /\ \A m \in Nodes : handed'[m] = IF m = n THEN handed[m] + 1 ELSE handed[m]
    BY <1>1, <1>2 DEF TypeOK
  <1>5. TypeOK'
    BY <1>1, <1>2, <1>4 DEF TypeOK, Made, links, timer
  <1>6. Made' = Made /\ InTable' = InTable
    BY <1>1 DEF Made, InTable, links
  <1>7. FreshNode' /\ GoneNode'
    BY <1>1, <1>2, <1>4, <1>6 DEF FreshNode, GoneNode, links, timer
  <1>8. HandedOverOnce'
    <2> SUFFICES ASSUME spoilt = {}, NEW m \in Made
                 PROVE handed'[m] + (IF m \in calls' THEN 1 ELSE 0) = IF m \in InTable \cup taken THEN 0 ELSE 1
      BY <1>1, <1>6 DEF HandedOverOnce
    <2>1. handed[m] + (IF m \in calls THEN 1 ELSE 0) = IF m \in InTable \cup taken THEN 0 ELSE 1
      BY <1>2 DEF HandedOverOnce
    <2>2. handed[m] \in Nat /\ handed'[m] = IF m = n THEN handed[m] + 1 ELSE handed[m]
      BY <1>2, <1>4 DEF TypeOK
    <2> QED
      BY <1>1, <2>1, <2>2
  <1> QED
    BY <1>1, <1>2, <1>3, <1>5, <1>7, <1>8 DEF Inv, links

LEMMA cleanKeeps ==
  ASSUME Inv, clean
  PROVE  Inv'
  <1>1. /\ calls' = calls \cup ({key2Node[k] : k \in Keys} \ {nil})
        /\ key2Node' = [k \in Keys |-> nil] /\ cacheHead' = nil /\ cacheTail' = nil /\ count' = 0
        /\ checked' = (IF rmKeys # {} /\ checked = nil THEN key2Node ELSE checked)
        /\ spoilt' = (IF rmKeys # {} THEN spoilt \cup {"cleaned"} ELSE spoilt)
        /\ UNCHANGED <<now, maxSize, node, preNode, nextNode, rmKeys, handed, taken, lastUsed>>
    BY DEF clean, LateClean
  <1>2. /\ TypeOK /\ Made \subseteq Nodes /\ nil \notin Made /\ nil \notin Nodes
        /\ Chain /\ FreshNode /\ GoneNode /\ HandedOverOnce /\ Len(node) <= MaxNodes
        /\ \A n \in Made : node[n].key \in Keys
    BY MadeFacts DEF Inv
  <1>3. Made' = Made
    BY <1>1 DEF Made
  <1>4. {key2Node[k] : k \in Keys} \ {nil} \subseteq Made
    BY <1>2 DEF TypeOK
  <1>5. TypeOK'
    BY <1>1, <1>2, <1>3, <1>4 DEF TypeOK
  <1>6. Chain'
    <2>1. PICK L : L = {}
      OBVIOUS
    <2>2. Table(L)'
      BY <1>1, <2>1 DEF Table
    <2>3. Linked(L, cacheHead', cacheTail', preNode', nextNode', count')
      <3> DEFINE s == [i \in 1..0 |-> nil]
      <3>1. preNode' \in [Nodes -> Nodes \cup {nil}] /\ nextNode' \in [Nodes -> Nodes \cup {nil}]
        BY <1>1, <1>2 DEF TypeOK
      <3>2. ListOf(s, cacheHead', cacheTail', preNode', nextNode', count')
        BY <1>1, <3>1 DEF ListOf
      <3>3. Elements(s, count') = {}
        BY <1>1 DEF Elements
      <3> QED
        BY <2>1, <3>2, <3>3 DEF Linked, LinkedAs
    <2> QED
      BY <2>2, <2>3, ChainNext
  <1>7. FreshNode'
    BY <1>1, <1>2, <1>3 DEF FreshNode
  <1>8. GoneNode'
    <2>1. nil \notin taken
      BY <1>2 DEF TypeOK
    <2> QED
      BY <1>1, <1>2, <2>1 DEF GoneNode
  <1>9. HandedOverOnce'
    <2> SUFFICES ASSUME spoilt' = {}, NEW m \in Made
                 PROVE handed[m] + (IF m \in calls' THEN 1 ELSE 0) = IF m \in InTable' \cup taken THEN 0 ELSE 1
      BY <1>1, <1>3 DEF HandedOverOnce
    <2>1. spoilt = {}
      BY <1>1
    <2>2. handed[m] + (IF m \in calls THEN 1 ELSE 0) = IF m \in InTable \cup taken THEN 0 ELSE 1
      BY <1>2, <2>1 DEF HandedOverOnce
    <2>3. m \notin InTable'
      BY <1>1, <1>2 DEF InTable
    <2>4. m \in InTable => m \in calls' /\ m \notin taken
      BY <1>1, <1>2 DEF InTable, GoneNode
    <2>5. m \notin InTable => (m \in calls' <=> m \in calls)
      <3>1. ASSUME NEW k \in Keys, key2Node[k] = m PROVE m \in InTable
        <4>1. PICK s : Table(Elements(s, count))
          BY <1>2 DEF Chain
        <4>2. node[m].key = k
          BY <1>2, <3>1, <4>1 DEF Table
        <4> QED
          BY <3>1, <4>2 DEF InTable
      <3> QED
        BY <1>1, <3>1
    <2>6. handed[m] \in Nat
      BY <1>2 DEF TypeOK
    <2> QED
      BY <2>2, <2>3, <2>4, <2>5, <2>6
  <1> QED
    BY <1>1, <1>2, <1>5, <1>6, <1>7, <1>8, <1>9 DEF Inv

(* What a new entry pushes out is the end of the list.                     *)
LEMMA PushedOutIs ==
  ASSUME NEW s, ListOf(s, cacheHead, cacheTail, preNode, nextNode, count),
         NEW max \in Nat, max > 0
  PROVE  /\ Excess(max) \in 0..count
         /\ Excess(max) # count => FromTail[Excess(max)] = s[count - Excess(max)]
         /\ PushedOut(max) = Elements(s, count) \ Elements(s, count - Excess(max))
  <1> DEFINE e == Excess(max)
  <1>1. count \in Nat /\ \A i, j \in 1..count : s[i] = s[j] => i = j
    BY DEF ListOf
  <1>2. e \in 0..count
    BY <1>1 DEF Excess
  <1>3. \A i \in 0..count - 1 : FromTail[i] = s[count - i]
    BY WalkBack, FromTailIs
  <1>4. PushedOut(max) = {FromTail[i] : i \in 0..e - 1}
    BY DEF PushedOut
  <1> HIDE DEF e
  <1>5. e # count => FromTail[e] = s[count - e]
    BY <1>1, <1>2, <1>3
  <1>6. ASSUME NEW i \in 0..e - 1
        PROVE  FromTail[i] \in Elements(s, count) \ Elements(s, count - e)
    <2>1. i \in 0..count - 1 /\ count - i \in 1..count /\ \A j \in 1..count - e : j \in 1..count /\ j # count - i
      BY <1>1, <1>2
    <2>2. FromTail[i] = s[count - i]
      BY <1>3, <2>1
    <2> QED
      BY <1>1, <2>1, <2>2 DEF Elements
  <1>7. ASSUME NEW x \in Elements(s, count) \ Elements(s, count - e)
        PROVE  \E i \in 0..e - 1 : FromTail[i] = x
    <2>1. PICK j \in 1..count : s[j] = x
      BY DEF Elements
    <2>2. j \notin 1..count - e
      BY <2>1 DEF Elements
    <2>3. count - j \in 0..e - 1 /\ count - j \in 0..count - 1 /\ count - (count - j) = j
      BY <1>1, <1>2, <2>2
    <2> QED
      BY <1>3, <2>1, <2>3
  <1>8. PushedOut(max) = Elements(s, count) \ Elements(s, count - e)
    BY <1>4, <1>6, <1>7
  <1> QED
    BY <1>2, <1>5, <1>8 DEF e

LEMMA InsertMoves ==
  ASSUME Inv, NEW k \in Keys, NEW v \in Values, NEW max \in Nat, max > 0, SetNew(k, v, max),
         NEW s, ListOf(s, cacheHead, cacheTail, preNode, nextNode, count), Table(Elements(s, count))
  PROVE  LinkedAs(Before(Len(node) + 1, s, count - Excess(max)),
                  Elements(s, count - Excess(max)) \cup {Len(node) + 1},
                  cacheHead', cacheTail', preNode', nextNode', count')
  <1> DEFINE n == Len(node) + 1
             e == Excess(max)
             back == FromTail[e]
             u == Before(n, s, count - e)
  <1>1. /\ n \in Nodes /\ cacheHead' = n /\ count' = count - e + 1
        /\ IF count = e
           THEN cacheTail' = n /\ UNCHANGED <<preNode, nextNode>>
           ELSE /\ cacheTail' = back
                /\ nextNode' = [nextNode EXCEPT ![back] = nil, ![n] = cacheHead]
                /\ preNode' = [preNode EXCEPT ![cacheHead] = n]
    BY DEF SetNew, Insert
  <1>2. /\ TypeOK /\ Len(node) \in Nat /\ Made \subseteq Nodes /\ nil \notin Nodes /\ FreshNode
        /\ Elements(s, count) \subseteq Made
    BY MadeFacts DEF Inv, Table
  <1>3. n \notin Made
    BY <1>2 DEF Made
  <1>4. e \in 0..count /\ count \in Nat /\ (e # count => back = s[count - e])
    BY <1>2, PushedOutIs DEF TypeOK
  <1> HIDE DEF n, e, back
  <1>5. n \notin Elements(s, count) /\ preNode[n] = nil /\ nextNode[n] = nil
    BY <1>1, <1>2, <1>3 DEF FreshNode
  <1>6. preNode \in [Nodes -> Nodes \cup {nil}] /\ nextNode \in [Nodes -> Nodes \cup {nil}]
    BY DEF ListOf
  <1>7. CASE e = count
    <2>1. u \in [1..1 -> Nodes] /\ u[1] = n /\ \A i \in 1..1 : i = 1 /\ u[i] = n
      <3>1. count - e + 1 = 1
        BY <1>4, <1>7
      <3>2. u = [i \in 1..1 |-> IF i = 1 THEN n ELSE s[i - 1]]
        BY <3>1 DEF Before
      <3>3. \A i \in 1..1 : i = 1
        OBVIOUS
      <3> HIDE DEF u
      <3> QED
        BY <1>1, <3>2, <3>3
    <2>2. count' = 1 /\ cacheHead' = n /\ cacheTail' = n /\ preNode' = preNode /\ nextNode' = nextNode
      BY <1>1, <1>4, <1>7
    <2>3. Elements(s, count - e) = {}
      <3>1. 1..count - e = {}
        BY <1>4, <1>7
      <3> QED
        BY <3>1 DEF Elements
    <2> HIDE DEF u
    <2>4. Elements(u, 1) = {n}
      BY <2>1 DEF Elements
    <2>5. ListOf(u, n, n, preNode, nextNode, 1)
      BY <1>5, <1>6, <2>1 DEF ListOf
    <2> QED
      BY <2>2, <2>3, <2>4, <2>5 DEF u, e, n, LinkedAs
  <1>8. CASE e # count
    <2>1. cacheHead \in Nodes /\ back \in Nodes
      <3>1. 1 \in 1..count /\ count - e \in 1..count /\ count > 0
        BY <1>4, <1>8
      <3> QED
        BY <1>4, <1>8, <3>1 DEF ListOf
    <2>2. back \in Elements(s, count)
      <3>1. count - e \in 1..count
        BY <1>4, <1>8
      <3> QED
        BY <1>4, <1>8, <3>1 DEF Elements
    <2>3. Put(n, cacheHead, back, preNode, nextNode, preNode', nextNode')
      <3>1. /\ n # back /\ nextNode' = [nextNode EXCEPT ![back] = nil, ![n] = cacheHead]
            /\ preNode' = [preNode EXCEPT ![cacheHead] = n]
        BY <1>1, <1>5, <1>8, <2>2
      <3> QED
        BY <1>1, <1>6, <2>1, <3>1 DEF Put
    <2>4. back = s[count - e] /\ nil \notin Nodes /\ n \in Nodes
      BY <1>1, <1>2, <1>4, <1>8
    <2>5. LinkedAs(u, Elements(s, count - e) \cup {n}, n, back, preNode', nextNode', count - e + 1)
      BY <1>4, <1>5, <1>8, <2>3, <2>4, InFront
    <2> HIDE DEF u
    <2> QED
      BY <1>1, <1>8, <2>5 DEF u, e, n
  <1> QED
    BY <1>7, <1>8

LEMMA SetNewKeeps ==
  ASSUME Inv, NEW k \in Keys, NEW v \in Values, NEW max \in Nat, max > 0, SetNew(k, v, max)
  PROVE  Inv'
  <1> DEFINE n == Len(node) + 1
             e == Excess(max)
             out == PushedOut(max)
             back == FromTail[e]
             r == [key |-> k, value |-> v, time |-> now]
  <1>1. /\ n \in Nodes /\ node' = Append(node, r)
        /\ key2Node' = [x \in Keys |-> IF x = k THEN n
                                       ELSE IF \E m \in out : node[m].key = x THEN nil ELSE key2Node[x]]
        /\ cacheHead' = n /\ count' = count - e + 1
        /\ IF count = e
           THEN cacheTail' = n /\ UNCHANGED <<preNode, nextNode>>
           ELSE /\ cacheTail' = back
                /\ nextNode' = [nextNode EXCEPT ![back] = nil, ![n] = cacheHead]
                /\ preNode' = [preNode EXCEPT ![cacheHead] = n]
        /\ calls' = calls \cup out /\ lastUsed' = k
        /\ key2Node[k] = nil /\ maxSize' = max
        /\ UNCHANGED <<now, timer, handed, taken, spoilt>>
    BY DEF SetNew, Insert
  <1>2. /\ TypeOK /\ Len(node) \in Nat /\ Made \subseteq Nodes /\ nil \notin Made /\ nil \notin Nodes
        /\ Chain /\ FreshNode /\ GoneNode /\ HandedOverOnce /\ Len(node) <= MaxNodes /\ MaxNodes \in Nat
        /\ \A m \in Made : node[m].key \in Keys
    BY MadeFacts DEF Inv
  <1>3. r \in [key : Keys, value : Values, time : Nat] /\ r.key = k
    BY <1>2 DEF TypeOK
  <1>4. PICK s : ListOf(s, cacheHead, cacheTail, preNode, nextNode, count) /\ Table(Elements(s, count))
    BY <1>2 DEF Chain
  <1>5. /\ e \in 0..count /\ count \in Nat
        /\ e # count => back = s[count - e]
        /\ out = Elements(s, count) \ Elements(s, count - e)
    BY <1>2, <1>4, PushedOutIs DEF TypeOK
  <1> HIDE DEF n, e, out, back, r
  <1>6. /\ node' \in Seq([key : Keys, value : Values, time : Nat]) /\ Len(node') = n
        /\ \A m \in Made : node'[m] = node[m]
        /\ node'[n].key = k
    <2>1. node \in Seq([key : Keys, value : Values, time : Nat])
      BY <1>2 DEF TypeOK
    <2> QED
      BY <1>1, <1>3, <2>1, AppendProperties DEF Made, n
  <1>7. Made' = Made \cup {n} /\ n \notin Made /\ n \in Nodes /\ n <= MaxNodes
    BY <1>1, <1>2, <1>6 DEF Made, n, Nodes
  <1>8. PICK R : R = Elements(s, count - e)
    OBVIOUS
  <1>9. /\ R \subseteq Elements(s, count) /\ Elements(s, count) \subseteq Made
        /\ out = Elements(s, count) \ R /\ out \subseteq Made
    <2>1. \A i \in 1..count - e : i \in 1..count
      BY <1>5
    <2> QED
      BY <1>4, <1>5, <1>8, <2>1 DEF Elements, Table
  <1>10. \A x \in Keys : key2Node'[x] = IF x = k THEN n
                                        ELSE IF \E m \in out : node[m].key = x THEN nil ELSE key2Node[x]
    BY <1>1
  <1>11. cacheHead \in Made \cup {nil} /\ (e # count => cacheHead \in Made /\ back \in Made)
    <2>1. e # count => 1 \in 1..count /\ count - e \in 1..count /\ count > 0
      BY <1>5
    <2>2. \A i \in 1..count : s[i] \in Made
      BY <1>9 DEF Elements
    <2>3. count > 0 => cacheHead = s[1]
      BY <1>4 DEF ListOf
    <2>4. cacheHead \in Made \cup {nil}
      BY <1>2 DEF TypeOK
    <2> QED
      BY <1>5, <2>1, <2>2, <2>3, <2>4
  <1>12. PICK L : L = R \cup {n}
    OBVIOUS
  <1>13. Linked(L, cacheHead', cacheTail', preNode', nextNode', count')
    BY <1>4, <1>8, <1>12, InsertMoves DEF Linked, e, n
  <1>14. Table(L)'
    <2>1. ASSUME NEW x \in Keys, key2Node'[x] # nil
          PROVE  key2Node'[x] \in L /\ node'[key2Node'[x]].key = x
      <3>1. CASE x = k
        BY <1>6, <1>10, <1>12, <3>1
      <3>2. CASE x # k
        <4>1. key2Node'[x] = key2Node[x] /\ ~ \E m \in out : node[m].key = x
          BY <1>10, <2>1, <3>2
        <4>2. key2Node[x] \in Elements(s, count) /\ node[key2Node[x]].key = x
          BY <1>4, <2>1, <4>1 DEF Table
        <4>3. key2Node[x] \in R /\ key2Node[x] \in Made
          BY <1>9, <4>1, <4>2
        <4> QED
          BY <1>6, <1>12, <4>1, <4>2, <4>3
      <3> QED
        BY <3>1, <3>2
    <2>2. ASSUME "failed" \notin spoilt', NEW m \in L PROVE key2Node'[node'[m].key] = m
      <3>1. CASE m = n
        BY <1>6, <1>10, <3>1
      <3>2. CASE m # n
        <4>1. m \in R /\ m \in Made /\ m # nil
          BY <1>2, <1>9, <1>12, <2>2, <3>2
        <4>2. \A x \in Elements(s, count) : key2Node[node[x].key] = x
          BY <1>1, <1>4, <2>2 DEF Table
        <4>3. key2Node[node[m].key] = m /\ node[m].key # k /\ node[m].key \in Keys
          BY <1>1, <1>2, <1>9, <4>1, <4>2
        <4>4. ~ \E x \in out : node[x].key = node[m].key
          BY <1>9, <4>1, <4>2, <4>3
        <4> QED
          BY <1>6, <1>10, <4>1, <4>3, <4>4
      <3> QED
        BY <3>1, <3>2
    <2>3. L \subseteq Made'
      BY <1>7, <1>9, <1>12
    <2> QED
      BY <2>1, <2>2, <2>3 DEF Table
  <1>15. Chain'
    BY <1>13, <1>14, ChainNext
  <1>16. TypeOK'
    <2>1. key2Node' \in [Keys -> Made' \cup {nil}]
      BY <1>1, <1>2, <1>7 DEF TypeOK
    <2>2. cacheHead' \in Made' \cup {nil} /\ cacheTail' \in Made' \cup {nil}
      BY <1>1, <1>7, <1>11
    <2>3. preNode' \in [Nodes -> Made' \cup {nil}] /\ nextNode' \in [Nodes -> Made' \cup {nil}]
      <3>1. preNode \in [Nodes -> Made' \cup {nil}] /\ nextNode \in [Nodes -> Made' \cup {nil}]
        BY <1>2, <1>7 DEF TypeOK
      <3>2. CASE e = count
        BY <1>1, <3>1, <3>2
      <3>3. CASE e # count
        <4>1. /\ nextNode' = [nextNode EXCEPT ![back] = nil, ![n] = cacheHead]
              /\ preNode' = [preNode EXCEPT ![cacheHead] = n]
              /\ cacheHead \in Made' \cup {nil} /\ n \in Made'
          BY <1>1, <1>7, <1>11, <3>3
        <4> QED
          BY <3>1, <4>1
      <3> QED
        BY <3>2, <3>3
    <2>4. count' \in Nat /\ maxSize' \in Nat /\ now' \in Nat /\ lastUsed' \in Keys \cup {nil}
      BY <1>1, <1>2, <1>5 DEF TypeOK
    <2>5. calls' \subseteq Made' /\ taken' \subseteq Made'
      BY <1>1, <1>2, <1>7, <1>9 DEF TypeOK
    <2>6. checked' # nil => rmKeys' # {} /\ checked' \in [Keys -> Made' \cup {nil}]
      BY <1>1, <1>2, <1>7 DEF TypeOK, timer
    <2>7. rmKeys' \subseteq Keys /\ handed' \in [Nodes -> Nat] /\ spoilt' \subseteq {"failed", "cleaned"}
      BY <1>1, <1>2 DEF TypeOK, timer
    <2> QED
      BY <1>6, <2>1, <2>2, <2>3, <2>4, <2>5, <2>6, <2>7 DEF TypeOK
  <1>17. FreshNode'
    <2> SUFFICES ASSUME NEW m \in Nodes, m \notin Made, m # n
                 PROVE  preNode'[m] = nil /\ nextNode'[m] = nil /\ handed'[m] = 0
      BY <1>7 DEF FreshNode
    <2>1. preNode[m] = nil /\ nextNode[m] = nil /\ handed[m] = 0
      BY <1>2 DEF FreshNode
    <2>2. preNode'[m] = preNode[m] /\ nextNode'[m] = nextNode[m]
      BY <1>1, <1>2, <1>11 DEF TypeOK
    <2> QED
      BY <1>1, <2>1, <2>2
  <1>18. GoneNode'
    <2>1. nil \notin taken /\ n \notin taken
      BY <1>2, <1>7 DEF TypeOK
    <2>2. \A x \in Keys : key2Node'[x] \notin taken
      BY <1>2, <1>10, <2>1 DEF GoneNode
    <2> QED
      BY <1>1, <1>2, <2>2 DEF GoneNode, timer
  <1>19. HandedOverOnce'
    <2> SUFFICES ASSUME spoilt = {}, NEW m \in Made'
                 PROVE handed[m] + (IF m \in calls' THEN 1 ELSE 0) = IF m \in InTable' \cup taken THEN 0 ELSE 1
      BY <1>1 DEF HandedOverOnce
    <2>1. \A x \in Elements(s, count) : key2Node[node[x].key] = x
      BY <1>4 DEF Table
    <2>2. CASE m = n
      <3>1. m \in InTable'
        BY <1>6, <1>7, <1>10, <2>2 DEF InTable
      <3>2. handed[m] = 0 /\ m \notin calls /\ m \notin out
        BY <1>2, <1>7, <1>9, <2>2 DEF FreshNode, TypeOK
      <3> QED
        BY <1>1, <3>1, <3>2
    <2>3. CASE m # n
      <3>1. m \in Made /\ node'[m] = node[m] /\ handed[m] \in Nat /\ m # nil /\ node[m].key \in Keys
        BY <1>2, <1>6, <1>7, <2>3 DEF TypeOK
      <3>2. handed[m] + (IF m \in calls THEN 1 ELSE 0) = IF m \in InTable \cup taken THEN 0 ELSE 1
        BY <1>2, <3>1 DEF HandedOverOnce
      <3>3. m \in InTable' <=> key2Node'[node[m].key] = m
        BY <1>7, <3>1 DEF InTable
      <3>4. m \in InTable <=> key2Node[node[m].key] = m
        BY <3>1 DEF InTable
      <3>5. CASE m \in out
        <4>1. key2Node[node[m].key] = m
          BY <1>9, <2>1, <3>5
        <4>2. m \notin taken
          BY <1>2, <3>1, <4>1 DEF GoneNode
        <4>3. m \notin InTable'
          BY <1>10, <2>3, <3>1, <3>3, <3>5
        <4> QED
          BY <1>1, <3>1, <3>2, <3>4, <3>5, <4>1, <4>2, <4>3
      <3>6. CASE m \notin out
        <4>1. m \in InTable' <=> m \in InTable
          <5>1. CASE node[m].key = k
            BY <1>1, <1>10, <2>3, <3>1, <3>3, <3>4, <5>1
          <5>2. CASE \E x \in out : node[x].key = node[m].key
            <6>1. PICK x \in out : node[x].key = node[m].key
              BY <5>2
            <6>2. key2Node[node[m].key] = x /\ x # m
              BY <1>9, <2>1, <3>6, <6>1
            <6>3. key2Node'[node[m].key] \in {n, nil}
              BY <1>10, <3>1, <6>1
            <6> QED
              BY <2>3, <3>1, <3>3, <3>4, <6>2, <6>3
          <5>3. CASE node[m].key # k /\ ~ \E x \in out : node[x].key = node[m].key
            BY <1>10, <3>1, <3>3, <3>4, <5>3
          <5> QED
            BY <5>1, <5>2, <5>3
        <4> QED
          BY <1>1, <3>2, <3>6, <4>1
      <3> QED
        BY <3>5, <3>6
    <2> QED
      BY <2>2, <2>3
  <1> QED
    BY <1>6, <1>7, <1>15, <1>16, <1>17, <1>18, <1>19 DEF Inv

(* Set fails: what is left is the head, which is found no more.            *)
LEMMA SetFailsKeeps ==
  ASSUME Inv, NEW k \in Keys, NEW max \in Nat, max > 0, SetFails(k, max)
  PROVE  Inv'
  <1> DEFINE out == PushedOut(max)
  <1>1. /\ maxSize' = max /\ Excess(max) = count /\ count > 1
        /\ key2Node' = [x \in Keys |-> IF \E m \in out : node[m].key = x THEN nil ELSE key2Node[x]]
        /\ cacheTail' = cacheHead /\ nextNode' = [nextNode EXCEPT ![cacheHead] = nil]
        /\ count' = 1 /\ spoilt' = spoilt \cup {"failed"}
        /\ UNCHANGED <<now, cacheHead, node, preNode, timer, calls, handed, taken, lastUsed>>
    BY DEF SetFails
  <1>2. /\ TypeOK /\ Len(node) \in Nat /\ Made \subseteq Nodes /\ nil \notin Made /\ nil \notin Nodes
        /\ Chain /\ FreshNode /\ GoneNode /\ HandedOverOnce /\ Len(node) <= MaxNodes
    BY MadeFacts DEF Inv
  <1>3. PICK s : ListOf(s, cacheHead, cacheTail, preNode, nextNode, count) /\ Table(Elements(s, count))
    BY <1>2 DEF Chain
  <1>4. out = Elements(s, count)
    <2>1. out = Elements(s, count) \ Elements(s, count - count)
      BY <1>1, <1>3, PushedOutIs
    <2>2. 1..count - count = {}
      BY <1>2 DEF TypeOK
    <2> QED
      BY <2>1, <2>2 DEF Elements
  <1> HIDE DEF out
  <1>5. Made' = Made
    BY <1>1 DEF Made
  <1>6. \A x \in Keys : key2Node'[x] = nil
    BY <1>1, <1>3, <1>4 DEF Table
  <1>7. cacheHead \in Made /\ preNode[cacheHead] = nil
    <2>1. 1 \in 1..count /\ count > 0 /\ cacheHead = s[1] /\ preNode[s[1]] = nil
      BY <1>1, <1>2, <1>3 DEF ListOf, TypeOK
    <2>2. s[1] \in Elements(s, count)
      BY <2>1 DEF Elements
    <2> QED
      BY <1>3, <2>1, <2>2 DEF Table
  <1>8. TypeOK'
    BY <1>1, <1>2, <1>5, <1>6, <1>7 DEF TypeOK, timer
  <1>9. PICK L : L = {cacheHead}
    OBVIOUS
  <1>10. Linked(L, cacheHead', cacheTail', preNode', nextNode', count')
    <2> DEFINE u == [i \in 1..1 |-> cacheHead]
    <2>1. u \in [1..1 -> Nodes] /\ u[1] = cacheHead /\ \A i \in 1..1 : i = 1 /\ u[i] = cacheHead
      BY <1>2, <1>7
    <2>2. Elements(u, 1) = L
      BY <1>9, <2>1 DEF Elements
    <2>3. /\ preNode' \in [Nodes -> Nodes \cup {nil}] /\ nextNode' \in [Nodes -> Nodes \cup {nil}]
          /\ nextNode'[cacheHead] = nil /\ preNode'[cacheHead] = nil
      BY <1>1, <1>2, <1>7 DEF TypeOK
    <2> HIDE DEF u
    <2>4. ListOf(u, cacheHead', cacheTail', preNode', nextNode', 1)
      BY <1>1, <2>1, <2>3 DEF ListOf
    <2> QED
      BY <1>1, <2>2, <2>4 DEF Linked, LinkedAs
  <1>11. Table(L)'
    BY <1>1, <1>5, <1>6, <1>7, <1>9 DEF Table
  <1>12. Chain'
    BY <1>10, <1>11, ChainNext
  <1>13. FreshNode'
    BY <1>1, <1>2, <1>5, <1>7 DEF FreshNode, TypeOK
  <1>14. GoneNode'
    BY <1>1, <1>2, <1>6 DEF GoneNode, TypeOK, timer
  <1> QED
    BY <1>1, <1>2, <1>8, <1>12, <1>13, <1>14 DEF Inv, HandedOverOnce

LEMMA Step == ASSUME Inv, [Next]_vars PROVE Inv'
  <1>1. now \in Nat /\ maxSize \in Nat
    BY DEF Inv, TypeOK
  <1>2. ASSUME NEW m \in Sizes, SetMaxSize(m) PROVE Inv'
    BY <1>1, <1>2, SizesAssumption, RestKeeps DEF SetMaxSize
  <1>3. ASSUME NEW k \in Keys, Get(k) PROVE Inv'
    BY <1>3, GetKeeps
  <1>4. ASSUME NEW k \in Keys, Remove(k) PROVE Inv'
    BY <1>4, RemoveKeeps
  <1>5. ASSUME NEW k \in Keys, timeoutCheck(k) PROVE Inv'
    BY <1>5, timeoutCheckKeeps
  <1>6. ASSUME NEW k \in Keys, removeExpired(k) PROVE Inv'
    BY <1>6, removeExpiredKeeps
  <1>7. ASSUME NEW k \in Keys, NEW v \in Values, NEW force \in BOOLEAN, Set(k, v, force) PROVE Inv'
    <2>1. PICK max : /\ max = maxSize + 1 \/ max = maxSize
                     /\ maxSize >= 1
                     /\ SetOld(k, v, max) \/ SetNew(k, v, max) \/ SetFails(k, max)
      BY <1>7 DEF Set
    <2>2. max \in Nat /\ max > 0
      BY <1>1, <2>1
    <2> QED
      BY <2>1, <2>2, SetOldKeeps, SetNewKeeps, SetFailsKeeps
  <1>8. ASSUME NEW n \in calls, executeRemoveFunc(n) PROVE Inv'
    BY <1>8, executeRemoveFuncKeeps
  <1>9. ASSUME clean PROVE Inv'
    BY <1>9, cleanKeeps
  <1>10. ASSUME Tick PROVE Inv'
    BY <1>1, <1>10, RestKeeps DEF Tick
  <1>11. ASSUME UNCHANGED vars PROVE Inv'
    BY <1>1, <1>11, RestKeeps DEF vars
  <1> QED
    BY <1>2, <1>3, <1>4, <1>5, <1>6, <1>7, <1>8, <1>9, <1>10, <1>11 DEF Next

LEMMA Always == Spec => []Inv
  <1>1. Init => Inv
    BY InitInv
  <1>2. Inv /\ [Next]_vars => Inv'
    BY Step
  <1> QED
    BY <1>1, <1>2, PTL DEF Spec

LEMMA SoundFollows == ASSUME Inv PROVE CacheIsSound
  <1>1. PICK s : ListOf(s, cacheHead, cacheTail, preNode, nextNode, count) /\ Table(Elements(s, count))
    BY DEF Inv, Chain
  <1>2. \A i \in 0..count - 1 : FromHead[i] = s[i + 1]
    BY <1>1, WalkForth, FromHeadIs
  <1>3. FromHead[count] = nil
    BY <1>1, WalkForth, FromHeadIs
  <1>4. count \in Nat /\ TypeOK /\ nil \notin Nodes /\ \A n \in Made : node[n].key \in Keys
    BY MadeFacts DEF Inv, TypeOK
  <1>5. Listed = Elements(s, count)
    <2>1. ASSUME NEW i \in 0..count - 1 PROVE FromHead[i] \in Elements(s, count)
      <3>1. i + 1 \in 1..count
        BY <1>4
      <3> QED
        BY <1>2, <3>1 DEF Elements
    <2>2. ASSUME NEW j \in 1..count PROVE s[j] \in Listed
      <3>1. j - 1 \in 0..count - 1 /\ (j - 1) + 1 = j
        BY <1>4
      <3>2. FromHead[j - 1] = s[j]
        BY <1>2, <3>1
      <3> QED
        BY <3>1, <3>2 DEF Listed
    <2> QED
      BY <2>1, <2>2 DEF Listed, Elements
  <1>6. LinksAgree
    <2>1. count = 0 <=> cacheHead = nil
      <3>1. count > 0 => s[1] \in Nodes /\ cacheHead = s[1]
        BY <1>1, <1>4 DEF ListOf
      <3> QED
        BY <1>1, <1>4, <3>1 DEF ListOf
    <2>2. ASSUME NEW i \in 0..count - 1
          PROVE  preNode[FromHead[i]] = IF i = 0 THEN nil ELSE FromHead[i - 1]
      <3>1. i + 1 \in 1..count /\ (i + 1 = 1 <=> i = 0) /\ (i + 1) - 1 = i
        BY <1>4
      <3>2. i # 0 => i - 1 \in 0..count - 1 /\ (i - 1) + 1 = i
        BY <1>4
      <3>3. preNode[s[i + 1]] = IF i = 0 THEN nil ELSE s[i]
        BY <1>1, <3>1 DEF ListOf
      <3> QED
        BY <1>2, <3>2, <3>3
    <2>3. count > 0 => cacheTail = FromHead[count - 1]
      <3>1. count > 0 => count - 1 \in 0..count - 1 /\ (count - 1) + 1 = count
        BY <1>4
      <3> QED
        BY <1>1, <1>2, <3>1 DEF ListOf
    <2>4. \A k \in Keys : key2Node[k] # nil => key2Node[k] \in Listed /\ node[key2Node[k]].key = k
      BY <1>1, <1>5 DEF Table
    <2> QED
      BY <1>3, <1>4, <2>1, <2>2, <2>3, <2>4 DEF LinksAgree
  <1>7. EveryNodeIsFound
    BY <1>1, <1>5 DEF EveryNodeIsFound, Table, InTable
  <1> QED
    BY <1>6, <1>7 DEF CacheIsSound, ListIsSound, Inv

(* liblua/LRUCacheExt.lua: after any sequence of New, SetMaxSize, Set, Get,*)
(* Remove, clean and timeouts, with others using the cache while a         *)
(* removeFunc waits, both directions of the list, its length and ends and  *)
(* the table by key agree, and what leaves the cache is handed over once,  *)
(* except where Set fails or a clean comes while timeoutCheck waits.       *)
THEOREM CacheCorrect == Spec => []CacheIsSound
  <1>1. Inv => CacheIsSound
    BY SoundFollows
  <1> QED
    BY <1>1, Always, PTL
-----------------------------------------------------------------------------
(* ImplementsLRU.  A sequence without its p-th element, and one with a new *)
(* first element.                                                          *)
Cut(E, p) == SubSeq(E, 1, p - 1) \o SubSeq(E, p + 1, Len(E))

LEMMA Removed ==
  ASSUME NEW S, NEW E \in Seq(S), NEW p \in 1..Len(E), NEW R, R = Cut(E, p)
  PROVE  /\ R \in Seq(S) /\ Len(R) = Len(E) - 1
         /\ \A i \in 1..Len(E) - 1 : R[i] = IF i < p THEN E[i] ELSE E[i + 1]
  <1> DEFINE A == SubSeq(E, 1, p - 1)
             B == SubSeq(E, p + 1, Len(E))
  <1>1. Len(E) \in Nat /\ \A i \in 1..Len(E) : E[i] \in S
    BY LenProperties, ElementOfSeq
  <1>2. p \in Int /\ p - 1 \in Int /\ p + 1 \in Int /\ 1 \in Int /\ Len(E) \in Int
    BY <1>1
  <1>3. (\A i \in 1..p - 1 : E[i] \in S) /\ (\A i \in p + 1..Len(E) : E[i] \in S)
    BY <1>1
  <1>4. A \in Seq(S) /\ Len(A) = (IF 1 <= p - 1 THEN p - 1 - 1 + 1 ELSE 0)
        /\ \A i \in 1..p - 1 - 1 + 1 : A[i] = E[1 + i - 1]
    BY <1>2, <1>3, SubSeqProperties
  <1>5. B \in Seq(S) /\ Len(B) = (IF p + 1 <= Len(E) THEN Len(E) - (p + 1) + 1 ELSE 0)
        /\ \A i \in 1..Len(E) - (p + 1) + 1 : B[i] = E[p + 1 + i - 1]
    BY <1>2, <1>3, SubSeqProperties
  <1> HIDE DEF A, B
  <1>6. /\ Len(A) = p - 1 /\ Len(B) = Len(E) - p
        /\ \A i \in 1..p - 1 : A[i] = E[i]
        /\ \A i \in 1..Len(E) - p : B[i] = E[p + i]
    BY <1>1, <1>4, <1>5
  <1>7. R = A \o B
    BY DEF A, B, Cut
  <1>8. /\ R \in Seq(S) /\ Len(R) = Len(A) + Len(B)
        /\ \A i \in 1..Len(A) + Len(B) : R[i] = IF i <= Len(A) THEN A[i] ELSE B[i - Len(A)]
    <2>1. /\ A \o B \in Seq(S) /\ Len(A \o B) = Len(A) + Len(B)
          /\ \A i \in 1..Len(A) + Len(B) : (A \o B)[i] = IF i <= Len(A) THEN A[i] ELSE B[i - Len(A)]
      BY <1>4, <1>5, ConcatProperties
    <2> QED
      BY <1>7, <2>1
  <1>9. Len(A) + Len(B) = Len(E) - 1
    BY <1>1, <1>6
  <1>10. ASSUME NEW i \in 1..Len(E) - 1 PROVE R[i] = IF i < p THEN E[i] ELSE E[i + 1]
    <2>1. R[i] = IF i <= p - 1 THEN A[i] ELSE B[i - (p - 1)]
      BY <1>6, <1>8, <1>9
    <2>2. CASE i < p
      <3>1. i <= p - 1 /\ i \in 1..p - 1
        BY <1>1, <2>2
      <3> QED
        BY <1>6, <2>1, <2>2, <3>1
    <2>3. CASE ~ (i < p)
      <3>1. i - (p - 1) \in 1..Len(E) - p /\ p + (i - (p - 1)) = i + 1 /\ ~ (i <= p - 1)
        BY <1>1, <2>3
      <3>2. B[i - (p - 1)] = E[p + (i - (p - 1))]
        BY <1>6, <3>1
      <3> QED
        BY <2>1, <2>3, <3>1, <3>2
    <2> QED
      BY <2>2, <2>3
  <1> QED
    BY <1>8, <1>9, <1>10

LEMMA Consed ==
  ASSUME NEW S, NEW R \in Seq(S), NEW x \in S, NEW F \in Seq(S), Len(F) = Len(R) + 1,
         F[1] = x, \A i \in 1..Len(R) : F[i + 1] = R[i]
  PROVE  F = <<x>> \o R
  <1>1. Len(R) \in Nat /\ <<x>> \in Seq(S) /\ Len(<<x>>) = 1 /\ <<x>>[1] = x
    BY LenProperties
  <1> DEFINE G == <<x>> \o R
  <1>2. /\ G \in Seq(S) /\ Len(G) = Len(<<x>>) + Len(R)
        /\ \A i \in 1..Len(<<x>>) + Len(R) : G[i] = IF i <= Len(<<x>>) THEN <<x>>[i] ELSE R[i - Len(<<x>>)]
    BY <1>1, ConcatProperties
  <1> HIDE DEF G
  <1>3. Len(G) = Len(F) /\ \A i \in 1..Len(F) : G[i] = IF i = 1 THEN x ELSE R[i - 1]
    BY <1>1, <1>2
  <1>4. ASSUME NEW i \in 1..Len(F) PROVE F[i] = G[i]
    <2>1. i # 1 => i - 1 \in 1..Len(R) /\ (i - 1) + 1 = i
      BY <1>1
    <2> QED
      BY <1>3, <2>1
  <1>5. F = G
    BY <1>2, <1>3, <1>4, SeqEqual
  <1> QED
    BY <1>5 DEF G

(* The entries, last used first, of LRU, and those of the nodes of s.      *)
Used == [i \in 1..count |-> <<node[FromHead[i - 1]].key, node[FromHead[i - 1]].value>>]
EntriesOf(s, c, nd) == [i \in 1..c |-> <<nd[s[i]].key, nd[s[i]].value>>]
Pairs == Keys \X Values

LEMMA UsedIs ==
  ASSUME NEW s, ListOf(s, cacheHead, cacheTail, preNode, nextNode, count)
  PROVE  Used = EntriesOf(s, count, node)
  <1>1. \A i \in 0..count - 1 : FromHead[i] = s[i + 1]
    BY WalkForth, FromHeadIs
  <1>2. count \in Nat
    BY DEF ListOf
  <1>3. \A i \in 1..count : FromHead[i - 1] = s[i]
    <2>1. \A i \in 1..count : i - 1 \in 0..count - 1 /\ (i - 1) + 1 = i
      BY <1>2
    <2> QED
      BY <1>1, <2>1
  <1> QED
    BY <1>3 DEF Used, EntriesOf

LEMMA UsedNext ==
  ASSUME NEW s, ListOf(s, cacheHead', cacheTail', preNode', nextNode', count')
  PROVE  Used' = EntriesOf(s, count', node')
  <1>0. FromHead' = Walk(cacheHead', nextNode')
    BY DEF FromHead, Walk
  <1>1. \A i \in 0..count' - 1 : FromHead'[i] = s[i + 1]
    BY WalkForth, <1>0
  <1>2. count' \in Nat
    BY DEF ListOf
  <1>3. \A i \in 1..count' : FromHead'[i - 1] = s[i]
    <2>1. PICK c \in Nat : c = count'
      BY <1>2
    <2>2. \A i \in 1..c : i - 1 \in 0..c - 1 /\ (i - 1) + 1 = i
      OBVIOUS
    <2> QED
      BY <1>1, <2>1, <2>2
  <1> QED
    BY <1>3 DEF Used, EntriesOf

(* Until Set has failed the nodes of the list have different keys.         *)
ListIs(s) == /\ ListOf(s, cacheHead, cacheTail, preNode, nextNode, count)
             /\ Table(Elements(s, count)) /\ "failed" \notin spoilt

LEMMA UsedFacts ==
  ASSUME Inv, NEW s, ListIs(s)
  PROVE  /\ Used \in Seq(Pairs) /\ Len(Used) = count /\ count \in Nat
         /\ \A i, j \in 1..count : s[i] = s[j] => i = j
         /\ \A i \in 1..count : /\ Used[i] = <<node[s[i]].key, node[s[i]].value>>
                                /\ s[i] \in Made /\ key2Node[node[s[i]].key] = s[i]
                                /\ node[s[i]].key \in Keys /\ node[s[i]].value \in Values
  <1>1. /\ count \in Nat /\ \A i, j \in 1..count : s[i] = s[j] => i = j
        /\ Used = EntriesOf(s, count, node)
    BY UsedIs DEF ListIs, ListOf
  <1>2. \A i \in 1..count : s[i] \in Made /\ key2Node[node[s[i]].key] = s[i]
    BY DEF ListIs, Table, Elements
  <1>3. \A i \in 1..count : node[s[i]].key \in Keys /\ node[s[i]].value \in Values
    BY <1>2, MadeFacts DEF Inv
  <1>4. Used \in [1..count -> Pairs] /\ \A i \in 1..count : Used[i] = <<node[s[i]].key, node[s[i]].value>>
    BY <1>1, <1>3 DEF EntriesOf, Pairs
  <1>5. Used \in Seq(Pairs) /\ Len(Used) = count
    BY <1>1, <1>4
  <1> QED
    BY <1>1, <1>2, <1>3, <1>4, <1>5

LEMMA WhenFound ==
  ASSUME Inv, NEW s, ListIs(s), NEW k \in Keys, NEW p \in 1..count, s[p] = key2Node[k]
  PROVE  /\ node[s[p]].key = k /\ LRU!Has(k) /\ LRU!Place(k) = p /\ LRU!ValueOf(k) = node[s[p]].value
         /\ LRU!Without(k) \in Seq(Pairs) /\ Len(LRU!Without(k)) = count - 1
         /\ \A i \in 1..count - 1 : LRU!Without(k)[i] = IF i < p THEN Used[i] ELSE Used[i + 1]
  <1>1. /\ Used \in Seq(Pairs) /\ Len(Used) = count /\ count \in Nat
        /\ \A i, j \in 1..count : s[i] = s[j] => i = j
        /\ \A i \in 1..count : /\ Used[i] = <<node[s[i]].key, node[s[i]].value>>
                               /\ s[i] \in Made /\ key2Node[node[s[i]].key] = s[i]
    BY UsedFacts
  <1>2. node[s[p]].key = k
    <2>1. key2Node[k] # nil
      BY <1>1, MadeFacts DEF Inv
    <2> QED
      BY <2>1 DEF ListIs, Table
  <1>3. \A i \in 1..count : Used[i][1] = k <=> i = p
    BY <1>1, <1>2
  <1>4. LRU!Has(k)
    BY <1>1, <1>3 DEF LRU!Has, Used
  <1>5. LRU!Place(k) = p
    <2>1. LRU!Place(k) = CHOOSE i \in 1..Len(Used) : Used[i][1] = k
      BY DEF LRU!Place, Used
    <2> QED
      BY <1>1, <1>3, <2>1
  <1>6. LRU!ValueOf(k) = node[s[p]].value
    <2>1. LRU!ValueOf(k) = Used[LRU!Place(k)][2]
      BY DEF LRU!ValueOf, Used
    <2> QED
      BY <1>1, <1>5, <2>1
  <1>7. LRU!Without(k) = Cut(Used, p)
    <2>1. LRU!Without(k) = Cut(Used, LRU!Place(k))
      BY <1>4 DEF LRU!Without, Used, Cut
    <2> QED
      BY <1>5, <2>1
  <1>8. /\ LRU!Without(k) \in Seq(Pairs) /\ Len(LRU!Without(k)) = count - 1
        /\ \A i \in 1..count - 1 : LRU!Without(k)[i] = IF i < p THEN Used[i] ELSE Used[i + 1]
    <2>1. PICK E \in Seq(Pairs) : E = Used /\ Len(E) = count
      BY <1>1
    <2>2. p \in 1..Len(E) /\ LRU!Without(k) = Cut(E, p)
      BY <1>7, <2>1
    <2>3. /\ LRU!Without(k) \in Seq(Pairs) /\ Len(LRU!Without(k)) = Len(E) - 1
          /\ \A i \in 1..Len(E) - 1 : LRU!Without(k)[i] = IF i < p THEN E[i] ELSE E[i + 1]
      BY <2>2, Removed
    <2> QED
      BY <2>1, <2>3
  <1> QED
    BY <1>2, <1>4, <1>5, <1>6, <1>8

LEMMA WhenNot ==
  ASSUME Inv, NEW s, ListIs(s), NEW k \in Keys, key2Node[k] = nil
  PROVE  ~ LRU!Has(k) /\ LRU!Without(k) = Used
  <1>1. /\ Len(Used) = count
        /\ \A i \in 1..count : Used[i] = <<node[s[i]].key, node[s[i]].value>>
                               /\ s[i] \in Made /\ key2Node[node[s[i]].key] = s[i]
    BY UsedFacts
  <1>2. nil \notin Made
    BY MadeFacts DEF Inv
  <1>3. \A i \in 1..count : Used[i][1] # k
    BY <1>1, <1>2
  <1>4. ~ LRU!Has(k)
    BY <1>1, <1>3 DEF LRU!Has, Used
  <1> QED
    BY <1>4 DEF LRU!Without, Used

(* The p-th entry comes to the front, with the value v.                    *)
LEMMA FrontRefines ==
  ASSUME Inv, NEW s, ListIs(s), NEW k \in Keys, NEW p \in 1..count, s[p] = key2Node[k],
         ListOf(Front(s, p, count), cacheHead', cacheTail', preNode', nextNode', count'),
         count' = count, NEW v \in Values, node'[s[p]].key = k, node'[s[p]].value = v,
         \A m \in Made : m # s[p] => node'[m].key = node[m].key /\ node'[m].value = node[m].value
  PROVE  Used' = <<<<k, v>>>> \o LRU!Without(k)
  <1> DEFINE u == Front(s, p, count)
             F == EntriesOf(u, count, node')
             W == LRU!Without(k)
  <1>1. /\ count \in Nat /\ count > 0
        /\ \A i, j \in 1..count : s[i] = s[j] => i = j
        /\ \A i \in 1..count : /\ Used[i] = <<node[s[i]].key, node[s[i]].value>> /\ s[i] \in Made
                               /\ node[s[i]].key \in Keys /\ node[s[i]].value \in Values
    BY UsedFacts
  <1>2. /\ W \in Seq(Pairs) /\ Len(W) = count - 1
        /\ \A i \in 1..count - 1 : W[i] = IF i < p THEN Used[i] ELSE Used[i + 1]
    BY WhenFound
  <1>3. Used' = F
    BY UsedNext
  <1>4. /\ \A i \in 1..count : u[i] = IF i = 1 THEN s[p] ELSE IF i <= p THEN s[i - 1] ELSE s[i]
        /\ F = [i \in 1..count |-> <<node'[u[i]].key, node'[u[i]].value>>]
    BY DEF Front, EntriesOf
  <1> HIDE DEF u, F, W
  <1>5. 1 \in 1..count /\ F[1] = <<k, v>> /\ <<k, v>> \in Pairs
    BY <1>1, <1>4 DEF Pairs
  <1>6. ASSUME NEW i \in 1..count - 1 PROVE i + 1 \in 1..count /\ F[i + 1] = W[i] /\ W[i] \in Pairs
    <2> DEFINE j == IF i < p THEN i ELSE i + 1
    <2>1. /\ i + 1 \in 1..count /\ i + 1 # 1 /\ (i + 1) - 1 = i /\ (i + 1 <= p <=> i < p)
          /\ j \in 1..count /\ j # p
      BY <1>1
    <2>2. u[i + 1] = s[j]
      BY <1>4, <2>1
    <2>3. W[i] = Used[j]
      BY <1>2
    <2> HIDE DEF j
    <2>4. s[j] # s[p] /\ s[j] \in Made
      BY <1>1, <2>1
    <2>5. F[i + 1] = <<node[s[j]].key, node[s[j]].value>>
      BY <1>4, <2>1, <2>2, <2>4
    <2>6. /\ Used[j] = <<node[s[j]].key, node[s[j]].value>>
          /\ node[s[j]].key \in Keys /\ node[s[j]].value \in Values
      BY <1>1, <2>1
    <2>7. W[i] = <<node[s[j]].key, node[s[j]].value>> /\ <<node[s[j]].key, node[s[j]].value>> \in Pairs
      BY <2>3, <2>6 DEF Pairs
    <2> QED
      BY <2>1, <2>5, <2>7
  <1>7. F \in Seq(Pairs) /\ Len(F) = count
    <2>1. \A i \in 1..count : F[i] \in Pairs
      <3> SUFFICES ASSUME NEW i \in 1..count, i # 1 PROVE F[i] \in Pairs
        BY <1>5
      <3>1. i - 1 \in 1..count - 1 /\ (i - 1) + 1 = i
        BY <1>1
      <3>2. F[(i - 1) + 1] \in Pairs
        BY <1>6, <3>1
      <3> QED
        BY <3>1, <3>2
    <2>2. F \in [1..count -> Pairs]
      <3>1. F = [i \in 1..count |-> F[i]]
        BY <1>4
      <3> QED
        BY <2>1, <3>1
    <2> QED
      BY <1>1, <2>2
  <1>8. F = <<<<k, v>>>> \o W
    <2>1. Len(F) = Len(W) + 1 /\ \A i \in 1..Len(W) : F[i + 1] = W[i]
      BY <1>1, <1>2, <1>6, <1>7
    <2>2. PICK x \in Pairs : x = <<k, v>>
      BY <1>5
    <2> QED
      BY <1>2, <1>5, <1>7, <2>1, <2>2, Consed
  <1> QED
    BY <1>3, <1>8 DEF W

LEMMA GetRefines ==
  ASSUME Inv, "failed" \notin spoilt, NEW k \in Keys, Get(k)
  PROVE  LRU!Get(k)
  <1>1. /\ key2Node[k] # nil /\ PushFront(key2Node[k]) /\ lastUsed' = k
        /\ UNCHANGED <<maxSize, count, node>>
    BY DEF Get
  <1>2. PICK s : ListIs(s) /\ \E p \in 1..count : s[p] = key2Node[k]
    BY <1>1, PlaceOf DEF ListIs
  <1>3. PICK p \in 1..count : s[p] = key2Node[k]
    BY <1>2
  <1>4. ListOf(Front(s, p, count), cacheHead', cacheTail', preNode', nextNode', count')
    BY <1>1, <1>2, <1>3, PushFrontMoves DEF ListIs, LinkedAs
  <1>5. node[s[p]].key = k /\ LRU!Has(k) /\ LRU!ValueOf(k) = node[s[p]].value
    BY <1>2, <1>3, WhenFound
  <1>6. PICK v \in Values : v = node[s[p]].value
    BY <1>2, UsedFacts
  <1>7. Used' = <<<<k, v>>>> \o LRU!Without(k)
    BY <1>1, <1>2, <1>3, <1>4, <1>5, <1>6, FrontRefines
  <1>8. Used' = <<<<k, LRU!ValueOf(k)>>>> \o LRU!Without(k)
    BY <1>5, <1>6, <1>7
  <1> QED
    BY <1>1, <1>5, <1>8 DEF LRU!Get, Used

LEMMA SetOldRefines ==
  ASSUME Inv, "failed" \notin spoilt, NEW k \in Keys, NEW v \in Values, NEW room \in 0..1,
         maxSize >= 1, SetOld(k, v, maxSize + room)
  PROVE  LRU!Set(k, v, room)
  <1>1. /\ key2Node[k] # nil /\ PushFront(key2Node[k]) /\ lastUsed' = k /\ maxSize' = maxSize + room
        /\ count' = count /\ node' = [node EXCEPT ![key2Node[k]].value = v]
    BY DEF SetOld
  <1>2. PICK s : ListIs(s) /\ \E p \in 1..count : s[p] = key2Node[k]
    BY <1>1, PlaceOf DEF ListIs
  <1>3. PICK p \in 1..count : s[p] = key2Node[k]
    BY <1>2
  <1>4. ListOf(Front(s, p, count), cacheHead', cacheTail', preNode', nextNode', count')
    BY <1>1, <1>2, <1>3, PushFrontMoves DEF ListIs, LinkedAs
  <1>5. node[s[p]].key = k /\ LRU!Has(k) /\ s[p] \in Made
    BY <1>2, <1>3, WhenFound, UsedFacts
  <1>6. /\ node'[s[p]].key = k /\ node'[s[p]].value = v
        /\ \A m \in Made : m # s[p] => node'[m].key = node[m].key /\ node'[m].value = node[m].value
    <2>1. node \in Seq([key : Keys, value : Values, time : Nat])
      BY DEF Inv, TypeOK
    <2>2. node \in [Made -> [key : Keys, value : Values, time : Nat]]
      BY <2>1, LenProperties DEF Made
    <2>3. node' = [node EXCEPT ![s[p]] = [node[s[p]] EXCEPT !.value = v]]
      BY <1>1, <1>3
    <2>4. node[s[p]] \in [key : Keys, value : Values, time : Nat]
      BY <1>5, <2>2
    <2>5. /\ [node[s[p]] EXCEPT !.value = v].key = node[s[p]].key
          /\ [node[s[p]] EXCEPT !.value = v].value = v
      BY <2>4
    <2>6. \A m \in Made : node'[m] = IF m = s[p] THEN [node[s[p]] EXCEPT !.value = v] ELSE node[m]
      BY <2>2, <2>3
    <2>7. node'[s[p]] = [node[s[p]] EXCEPT !.value = v] /\ \A m \in Made : m # s[p] => node'[m] = node[m]
      BY <1>5, <2>6
    <2>8. node'[s[p]].key = node[s[p]].key /\ node'[s[p]].value = v
      BY <2>5, <2>7
    <2> QED
      BY <1>5, <2>7, <2>8
  <1>7. Used' = <<<<k, v>>>> \o LRU!Without(k)
    BY <1>1, <1>2, <1>3, <1>4, <1>6, FrontRefines
  <1> QED
    BY <1>1, <1>5, <1>7 DEF LRU!Set, Used

LEMMA SetNewRefines ==
  ASSUME Inv, "failed" \notin spoilt, NEW k \in Keys, NEW v \in Values, NEW room \in 0..1,
         maxSize >= 1, SetNew(k, v, maxSize + room)
  PROVE  LRU!Set(k, v, room)
  <1> DEFINE max == maxSize + room
             n == Len(node) + 1
             e == Excess(max)
             d == count - e
             R == IF Len(Used) < max THEN Used ELSE SubSeq(Used, 1, max - 1)
  <1>1. /\ key2Node[k] = nil /\ maxSize' = max /\ lastUsed' = k
        /\ node' = Append(node, [key |-> k, value |-> v, time |-> now]) /\ count' = count - e + 1
    BY DEF SetNew, Insert
  <1>2. maxSize \in Nat /\ count \in Nat /\ max \in Nat /\ max > 0
    BY DEF Inv, TypeOK
  <1>3. PICK s : ListIs(s)
    BY DEF Inv, Chain, ListIs
  <1>4. /\ Used \in Seq(Pairs) /\ Len(Used) = count
        /\ \A i \in 1..count : /\ Used[i] = <<node[s[i]].key, node[s[i]].value>> /\ s[i] \in Made
                               /\ node[s[i]].key \in Keys /\ node[s[i]].value \in Values
    BY <1>3, UsedFacts
  <1>5. ~ LRU!Has(k) /\ LRU!Without(k) = Used
    BY <1>1, <1>3, WhenNot
  <1>6. e \in 0..count /\ d \in 0..count /\ d \in Nat /\ d = IF count < max THEN count ELSE max - 1
    BY <1>2 DEF Excess
  <1>7. ListOf(Before(n, s, d), cacheHead', cacheTail', preNode', nextNode', count')
    BY <1>2, <1>3, InsertMoves DEF ListIs, LinkedAs
  <1>8. count' = d + 1
    BY <1>1
  <1> HIDE DEF e, d, max
  <1>9. R \in Seq(Pairs) /\ Len(R) = d /\ \A i \in 1..d : R[i] = Used[i]
    <2>1. CASE count < max
      BY <1>4, <1>6, <2>1
    <2>2. CASE ~ (count < max)
      <3>1. 1 \in Int /\ max - 1 \in Int /\ \A i \in 1..max - 1 : i \in 1..count /\ Used[i] \in Pairs
        BY <1>2, <1>4, <2>2 DEF Pairs
      <3>2. /\ SubSeq(Used, 1, max - 1) \in Seq(Pairs)
            /\ Len(SubSeq(Used, 1, max - 1)) = IF 1 <= max - 1 THEN max - 1 - 1 + 1 ELSE 0
            /\ \A i \in 1..max - 1 - 1 + 1 : SubSeq(Used, 1, max - 1)[i] = Used[1 + i - 1]
        BY <3>1, SubSeqProperties
      <3>3. R = SubSeq(Used, 1, max - 1)
        BY <1>4, <2>2
      <3> HIDE DEF R
      <3>4. R \in Seq(Pairs) /\ Len(R) = IF 1 <= max - 1 THEN max - 1 - 1 + 1 ELSE 0
        BY <3>2, <3>3
      <3>5. \A i \in 1..max - 1 - 1 + 1 : R[i] = Used[1 + i - 1]
        BY <3>2, <3>3
      <3>6. d = max - 1 /\ max - 1 - 1 + 1 = max - 1 /\ \A i \in 1..max - 1 : 1 + i - 1 = i
        BY <1>2, <1>6, <2>2
      <3> QED
        BY <1>2, <3>4, <3>5, <3>6
    <2> QED
      BY <2>1, <2>2
  <1> DEFINE u == Before(n, s, d)
             F == EntriesOf(u, d + 1, node')
  <1>10. Used' = F
    BY <1>7, <1>8, UsedNext
  <1>11. /\ \A i \in 1..d + 1 : u[i] = IF i = 1 THEN n ELSE s[i - 1]
         /\ F = [i \in 1..d + 1 |-> <<node'[u[i]].key, node'[u[i]].value>>]
    BY DEF Before, EntriesOf
  <1>12. /\ \A m \in Made : node'[m] = node[m]
         /\ node'[n].key = k /\ node'[n].value = v
    <2>1. PICK r : r = [key |-> k, value |-> v, time |-> now]
      OBVIOUS
    <2>2. /\ node \in Seq([key : Keys, value : Values, time : Nat]) /\ node' = Append(node, r)
          /\ r \in [key : Keys, value : Values, time : Nat] /\ r.key = k /\ r.value = v
      BY <1>1, <2>1 DEF Inv, TypeOK
    <2>3. (\A m \in 1..Len(node) : node'[m] = node[m]) /\ node'[Len(node) + 1] = r
      BY <2>2, AppendProperties
    <2> QED
      BY <2>2, <2>3 DEF Made
  <1> HIDE DEF u, F, R, n
  <1>13. 1 \in 1..d + 1 /\ F[1] = <<k, v>> /\ <<k, v>> \in Pairs
    BY <1>6, <1>11, <1>12 DEF Pairs
  <1>14. ASSUME NEW i \in 1..d PROVE i + 1 \in 1..d + 1 /\ F[i + 1] = R[i] /\ R[i] \in Pairs
    <2>1. i + 1 \in 1..d + 1 /\ i + 1 # 1 /\ (i + 1) - 1 = i /\ i \in 1..count
      BY <1>6
    <2>2. u[i + 1] = s[i] /\ s[i] \in Made
      BY <1>4, <1>11, <2>1
    <2>3. F[i + 1] = <<node[s[i]].key, node[s[i]].value>>
      BY <1>11, <1>12, <2>1, <2>2
    <2> QED
      BY <1>4, <1>9, <2>1, <2>3 DEF Pairs
  <1>15. F \in Seq(Pairs) /\ Len(F) = d + 1
    <2>1. \A i \in 1..d + 1 : F[i] \in Pairs
      <3> SUFFICES ASSUME NEW i \in 1..d + 1, i # 1 PROVE F[i] \in Pairs
        BY <1>13
      <3>1. i - 1 \in 1..d /\ (i - 1) + 1 = i
        BY <1>6
      <3>2. F[(i - 1) + 1] \in Pairs
        BY <1>14, <3>1
      <3> QED
        BY <3>1, <3>2
    <2>2. d + 1 \in Nat
      BY <1>6
    <2>3. F = [i \in 1..d + 1 |-> F[i]]
      BY <1>11
    <2>4. F \in [1..d + 1 -> Pairs]
      BY <2>1, <2>3
    <2> QED
      BY <2>2, <2>4
  <1>16. F = <<<<k, v>>>> \o R
    <2>1. Len(F) = Len(R) + 1 /\ \A i \in 1..Len(R) : F[i + 1] = R[i]
      BY <1>9, <1>14, <1>15
    <2>2. PICK x \in Pairs : x = <<k, v>>
      BY <1>13
    <2> QED
      BY <1>9, <1>13, <1>15, <2>1, <2>2, Consed
  <1>17. Used' = <<<<k, v>>>> \o (IF Len(LRU!Without(k)) < maxSize' THEN LRU!Without(k)
                                 ELSE SubSeq(LRU!Without(k), 1, maxSize' - 1))
    BY <1>1, <1>5, <1>10, <1>16 DEF R
  <1> QED
    BY <1>1, <1>5, <1>17 DEF LRU!Set, Used, max

LEMMA UnlinkRefines ==
  ASSUME Inv, "failed" \notin spoilt, NEW k \in Keys, Unlink(k), UNCHANGED <<maxSize, lastUsed>>
  PROVE  LRU!Leaves(k)
  <1>1. key2Node[k] # nil /\ node' = node /\ count' = count - 1
    BY DEF Unlink
  <1>2. PICK s : ListIs(s) /\ \E p \in 1..count : s[p] = key2Node[k]
    BY <1>1, PlaceOf DEF ListIs
  <1>3. PICK p \in 1..count : s[p] = key2Node[k]
    BY <1>2
  <1>4. ListOf(Less(s, p, count), cacheHead', cacheTail', preNode', nextNode', count')
    BY <1>2, <1>3, UnlinkMoves DEF ListIs, LinkedAs
  <1> DEFINE u == Less(s, p, count)
             F == EntriesOf(u, count - 1, node)
             W == LRU!Without(k)
  <1>5. Used' = F
    BY <1>1, <1>4, UsedNext
  <1>6. /\ W \in Seq(Pairs) /\ Len(W) = count - 1
        /\ \A i \in 1..count - 1 : W[i] = IF i < p THEN Used[i] ELSE Used[i + 1]
    BY <1>2, <1>3, WhenFound
  <1>7. /\ count \in Nat /\ count > 0
        /\ \A i \in 1..count : /\ Used[i] = <<node[s[i]].key, node[s[i]].value>>
                               /\ node[s[i]].key \in Keys /\ node[s[i]].value \in Values
    BY <1>2, UsedFacts
  <1>8. /\ \A i \in 1..count - 1 : u[i] = IF i < p THEN s[i] ELSE s[i + 1]
        /\ F = [i \in 1..count - 1 |-> <<node[u[i]].key, node[u[i]].value>>]
    BY DEF Less, EntriesOf
  <1> HIDE DEF u, F, W
  <1>9. ASSUME NEW i \in 1..count - 1 PROVE F[i] = W[i] /\ F[i] \in Pairs
    <2>1. i \in 1..count /\ i + 1 \in 1..count
      BY <1>7
    <2> QED
      BY <1>6, <1>7, <1>8, <2>1 DEF Pairs
  <1>10. F \in Seq(Pairs) /\ Len(F) = count - 1
    <2>1. F \in [1..count - 1 -> Pairs] /\ count - 1 \in Nat
      BY <1>7, <1>8, <1>9
    <2> QED
      BY <2>1
  <1>11. F = W
    BY <1>6, <1>9, <1>10, SeqEqual
  <1> QED
    BY <1>5, <1>11 DEF LRU!Leaves, Used, W

(* Every step is a step of LRUSpec, or none, or Set fails or has failed.   *)
LEMMA Refines ==
  ASSUME Inv, [Next]_vars, "failed" \notin spoilt'
  PROVE  LRU!Next \/ UNCHANGED LRU!vars
  <1>1. maxSize \in Nat
    BY DEF Inv, TypeOK
  <1>2. ASSUME UNCHANGED <<maxSize, links, lastUsed>> PROVE UNCHANGED LRU!vars
    <2>1. Used' = Used
      BY <1>2 DEF Used, FromHead, links
    <2> QED
      BY <1>2, <2>1 DEF LRU!vars, Used
  <1>3. ASSUME NEW k \in Keys, "failed" \notin spoilt, Unlink(k), UNCHANGED <<maxSize, lastUsed>>
        PROVE  LRU!Next
    BY <1>3, UnlinkRefines DEF LRU!Next
  <1>4. ASSUME NEW m \in Sizes, SetMaxSize(m) PROVE LRU!Next
    <2>1. UNCHANGED <<links, lastUsed>> /\ maxSize' \in Nat
      BY <1>4, SizesAssumption DEF SetMaxSize, history
    <2>2. Used' = Used
      BY <2>1 DEF Used, FromHead, links
    <2> QED
      BY <2>1, <2>2 DEF LRU!Next, LRU!SetMaxSize, Used
  <1>5. ASSUME NEW k \in Keys, Get(k) PROVE LRU!Next
    <2>1. "failed" \notin spoilt
      BY <1>5 DEF Get
    <2> QED
      BY <1>5, <2>1, GetRefines DEF LRU!Next
  <1>6. ASSUME NEW k \in Keys, Remove(k) PROVE LRU!Next
    BY <1>3, <1>6 DEF Remove
  <1>7. ASSUME NEW k \in Keys, timeoutCheck(k) PROVE LRU!Next
    BY <1>3, <1>7 DEF timeoutCheck
  <1>8. ASSUME NEW k \in Keys, removeExpired(k) PROVE LRU!Next \/ UNCHANGED LRU!vars
    <2>1. UNCHANGED <<maxSize, lastUsed, spoilt>> /\ (Unlink(k) \/ UNCHANGED links)
      BY <1>8 DEF removeExpired
    <2> QED
      BY <1>2, <1>3, <2>1
  <1>9. ASSUME NEW k \in Keys, NEW v \in Values, NEW force \in BOOLEAN, Set(k, v, force) PROVE LRU!Next
    <2>1. PICK room \in 0..1 :
            /\ maxSize >= 1
            /\ SetOld(k, v, maxSize + room) \/ SetNew(k, v, maxSize + room) \/ SetFails(k, maxSize + room)
      <3>1. CASE force
        <4>1. maxSize >= 1 /\ (SetOld(k, v, maxSize + 1) \/ SetNew(k, v, maxSize + 1) \/ SetFails(k, maxSize + 1))
          BY <1>9, <3>1 DEF Set
        <4> QED
          BY <4>1
      <3>2. CASE ~ force
        <4>1. maxSize >= 1 /\ (SetOld(k, v, maxSize) \/ SetNew(k, v, maxSize) \/ SetFails(k, maxSize))
          BY <1>9, <3>2 DEF Set
        <4>2. maxSize + 0 = maxSize
          BY <1>1
        <4> QED
          BY <4>1, <4>2
      <3> QED
        BY <3>1, <3>2
    <2>2. ~ SetFails(k, maxSize + room)
      BY DEF SetFails
    <2>3. "failed" \notin spoilt
      BY <2>1, <2>2 DEF SetOld, SetNew
    <2>4. LRU!Set(k, v, room)
      BY <2>1, <2>2, <2>3, SetOldRefines, SetNewRefines
    <2> QED
      BY <2>4 DEF LRU!Next
  <1>10. ASSUME NEW n \in calls, executeRemoveFunc(n) PROVE UNCHANGED LRU!vars
    BY <1>2, <1>10 DEF executeRemoveFunc
  <1>11. ASSUME clean PROVE LRU!Next
    <2>1. count' = 0 /\ UNCHANGED <<maxSize, lastUsed>>
      BY <1>11 DEF clean
    <2>2. Used' = <<>>
      BY <2>1 DEF Used
    <2> QED
      BY <2>1, <2>2 DEF LRU!Next, LRU!Clean, Used
  <1>12. ASSUME Tick PROVE UNCHANGED LRU!vars
    BY <1>2, <1>12 DEF Tick, history
  <1>13. ASSUME UNCHANGED vars PROVE UNCHANGED LRU!vars
    BY <1>2, <1>13 DEF vars, history
  <1> QED
    BY <1>4, <1>5, <1>6, <1>7, <1>8, <1>9, <1>10, <1>11, <1>12, <1>13 DEF Next

(* liblua/LRUCacheExt.lua: SetMaxSize, Set, Get, Remove, clean and the     *)
(* timeouts do to the order of use what LRUSpec says, and Set pushes out   *)
(* the entries not used for longest, until it fails.                       *)
THEOREM Refinement == Spec => ImplementsLRU
  <1>1. Init => LRU!Init
    <2>1. Init => Used = <<>> /\ maxSize \in Nat /\ lastUsed = nil
      BY SizesAssumption DEF Init, Used
    <2> QED
      BY <2>1 DEF LRU!Init, Used
  <1>2. Inv /\ [Next]_vars => [LRU!Next \/ "failed" \in spoilt']_(LRU!vars)
    BY Refines
  <1> QED
    BY <1>1, <1>2, Always, PTL DEF Spec, ImplementsLRU

-----------------------------------------------------------------------------
(* DataLog.  The ids grow with the clock that only goes forward.           *)

Stamp == Nat \X Nat
Earlier(id, t, i) == id[1] < t \/ (id[1] = t /\ id[2] <= i)

DLTypes ==
  /\ period \in DL!Periods /\ second \in Nat
  /\ file_map \in [DL!FileNames -> {"open", "closed", nil}]
  /\ module_map \in [Kinds -> DL!FileNames \cup {nil}]
  /\ written \in Seq(Stamp) /\ disk \in [DL!FileNames -> Seq(Stamp)]
  /\ dlSpoilt \in BOOLEAN

(* Every id so far is the last one or was before it, and the last one is   *)
(* not of the future.                                                      *)
IdsInv ==
  /\ index \in Nat
  /\ written # <<>> => lastTime \in Nat /\ lastTime <= second
  /\ \A j \in 1..Len(written) : Earlier(written[j], lastTime, index)
  /\ \A i, j \in 1..Len(written) : written[i] = written[j] => i = j

(* Until the clock of the machine is set back, or close gives up, a closed *)
(* file is of an earlier period, so that nothing is written to it.         *)
FilesInv ==
  ~ dlSpoilt =>
    /\ DL!NoWriteIsLost
    /\ \A f \in DL!FileNames : file_map[f] # nil => f[2] <= period
    /\ \A f \in DL!FileNames : file_map[f] = "closed" => f[2] < period

DLInv == DLTypes /\ IdsInv /\ FilesInv

(* One more message and its id.                                            *)
LEMMA OneMore ==
  ASSUME NEW S, NEW s \in Seq(S), NEW e \in S
  PROVE /\ Append(s, e) \in Seq(S)
        /\ DL!ToSet(Append(s, e)) = DL!ToSet(s) \cup {e}
        /\ Len(s) \in Nat /\ Len(Append(s, e)) = Len(s) + 1
        /\ \A i \in 1..Len(s) : Append(s, e)[i] = s[i]
        /\ Append(s, e)[Len(s) + 1] = e
  <1>1. /\ Append(s, e) \in Seq(S)
        /\ Len(s) \in Nat /\ Len(Append(s, e)) = Len(s) + 1
        /\ \A i \in 1..Len(s) : Append(s, e)[i] = s[i]
        /\ Append(s, e)[Len(s) + 1] = e
    BY AppendProperties, LenProperties
  <1>2. DOMAIN s = 1..Len(s) /\ DOMAIN Append(s, e) = 1..Len(s) + 1
    BY <1>1, LenProperties
  <1>3. 1..Len(s) + 1 = (1..Len(s)) \cup {Len(s) + 1}
    BY <1>1
  <1>4. DL!ToSet(Append(s, e)) = {Append(s, e)[i] : i \in (1..Len(s)) \cup {Len(s) + 1}}
    BY <1>2, <1>3 DEF DL!ToSet
  <1>5. DL!ToSet(s) = {s[i] : i \in 1..Len(s)}
    BY <1>2 DEF DL!ToSet
  <1>6. DL!ToSet(Append(s, e)) = DL!ToSet(s) \cup {e}
    BY <1>1, <1>4, <1>5
  <1> QED
    BY <1>1, <1>6

LEMMA DLInit ==
  ASSUME DLAssumption, DL!Init
  PROVE DLInv
  <1>1. MaxPeriod \in Nat /\ 1 \in DL!Periods
    BY DEF DLAssumption, DL!TimeAssumption, DL!Periods
  <1>2. Len(written) = 0 /\ DL!ToSet(<<>>) = {} /\ written = <<>>
    BY DEF DL!Init, DL!ToSet
  <1>3. DLTypes
    BY <1>1, EmptySeq DEF DLTypes, DL!Init
  <1>4. IdsInv
    BY <1>2 DEF IdsInv, DL!Init
  <1>5. FilesInv
    <2>1. DL!OpenFiles = {}
      BY DEF DL!Init, DL!OpenFiles, DLAssumption, DL!nilAssumption
    <2>2. UNION {DL!ToSet(disk[f]) : f \in DL!FileNames} = {}
      BY <1>2 DEF DL!Init
    <2>3. DL!NoWriteIsLost
      BY <1>2, <2>1, <2>2 DEF DL!NoWriteIsLost, DL!Init
    <2>4. \A f \in DL!FileNames : file_map[f] = nil /\ nil # "closed"
      BY DEF DL!Init, DLAssumption, DL!nilAssumption
    <2> QED
      BY <2>3, <2>4 DEF FilesInv
  <1> QED
    BY <1>3, <1>4, <1>5 DEF DLInv

(* The next id is later than all before.                                   *)
LEMMA NewId ==
  ASSUME DLTypes, IdsInv, DL!getAiid, second' = second
  PROVE /\ lastTime' \in Nat /\ lastTime' = second /\ index' \in Nat
        /\ DL!Id \in Stamp
        /\ \A j \in 1..Len(written) : Earlier(written[j], lastTime', index') /\ written[j] # DL!Id
  <1>1. lastTime' = second /\ second \in Nat /\ index' \in Nat
    BY DEF DL!getAiid, DLTypes, IdsInv
  <1>2. ASSUME NEW j \in 1..Len(written)
        PROVE Earlier(written[j], lastTime', index') /\ written[j] # DL!Id
    <2>1. written # <<>> /\ written[j] \in Stamp
      BY ElementOfSeq DEF DLTypes
    <2>2. lastTime \in Nat /\ lastTime <= second /\ Earlier(written[j], lastTime, index)
      BY <2>1 DEF IdsInv
    <2>3. written[j][1] \in Nat /\ written[j][2] \in Nat /\ index \in Nat
      BY <2>1 DEF Stamp, IdsInv
    <2>4. CASE lastTime = second
      <3>1. index' = index + 1
        BY <2>4 DEF DL!getAiid
      <3> QED
        BY <1>1, <2>2, <2>3, <2>4, <3>1 DEF Earlier, DL!Id
    <2>5. CASE lastTime < second
      BY <1>1, <2>2, <2>3, <2>5 DEF Earlier, DL!Id
    <2> QED
      BY <1>1, <2>2, <2>4, <2>5
  <1> QED
    BY <1>1, <1>2 DEF Stamp, DL!Id

(* A message that comes to its write, and one that does not, keep the ids  *)
(* in order.                                                               *)
LEMMA IdsAfter ==
  ASSUME DLTypes, IdsInv, DL!getAiid, second' = second,
         written' = written \/ written' = Append(written, DL!Id)
  PROVE written' \in Seq(Stamp) /\ IdsInv'
  <1>1. /\ lastTime' \in Nat /\ lastTime' <= second' /\ index' \in Nat
        /\ DL!Id \in Stamp /\ DL!Id = <<lastTime', index'>>
        /\ \A j \in 1..Len(written) : Earlier(written[j], lastTime', index') /\ written[j] # DL!Id
    <2>1. second \in Nat
      BY DEF DLTypes
    <2> QED
      BY <2>1, NewId DEF DL!Id
  <1>2. CASE written' = written
    BY <1>1, <1>2 DEF IdsInv, DLTypes
  <1>3. CASE written' = Append(written, DL!Id)
    <2>1. /\ written' \in Seq(Stamp) /\ Len(written) \in Nat /\ Len(written') = Len(written) + 1
          /\ \A i \in 1..Len(written) : written'[i] = written[i]
          /\ written'[Len(written) + 1] = DL!Id
      BY <1>1, <1>3, OneMore DEF DLTypes
    <2>2. \A i \in 1..Len(written') : i = Len(written) + 1 \/ i \in 1..Len(written)
      BY <2>1
    <2>3. Earlier(DL!Id, lastTime', index')
      BY <1>1 DEF Earlier
    <2>4. \A j \in 1..Len(written') : Earlier(written'[j], lastTime', index')
      BY <1>1, <2>1, <2>2, <2>3
    <2>5. \A i, j \in 1..Len(written') : written'[i] = written'[j] => i = j
      BY <1>1, <2>1, <2>2 DEF IdsInv
    <2> QED
      BY <1>1, <2>1, <2>4, <2>5 DEF IdsInv
  <1> QED
    BY <1>2, <1>3

(* What is written to an open file is among what was taken, and nothing    *)
(* else.                                                                   *)
LEMMA Written ==
  ASSUME DLTypes, NEW f \in DL!FileNames, NEW e \in Stamp,
         disk' = [disk EXCEPT ![f] = Append(@, e)]
  PROVE /\ disk' \in [DL!FileNames -> Seq(Stamp)]
        /\ UNION {DL!ToSet(disk'[g]) : g \in DL!FileNames}
             = (UNION {DL!ToSet(disk[g]) : g \in DL!FileNames}) \cup {e}
  <1>1. disk[f] \in Seq(Stamp)
    BY DEF DLTypes
  <1>2. /\ disk'[f] = Append(disk[f], e) /\ Append(disk[f], e) \in Seq(Stamp)
        /\ DL!ToSet(Append(disk[f], e)) = DL!ToSet(disk[f]) \cup {e}
    BY <1>1, OneMore DEF DLTypes
  <1>3. \A g \in DL!FileNames : g # f => disk'[g] = disk[g]
    BY DEF DLTypes
  <1>4. disk' \in [DL!FileNames -> Seq(Stamp)]
    BY <1>2 DEF DLTypes
  <1>5. DL!ToSet(disk'[f]) = DL!ToSet(disk[f]) \cup {e}
    BY <1>2
  <1>6. ASSUME NEW x
        PROVE (\E g \in DL!FileNames : x \in DL!ToSet(disk'[g]))
                <=> (\E g \in DL!FileNames : x \in DL!ToSet(disk[g])) \/ x = e
    BY <1>3, <1>5
  <1>7. \A x : x \in UNION {DL!ToSet(disk'[g]) : g \in DL!FileNames}
               <=> x \in (UNION {DL!ToSet(disk[g]) : g \in DL!FileNames}) \cup {e}
    BY <1>6
  <1> QED
    BY <1>4, <1>7

(* A message of kind k, when its file is open or it is not written.        *)
LEMMA WriteStep ==
  ASSUME DLInv, NEW k \in Kinds, DL!getAiid, UNCHANGED <<period, second, dlSpoilt>>,
         file_map' \in [DL!FileNames -> {"open", "closed", nil}],
         module_map' \in [Kinds -> DL!FileNames \cup {nil}],
         DL!Write(<<k, period>>), ~ dlSpoilt => file_map'[<<k, period>>] = "open"
  PROVE /\ DLTypes' /\ IdsInv'
        /\ ~ dlSpoilt => (DL!ToSet(written) = UNION {DL!ToSet(disk[f]) : f \in DL!FileNames}
             => DL!ToSet(written') = UNION {DL!ToSet(disk'[f]) : f \in DL!FileNames})
  <1> DEFINE f0 == <<k, period>>
  <1>1. f0 \in DL!FileNames
    BY DEF DL!FileNames, DLInv, DLTypes
  <1>2. DL!Id \in Stamp
    BY NewId DEF DLInv
  <1>3. written' = written \/ written' = Append(written, DL!Id)
    BY DEF DL!Write
  <1>4. written' \in Seq(Stamp) /\ IdsInv'
    BY <1>3, IdsAfter DEF DLInv
  <1>5. disk' = disk \/ disk' = [disk EXCEPT ![f0] = Append(@, DL!Id)]
    BY DEF DL!Write
  <1>6. disk' \in [DL!FileNames -> Seq(Stamp)]
    BY <1>1, <1>2, <1>5, Written DEF DLInv, DLTypes
  <1>7. DLTypes'
    BY <1>4, <1>6 DEF DLInv, DLTypes
  <1>8. ASSUME ~ dlSpoilt, DL!ToSet(written) = UNION {DL!ToSet(disk[f]) : f \in DL!FileNames}
        PROVE DL!ToSet(written') = UNION {DL!ToSet(disk'[f]) : f \in DL!FileNames}
    <2>1. CASE UNCHANGED <<disk, written>>
      BY <1>8, <2>1
    <2>2. CASE written' = Append(written, DL!Id) /\ disk' = [disk EXCEPT ![f0] = Append(@, DL!Id)]
      <3>1. DL!ToSet(written') = DL!ToSet(written) \cup {DL!Id}
        BY <1>2, <2>2, OneMore DEF DLInv, DLTypes
      <3>2. UNION {DL!ToSet(disk'[g]) : g \in DL!FileNames}
              = (UNION {DL!ToSet(disk[g]) : g \in DL!FileNames}) \cup {DL!Id}
        BY <1>1, <1>2, <2>2, Written DEF DLInv
      <3> QED
        BY <1>8, <3>1, <3>2
    <2> QED
      BY <1>8, <2>1, <2>2 DEF DL!Write
  <1> QED
    BY <1>4, <1>7, <1>8

(* writeFile, when the file is there: until something is spoilt it is      *)
(* open.                                                                   *)
LEMMA WriteFileInv ==
  ASSUME DLAssumption, DLInv, NEW k \in Kinds, DL!writeFile(k)
  PROVE DLInv'
  <1>1. <<k, period>> \in DL!FileNames /\ <<k, period>>[2] = period /\ period \in Nat
    BY DEF DL!FileNames, DLInv, DLTypes, DL!Periods, DLAssumption, DL!TimeAssumption
  <1>2. UNCHANGED <<period, second, file_map, module_map, dlSpoilt>> /\ DL!getAiid
        /\ DL!Write(<<k, period>>) /\ file_map[<<k, period>>] # nil
    BY DEF DL!writeFile, DL!clocks
  <1>3. ~ dlSpoilt => file_map[<<k, period>>] = "open"
    BY <1>1, <1>2 DEF DLInv, FilesInv, DLTypes
  <1>4. /\ DLTypes' /\ IdsInv'
        /\ ~ dlSpoilt => (DL!ToSet(written) = UNION {DL!ToSet(disk[f]) : f \in DL!FileNames}
             => DL!ToSet(written') = UNION {DL!ToSet(disk'[f]) : f \in DL!FileNames})
    BY <1>2, <1>3, WriteStep DEF DLInv, DLTypes
  <1>5. FilesInv'
    BY <1>2, <1>4 DEF DLInv, FilesInv, DL!NoWriteIsLost, DL!OpenFiles
  <1> QED
    BY <1>4, <1>5 DEF DLInv

(* A file object, or nil, for a name that has none: the old file of the    *)
(* kind is closed, and is of an earlier period until something is spoilt.  *)
LEMMA OpenFacts ==
  ASSUME DLAssumption, DLInv, NEW k \in Kinds, NEW file \in {"open", nil},
         file_map[<<k, period>>] = nil, DL!Open(k, file), period' = period
  PROVE /\ file_map' \in [DL!FileNames -> {"open", "closed", nil}]
        /\ module_map' \in [Kinds -> DL!FileNames \cup {nil}]
        /\ file_map'[<<k, period>>] = file
        /\ ~ dlSpoilt =>
             /\ \A l \in Kinds :
                  {f \in DL!FileNames : file_map'[f] = "open" /\ f[1] = l} = {module_map'[l]} \ {nil}
             /\ \A f \in DL!FileNames : file_map'[f] # nil => f[2] <= period
             /\ \A f \in DL!FileNames : file_map'[f] = "closed" => f[2] < period
  <1> DEFINE f0 == <<k, period>>
             old == module_map[k]
  <1>1. f0 \in DL!FileNames /\ f0[1] = k /\ f0[2] = period /\ period \in Nat
    BY DEF DL!FileNames, DLInv, DLTypes, DL!Periods, DLAssumption, DL!TimeAssumption
  <1>2. \A f \in DL!FileNames : f = <<f[1], f[2]>> /\ f[1] \in Kinds /\ f[2] \in Nat
    BY DEF DL!FileNames, DL!Periods, DLAssumption, DL!TimeAssumption
  <1>3. /\ nil # "open" /\ nil # "closed" /\ nil \notin DL!FileNames
    BY DEF DLAssumption, DL!nilAssumption
  <1>4. /\ file_map' = [f \in DL!FileNames |-> IF f = f0 THEN file
                                               ELSE IF f = old THEN "closed" ELSE file_map[f]]
        /\ module_map' = [module_map EXCEPT ![k] = IF file = nil THEN nil ELSE f0]
    BY DEF DL!Open
  <1>5. /\ file_map \in [DL!FileNames -> {"open", "closed", nil}]
        /\ module_map \in [Kinds -> DL!FileNames \cup {nil}]
    BY DEF DLInv, DLTypes
  <1> HIDE DEF f0, old
  <1>6. file_map' \in [DL!FileNames -> {"open", "closed", nil}] /\ file_map'[f0] = file
    BY <1>1, <1>4, <1>5
  <1>7. module_map' \in [Kinds -> DL!FileNames \cup {nil}]
        /\ module_map'[k] = (IF file = nil THEN nil ELSE f0)
        /\ \A l \in Kinds : l # k => module_map'[l] = module_map[l]
    BY <1>1, <1>4, <1>5
  <1>8. ASSUME ~ dlSpoilt
        PROVE /\ \A l \in Kinds :
                   {f \in DL!FileNames : file_map'[f] = "open" /\ f[1] = l} = {module_map'[l]} \ {nil}
              /\ \A f \in DL!FileNames : file_map'[f] # nil => f[2] <= period
              /\ \A f \in DL!FileNames : file_map'[f] = "closed" => f[2] < period
    <2>1. \A l \in Kinds : \A f \in DL!FileNames :
            file_map[f] = "open" /\ f[1] = l <=> f = module_map[l]
      <3>1. \A l \in Kinds : {f \in DL!OpenFiles : f[1] = l} = {module_map[l]} \ {nil}
        BY <1>8 DEF DLInv, FilesInv, DL!NoWriteIsLost
      <3> QED
        BY <1>3, <3>1 DEF DL!OpenFiles
    <2>2. /\ \A f \in DL!FileNames : file_map[f] # nil => f[2] <= period
          /\ \A f \in DL!FileNames : file_map[f] = "closed" => f[2] < period
      BY <1>8 DEF DLInv, FilesInv
    <2>3. old \in DL!FileNames => old # f0 /\ old[1] = k /\ file_map[old] = "open" /\ old[2] < period
      <3>1. SUFFICES ASSUME old \in DL!FileNames
                     PROVE old # f0 /\ old[1] = k /\ file_map[old] = "open" /\ old[2] < period
        OBVIOUS
      <3>2. file_map[old] = "open" /\ old[1] = k
        BY <2>1, <3>1 DEF old
      <3>3. old # f0
        BY <1>3, <3>2 DEF f0
      <3>4. old[2] <= period /\ old[2] # period /\ old[2] \in Nat
        BY <1>1, <1>2, <1>3, <2>2, <3>1, <3>2, <3>3 DEF f0
      <3> QED
        BY <1>1, <3>2, <3>3, <3>4
    <2>4. ASSUME NEW l \in Kinds, NEW f \in DL!FileNames
          PROVE file_map'[f] = "open" /\ f[1] = l <=> f = module_map'[l]
      <3>1. CASE f = f0
        <4>1. file_map'[f] = file /\ f[1] = k
          BY <1>1, <1>6, <3>1
        <4>2. CASE l = k
          BY <1>3, <1>7, <3>1, <4>1, <4>2
        <4>3. CASE l # k
          <5>1. f = module_map[l] => f[1] = l
            BY <2>1
          <5> QED
            BY <1>7, <4>1, <4>3, <5>1
        <4> QED
          BY <4>2, <4>3
      <3>2. CASE f # f0 /\ f = old
        <4>1. file_map'[f] = "closed" /\ f[1] = k
          BY <1>4, <2>3, <3>2
        <4>2. CASE l = k
          BY <1>3, <1>7, <3>2, <4>1, <4>2
        <4>3. CASE l # k
          <5>1. f = module_map[l] => f[1] = l
            BY <2>1
          <5> QED
            BY <1>7, <4>1, <4>3, <5>1
        <4> QED
          BY <4>2, <4>3
      <3>3. CASE f # f0 /\ f # old
        <4>1. file_map'[f] = file_map[f]
          BY <1>4, <3>3
        <4>2. CASE l = k
          <5>1. ~ (file_map[f] = "open" /\ f[1] = k)
            BY <2>1, <3>3 DEF old
          <5> QED
            BY <1>3, <1>7, <3>3, <4>1, <4>2, <5>1
        <4>3. CASE l # k
          BY <1>7, <2>1, <4>1, <4>3
        <4> QED
          BY <4>2, <4>3
      <3> QED
        BY <3>1, <3>2, <3>3
    <2>5. ASSUME NEW l \in Kinds
          PROVE {f \in DL!FileNames : file_map'[f] = "open" /\ f[1] = l} = {module_map'[l]} \ {nil}
      BY <1>3, <1>7, <2>4, <2>5
    <2>6. ASSUME NEW f \in DL!FileNames
          PROVE /\ file_map'[f] # nil => f[2] <= period
                /\ file_map'[f] = "closed" => f[2] < period
      <3>1. f[2] \in Nat
        BY <1>2
      <3>2. CASE f = f0
        BY <1>1, <1>3, <1>6, <3>2
      <3>3. CASE f # f0 /\ f = old
        BY <1>1, <2>3, <3>1, <3>3
      <3>4. CASE f # f0 /\ f # old
        BY <1>4, <2>2, <3>4
      <3> QED
        BY <3>2, <3>3, <3>4
    <2> QED
      BY <2>5, <2>6
  <1> QED
    BY <1>6, <1>7, <1>8 DEF f0

LEMMA WriteNewFileInv ==
  ASSUME DLAssumption, DLInv, NEW k \in Kinds, DL!writeNewFile(k)
  PROVE DLInv'
  <1>1. UNCHANGED <<period, second, dlSpoilt>> /\ DL!getAiid /\ file_map[<<k, period>>] = nil
    BY DEF DL!writeNewFile, DL!clocks
  <1>2. ASSUME NEW file \in {"open", nil}, DL!Open(k, file),
               DLTypes', IdsInv',
               ~ dlSpoilt => (DL!ToSet(written) = UNION {DL!ToSet(disk[f]) : f \in DL!FileNames}
                 => DL!ToSet(written') = UNION {DL!ToSet(disk'[f]) : f \in DL!FileNames})
        PROVE DLInv'
    <2>1. ~ dlSpoilt =>
             /\ \A l \in Kinds :
                  {f \in DL!FileNames : file_map'[f] = "open" /\ f[1] = l} = {module_map'[l]} \ {nil}
             /\ \A f \in DL!FileNames : file_map'[f] # nil => f[2] <= period
             /\ \A f \in DL!FileNames : file_map'[f] = "closed" => f[2] < period
      BY <1>1, <1>2, OpenFacts
    <2>2. \A l \in Kinds : {f \in DL!FileNames : file_map'[f] = "open" /\ f[1] = l}
                             = {f \in DL!OpenFiles' : f[1] = l}
      BY DEF DL!OpenFiles
    <2>3. ~ dlSpoilt => DL!NoWriteIsLost'
      BY <1>1, <1>2, <2>1, <2>2 DEF DLInv, FilesInv, DL!NoWriteIsLost
    <2>4. FilesInv'
      BY <1>1, <2>1, <2>3 DEF FilesInv
    <2> QED
      BY <1>2, <2>4 DEF DLInv
  <1>3. CASE DL!Open(k, "open") /\ DL!Write(<<k, period>>)
    <2>1. /\ file_map' \in [DL!FileNames -> {"open", "closed", nil}]
          /\ module_map' \in [Kinds -> DL!FileNames \cup {nil}]
          /\ file_map'[<<k, period>>] = "open"
      BY <1>1, <1>3, OpenFacts
    <2> QED
      BY <1>1, <1>2, <1>3, <2>1, WriteStep
  <1>4. CASE DL!Open(k, nil) /\ UNCHANGED <<disk, written>>
    <2>1. /\ file_map' \in [DL!FileNames -> {"open", "closed", nil}]
          /\ module_map' \in [Kinds -> DL!FileNames \cup {nil}]
      BY <1>1, <1>4, OpenFacts
    <2>2. IdsInv'
      BY <1>1, <1>4, IdsAfter DEF DLInv
    <2>3. DLTypes'
      BY <1>1, <1>4, <2>1 DEF DLInv, DLTypes
    <2> QED
      BY <1>2, <1>4, <2>2, <2>3
  <1> QED
    BY <1>3, <1>4 DEF DL!writeNewFile

(* Until something is spoilt the old file of a kind is open: it can be     *)
(* closed.                                                                 *)
LEMMA WriteFailsInv ==
  ASSUME DLAssumption, DLInv, NEW k \in Kinds, DL!writeFails(k)
  PROVE DLInv'
  <1>1. UNCHANGED <<period, second, module_map, disk, written, dlSpoilt>> /\ DL!getAiid
    BY DEF DL!writeFails, DL!clocks
  <1>2. IdsInv'
    BY <1>1, IdsAfter DEF DLInv
  <1>3. file_map' \in [DL!FileNames -> {"open", "closed", nil}]
    BY DEF DL!writeFails, DLInv, DLTypes
  <1>4. DLTypes'
    BY <1>1, <1>3 DEF DLInv, DLTypes
  <1>5. dlSpoilt
    <2>1. SUFFICES ASSUME ~ dlSpoilt PROVE FALSE
      OBVIOUS
    <2>2. module_map[k] # nil /\ file_map[module_map[k]] = "closed"
      BY DEF DL!writeFails, DL!OldIsClosed
    <2>3. {f \in DL!OpenFiles : f[1] = k} = {module_map[k]} \ {nil}
      BY <2>1 DEF DLInv, FilesInv, DL!NoWriteIsLost
    <2> QED
      BY <2>2, <2>3 DEF DL!OpenFiles
  <1> QED
    BY <1>1, <1>2, <1>4, <1>5 DEF DLInv, FilesInv

LEMMA CloseInv ==
  ASSUME DLAssumption, DLInv, DL!close
  PROVE DLInv'
  <1>1. /\ UNCHANGED <<period, second, lastTime, index, disk, written, dlSpoilt>>
        /\ file_map' = [f \in DL!FileNames |-> nil] /\ module_map' = [k \in Kinds |-> nil]
    BY DEF DL!close, DL!clocks, DL!ids
  <1>2. DLTypes' /\ IdsInv'
    BY <1>1 DEF DLInv, DLTypes, IdsInv, Earlier
  <1>3. nil # "open" /\ nil # "closed"
    BY DEF DLAssumption, DL!nilAssumption
  <1>4. DL!OpenFiles' = {}
    BY <1>1, <1>3 DEF DL!OpenFiles
  <1>5. FilesInv'
    BY <1>1, <1>3, <1>4 DEF DLInv, FilesInv, DL!NoWriteIsLost
  <1> QED
    BY <1>2, <1>5 DEF DLInv

LEMMA CloseFailsInv ==
  ASSUME DLAssumption, DLInv, DL!closeFails
  PROVE DLInv'
  <1>1. UNCHANGED <<period, second, module_map, lastTime, index, disk, written>> /\ dlSpoilt' = TRUE
    BY DEF DL!closeFails, DL!clocks, DL!ids
  <1>2. file_map' \in [DL!FileNames -> {"open", "closed", nil}]
    BY DEF DL!closeFails, DLInv, DLTypes
  <1>3. DLTypes' /\ IdsInv'
    BY <1>1, <1>2 DEF DLInv, DLTypes, IdsInv, Earlier
  <1> QED
    BY <1>1, <1>3 DEF DLInv, FilesInv

LEMMA TickInv ==
  ASSUME DLInv, DL!Tick
  PROVE DLInv'
  <1>1. UNCHANGED <<period, file_map, module_map, lastTime, index, disk, written, dlSpoilt>>
        /\ second' = second + 1
    BY DEF DL!Tick, DL!ids
  <1>2. DLTypes' /\ IdsInv'
    BY <1>1 DEF DLInv, DLTypes, IdsInv, Earlier
  <1>3. FilesInv'
    BY <1>1 DEF DLInv, FilesInv, DL!NoWriteIsLost, DL!OpenFiles
  <1> QED
    BY <1>2, <1>3 DEF DLInv

(* The clock of the machine is set: forward, or something is spoilt.       *)
LEMMA NextPeriodInv ==
  ASSUME DLAssumption, DLInv, DL!NextPeriod
  PROVE DLInv'
  <1>1. /\ UNCHANGED <<second, file_map, module_map, lastTime, index, disk, written>>
        /\ period' \in DL!Periods /\ dlSpoilt' \in BOOLEAN
        /\ ~ dlSpoilt' => ~ dlSpoilt /\ ~ (period' < period)
    BY DEF DL!NextPeriod, DL!ids, DLInv, DLTypes
  <1>2. DLTypes' /\ IdsInv'
    BY <1>1 DEF DLInv, DLTypes, IdsInv, Earlier
  <1>3. period \in Nat /\ period' \in Nat /\ \A f \in DL!FileNames : f[2] \in Nat
    BY <1>1 DEF DLInv, DLTypes, DL!Periods, DL!FileNames, DLAssumption, DL!TimeAssumption
  <1>4. FilesInv'
    <2>1. ~ dlSpoilt' => DL!NoWriteIsLost'
      BY <1>1 DEF DLInv, FilesInv, DL!NoWriteIsLost, DL!OpenFiles
    <2>2. ~ dlSpoilt' => /\ \A f \in DL!FileNames : file_map'[f] # nil => f[2] <= period'
                       /\ \A f \in DL!FileNames : file_map'[f] = "closed" => f[2] < period'
      BY <1>1, <1>3 DEF DLInv, FilesInv
    <2> QED
      BY <2>1, <2>2 DEF FilesInv
  <1> QED
    BY <1>2, <1>4 DEF DLInv

LEMMA DLNext ==
  ASSUME DLAssumption, DLInv, [DL!Next]_(DL!vars)
  PROVE DLInv'
  <1>1. CASE UNCHANGED DL!vars
    BY <1>1 DEF DL!vars, DL!clocks, DL!ids, DLInv, DLTypes, IdsInv, Earlier, FilesInv,
                DL!NoWriteIsLost, DL!OpenFiles
  <1> QED
    BY <1>1, WriteFileInv, WriteNewFileInv, WriteFailsInv, CloseInv, CloseFailsInv, TickInv,
       NextPeriodInv DEF DL!Next

(* No two messages of a data log have one id; and until the clock of the   *)
(* machine is set back, or close gives up on a file of an earlier period,  *)
(* each message is in one file, and of each kind only the last is open.    *)
THEOREM LinesCorrect ==
  ASSUME DLAssumption
  PROVE DL!Spec => []DL!LinesAreRight
  <1>1. DL!Init => DLInv
    BY DLInit
  <1>2. DLInv /\ [DL!Next]_(DL!vars) => DLInv'
    BY DLNext
  <1>3. DLInv => DL!LinesAreRight
    <2>1. ASSUME DLInv
          PROVE DL!LinesAreRight
      <3>1. DL!IdsAreUnique
        BY <2>1, LenProperties DEF DLInv, DLTypes, IdsInv, DL!IdsAreUnique, DL!IsInjective
      <3>2. DL!NoWriteIsLost
        BY <2>1 DEF DLInv, FilesInv, DL!NoWriteIsLost
      <3> QED
        BY <3>1, <3>2 DEF DL!LinesAreRight
    <2> QED
      BY <2>1
  <1> QED
    BY <1>1, <1>2, <1>3, PTL DEF DL!Spec

-----------------------------------------------------------------------------
(* AutoValue.  What DelayTimerProofs says of the timers holds of these: of *)
(* the calls of the component only addFuncReturns is more than one of      *)
(* delayTimer's own.                                                       *)

AVTypes ==
  /\ timerIndex \in AT!Timers \cup {nil} /\ nextTime \in Nat \cup {nil}
  /\ timerIndex # nil => timerIndex < auto /\ nextTime # nil
  /\ values \in Seq(Nat) /\ started \in Nat /\ avSpoilt \in BOOLEAN

(* The timer there is, and the value it is for: the next one or, during    *)
(* addFunc, the last one.                                                  *)
TheTimer ==
  ~ avSpoilt =>
    /\ \A i \in 1..Len(values) : values[i] = AV!Due(i)
    /\ \A m \in AT!Timers : nodeList[m] # nil <=> m = timerIndex
    /\ \A e \in rank : e[2] = timerIndex
    /\ running # nil => running = timerIndex /\ nextTime = AV!Due(Len(values))
    /\ running = nil /\ timerIndex # nil =>
         nextTime = AV!Due(Len(values) + 1) /\ nodeList[timerIndex].time = nextTime
    /\ timerIndex = nil /\ nextTime = nil /\ started > 0 => AV!Due(Len(values) + 1) >= endTime

AVInv == AT!Inv /\ AVTypes /\ TheTimer

(* The same definitions, reached in two ways.                              *)
LEMMA SameTimers ==
  /\ AT!Timers = AV!DT!Timers /\ (AT!ServiceRuns <=> AV!DT!ServiceRuns)
  /\ (AT!Init <=> AV!DT!Init) /\ (AT!update <=> AV!DT!update) /\ (AT!Tick <=> AV!DT!Tick)
  /\ (AT!callbackReturns <=> AV!DT!callbackReturns)
  /\ \A t : AT!delay(t, 0) <=> AV!DT!delay(t, 0)
  /\ \A t, m : AT!uniqueDelay(t, m) <=> AV!DT!uniqueDelay(t, m)
  /\ \A m : AT!removeNode(m) <=> AV!DT!removeNode(m)
  /\ \A e : AT!callback(e) <=> AV!DT!callback(e)
  <1> USE DEF AT!Timers, AV!DT!Timers, AT!ServiceRuns, AV!DT!ServiceRuns, AT!pass, AV!DT!pass,
              AT!EntriesOf, AV!DT!EntriesOf, AT!Continue, AV!DT!Continue
  <1>1. AT!Init <=> AV!DT!Init
    BY DEF AT!Init, AV!DT!Init
  <1>2. (AT!update <=> AV!DT!update) /\ (AT!Tick <=> AV!DT!Tick)
    BY DEF AT!update, AV!DT!update, AT!Tick, AV!DT!Tick, AT!Due, AV!DT!Due
  <1>3. AT!callbackReturns <=> AV!DT!callbackReturns
    BY DEF AT!callbackReturns, AV!DT!callbackReturns, AT!NextDue, AV!DT!NextDue
  <1>4. \A t : AT!delay(t, 0) <=> AV!DT!delay(t, 0)
    BY DEF AT!delay, AV!DT!delay
  <1>5. \A t, m : AT!uniqueDelay(t, m) <=> AV!DT!uniqueDelay(t, m)
    BY DEF AT!uniqueDelay, AV!DT!uniqueDelay
  <1>6. \A m : AT!removeNode(m) <=> AV!DT!removeNode(m)
    BY DEF AT!removeNode, AV!DT!removeNode
  <1>7. \A e : AT!callback(e) <=> AV!DT!callback(e)
    BY DEF AT!callback, AV!DT!callback, AT!IsNext, AV!DT!IsNext, AT!Fire, AV!DT!Fire
  <1> QED
    BY <1>1, <1>2, <1>3, <1>4, <1>5, <1>6, <1>7

LEMMA NextValue ==
  ASSUME AVAssumption, started \in Nat, NEW n \in Nat
  PROVE AV!Due(n) \in Nat /\ AV!Due(n + 1) = AV!Due(n) + cd /\ AV!Due(1) = started + cd
  <1>1. cd \in Nat
    BY DEF AVAssumption, AV!PeriodAssumption
  <1>2. n * cd \in Nat /\ (n + 1) * cd = n * cd + cd /\ 1 * cd = cd
    BY <1>1
  <1> QED
    BY <1>1, <1>2 DEF AV!Due

LEMMA AVInit == ASSUME AVAssumption, AV!Init PROVE AVInv
  <1>1. AT!Inv
    BY AT!InitInv, SameTimers DEF AV!Init, AVAssumption
  <1>2. /\ running = nil /\ rank = {} /\ nodeList = [m \in AT!Timers |-> nil] /\ values = <<>>
        /\ timerIndex = nil /\ nextTime = nil /\ started = 0 /\ avSpoilt = FALSE /\ nil \notin AT!Timers
    BY SameTimers DEF AV!Init, AT!Init, AVAssumption, AT!TimerAssumption, AT!nilAssumption
  <1>3. AVTypes
    <2>1. avSpoilt \in BOOLEAN
      BY <1>2
    <2>2. values \in Seq(Nat) /\ started \in Nat
      BY <1>2
    <2> QED
      BY <1>2, <2>1, <2>2 DEF AVTypes
  <1>4. TheTimer
    BY <1>2 DEF TheTimer
  <1> QED
    BY <1>1, <1>3, <1>4 DEF AVInv

LEMMA StartInv == ASSUME AVAssumption, AVInv, AV!start PROVE AVInv'
  <1>1. /\ timerIndex' = auto /\ nextTime' = avNow + cd /\ values' = <<>> /\ started' = avNow
        /\ avSpoilt' = (avSpoilt \/ running # nil) /\ UNCHANGED variant
        /\ avNow \in Nat /\ cd \in Nat /\ avNow + cd \in Nat /\ nil \notin Nat /\ nil \notin AT!Timers
        /\ IF timerIndex = nil THEN AT!delay(avNow + cd, 0) ELSE AT!uniqueDelay(avNow + cd, timerIndex)
    BY SameTimers
       DEF AV!start, AV!SetTimer, AVInv, AT!Inv, AT!TypeOK, AVAssumption, AV!PeriodAssumption,
           AV!nilAssumption, AT!TimerAssumption, AT!nilAssumption
  <1>2. AT!Inv'
    BY <1>1, AT!DelayInv, AT!UniqueDelayInv DEF AVInv, AVTypes, AVAssumption
  <1>3. /\ auto \in AT!Timers /\ auto \in Nat /\ auto' = auto + 1 /\ UNCHANGED <<running, rank>>
        /\ nodeList \in [AT!Timers -> AT!Node \cup {nil}] /\ AT!ServiceRuns
        /\ timerIndex # nil => timerIndex \in AT!Timers /\ timerIndex < auto
    BY <1>1 DEF AT!delay, AT!uniqueDelay, AT!Inv, AT!TypeOK, AVInv, AVTypes, AT!Timers, AT!pass
  <1>4. \A m \in AT!Timers :
          nodeList'[m] = IF m = auto THEN [time |-> avNow + cd, period |-> 0]
                         ELSE IF m = timerIndex THEN nil ELSE nodeList[m]
    <2>1. CASE timerIndex = nil
      BY <1>1, <1>3, <2>1 DEF AT!delay
    <2>2. CASE timerIndex # nil
      BY <1>1, <1>3, <2>2 DEF AT!uniqueDelay
    <2> QED
      BY <2>1, <2>2
  <1>5. [time |-> avNow + cd, period |-> 0] # nil
    BY <1>1 DEF AVAssumption, AT!TimerAssumption, AT!nilAssumption, AT!Node
  <1>6. AVTypes'
    BY <1>1, <1>3 DEF AVInv, AVTypes
  <1>7. TheTimer'
    <2> SUFFICES ASSUME ~ avSpoilt' PROVE TheTimer'
      BY DEF TheTimer
    <2>1. running = nil /\ running' = nil /\ rank' = {} /\ ~ avSpoilt
      BY <1>1, <1>3 DEF AVInv, AVTypes, AT!Inv, AT!InPass, AT!ServiceRuns
    <2>2. \A m \in AT!Timers : nodeList[m] # nil <=> m = timerIndex
      BY <2>1 DEF AVInv, TheTimer
    <2>3. \A m \in AT!Timers : nodeList'[m] # nil <=> m = timerIndex'
      BY <1>1, <1>3, <1>4, <1>5, <2>2
    <2>4. nodeList'[timerIndex'].time = nextTime'
      BY <1>1, <1>3, <1>4
    <2>5. Len(values') = 0 /\ timerIndex' # nil /\ (AV!Due(1))' = nextTime'
      <3>1. 1 * cd = cd
        BY <1>1
      <3> QED
        BY <1>1, <1>3, <3>1 DEF AV!Due
    <2> QED
      BY <2>1, <2>3, <2>4, <2>5 DEF TheTimer
  <1> QED
    BY <1>2, <1>6, <1>7 DEF AVInv

LEMMA StopInv == ASSUME AVAssumption, AVInv, AV!stop PROVE AVInv'
  <1>1. /\ timerIndex' = nil /\ avSpoilt' = (avSpoilt \/ running # nil)
        /\ UNCHANGED <<variant, nextTime, values, started>>
        /\ timerIndex \in AT!Timers /\ nextTime \in Nat /\ nil \notin Nat /\ nil \notin AT!Timers
        /\ AT!removeNode(timerIndex)
    BY SameTimers DEF AV!stop, AVInv, AVTypes, AVAssumption, AV!nilAssumption, AT!TimerAssumption,
                      AT!nilAssumption
  <1>2. AT!Inv'
    BY <1>1, AT!RemoveInv DEF AVInv, AVAssumption
  <1>3. /\ \A m \in AT!Timers : nodeList'[m] = IF m = timerIndex THEN nil ELSE nodeList[m]
        /\ UNCHANGED <<running, rank, auto>> /\ AT!ServiceRuns
    BY <1>1 DEF AT!removeNode, AVInv, AT!Inv, AT!TypeOK, AT!pass
  <1>4. AVTypes'
    BY <1>1, <1>3 DEF AVInv, AVTypes
  <1>5. TheTimer'
    <2> SUFFICES ASSUME ~ avSpoilt' PROVE TheTimer'
      BY DEF TheTimer
    <2>1. running = nil /\ rank' = {} /\ ~ avSpoilt
      BY <1>1, <1>3 DEF AVInv, AVTypes, AT!Inv, AT!InPass, AT!ServiceRuns
    <2>2. \A m \in AT!Timers : nodeList'[m] # nil <=> m = timerIndex'
      BY <1>1, <1>3, <2>1 DEF AVInv, TheTimer
    <2>3. \A i \in 1..Len(values') : values'[i] = (AV!Due(i))'
      BY <1>1, <2>1 DEF AVInv, TheTimer, AV!Due
    <2> QED
      BY <1>1, <1>3, <2>1, <2>2, <2>3 DEF TheTimer
  <1> QED
    BY <1>2, <1>4, <1>5 DEF AVInv

(* A value is added for the time its timer was due.                        *)
LEMMA AddInv == ASSUME AVAssumption, AVInv, NEW e \in rank, AV!onAddHandler(e) PROVE AVInv'
  <1>1. /\ AT!callback(e) /\ UNCHANGED <<variant, timerIndex, nextTime, started, avSpoilt>>
        /\ values' = IF running' # nil THEN Append(values, e[1]) ELSE values
    BY SameTimers DEF AV!onAddHandler
  <1>2. AT!Inv'
    BY <1>1, AT!CallbackInv DEF AVInv, AVAssumption
  <1>3. /\ UNCHANGED <<auto, nodeList>> /\ rank' = rank \ {e} /\ running = nil
        /\ \/ nodeList[e[2]] # nil /\ running' = e[2]
           \/ nodeList[e[2]] = nil /\ running' = nil
        /\ e[1] \in Nat /\ e[2] \in AT!Timers /\ nil \notin AT!Timers /\ nil \notin Nat
        /\ \A f \in rank : f[2] = e[2] => f = e
        /\ nodeList[e[2]] # nil => nodeList[e[2]].time = e[1]
    BY <1>1 DEF AT!callback, AT!Continue, AVInv, AT!Inv, AT!InPass, AT!TypeOK,
                AVAssumption, AV!nilAssumption, AT!TimerAssumption, AT!nilAssumption
  <1>4. AVTypes'
    BY <1>1, <1>3 DEF AVInv, AVTypes
  <1>5. TheTimer'
    <2> SUFFICES ASSUME ~ avSpoilt PROVE TheTimer'
      BY <1>1 DEF TheTimer
    <2>1. /\ timerIndex = e[2] /\ running' = timerIndex /\ rank' = {} /\ timerIndex # nil
          /\ values' = Append(values, e[1]) /\ e[1] = nextTime
          /\ nextTime = AV!Due(Len(values) + 1)
      BY <1>1, <1>3 DEF AVInv, TheTimer
    <2>2. /\ Len(values) \in Nat /\ Len(values') = Len(values) + 1
          /\ \A i \in 1..Len(values) : values'[i] = values[i]
          /\ values'[Len(values) + 1] = e[1]
      BY <1>3, <2>1, OneMore DEF AVInv, AVTypes
    <2>3. \A i \in Nat : (AV!Due(i))' = AV!Due(i)
      BY <1>1 DEF AV!Due
    <2>4. \A i \in 1..Len(values') : values'[i] = (AV!Due(i))'
      <3>1. \A i \in 1..Len(values) : values[i] = AV!Due(i)
        BY DEF AVInv, TheTimer
      <3> QED
        BY <2>1, <2>2, <2>3, <3>1
    <2>5. nextTime' = (AV!Due(Len(values)))'
      BY <1>1, <2>1, <2>2 DEF AV!Due
    <2>6. \A m \in AT!Timers : nodeList'[m] # nil <=> m = timerIndex'
      BY <1>1, <1>3 DEF AVInv, TheTimer
    <2> QED
      BY <1>1, <2>1, <2>4, <2>5, <2>6 DEF TheTimer
  <1> QED
    BY <1>2, <1>4, <1>5 DEF AVInv

(* The value after the last one of the pass gets a timer, and the timers   *)
(* of the pass and of a start that came meanwhile go.                      *)
LEMMA NextTimerInv ==
  ASSUME AVAssumption, AVInv, AV!addFuncReturns, nextTime # nil, nextTime + cd < endTime
  PROVE AVInv'
  <1> DEFINE due == nextTime + cd
  <1> DEFINE entry == [time |-> due, period |-> 0]
  <1> DEFINE old == {running, timerIndex} \ {nil}
  <1>0. /\ cd \in Nat /\ endTime \in Nat /\ nextTime \in Nat /\ nil \notin Nat /\ nil \notin AT!Timers
        /\ ~ (due >= endTime) /\ nil \notin AT!Node /\ AT!Timers = 1..MaxTimers /\ MaxTimers \in Nat
        /\ AT!Inv /\ AVTypes
    BY DEF AVInv, AVTypes, AVAssumption, AV!PeriodAssumption, AV!nilAssumption,
           AT!TimerAssumption, AT!BoundAssumption, AT!nilAssumption, AT!Timers
  <1>1. /\ running # nil /\ auto \in AT!Timers /\ auto' = auto + 1
        /\ nodeList' = [m \in AT!Timers |-> IF m = auto THEN entry ELSE IF m \in old THEN nil
                                            ELSE nodeList[m]]
        /\ set' = {e \in set : e[2] \notin old} \cup {<<due, auto>>}
        /\ born' = [born EXCEPT ![auto] = entry]
        /\ removed' = removed \cup ({timerIndex} \ {nil})
        /\ running' = nil /\ rank' = rank /\ armed' = (rank = {})
        /\ timerIndex' = auto /\ nextTime' = due
        /\ UNCHANGED <<avNow, forked, fired, variant, values, started, avSpoilt>>
    BY <1>0, SameTimers DEF AV!addFuncReturns, AV!DT!Continue
  <1>2. /\ entry \in AT!Node /\ entry # nil /\ entry.time = due /\ entry.period = 0
        /\ due \in Nat /\ auto \in Nat /\ nodeList[auto] = nil /\ fired[auto] = 0
        /\ auto \notin removed /\ born[auto] = nil /\ auto # nil /\ auto \notin old
        /\ running \in AT!Timers /\ running < auto /\ old \subseteq AT!Timers
        /\ \A m \in old : m < auto
        /\ variant = "inline" /\ forked = {} /\ ~ armed
    <2>1. entry \in AT!Node /\ due \in Nat /\ entry.time = due /\ entry.period = 0
      BY <1>0 DEF AT!Node
    <2>2. running \in AT!Timers /\ running < auto /\ ~ armed
      BY <1>0, <1>1 DEF AT!Inv, AT!TypeOK, AT!InPass
    <2>3. old \subseteq AT!Timers /\ \A m \in old : m < auto
      BY <1>0, <2>2 DEF AVTypes
    <2>4. /\ nodeList[auto] = nil /\ fired[auto] = 0 /\ auto \notin removed /\ born[auto] = nil
          /\ auto \in Nat
      BY <1>0, <1>1 DEF AT!Inv, AT!TypeOK, AT!Fresh
    <2>5. auto \notin old
      BY <2>3, <2>4
    <2>6. variant = "inline" /\ forked = {}
      BY <1>0 DEF AT!Inv, AT!TypeOK, AT!Forked
    <2> QED
      BY <1>0, <1>1, <2>1, <2>2, <2>3, <2>4, <2>5, <2>6
  <1> HIDE DEF entry, old, due
  <1>3. \A x \in AT!Timers :
          /\ nodeList'[x] = IF x = auto THEN entry ELSE IF x \in old THEN nil ELSE nodeList[x]
          /\ born'[x] = IF x = auto THEN entry ELSE born[x]
    BY <1>0, <1>1 DEF AT!Inv, AT!TypeOK
  <1>4. AT!TypeOK'
    <2>1. nodeList' \in [AT!Timers -> AT!Node \cup {nil}]
      BY <1>0, <1>1, <1>2, <1>3 DEF AT!Inv, AT!TypeOK
    <2>2. born' \in [AT!Timers -> AT!Node \cup {nil}]
      BY <1>0, <1>1, <1>2 DEF AT!Inv, AT!TypeOK
    <2>3. set' \subseteq Nat \X AT!Timers /\ removed' \subseteq AT!Timers
      <3>1. set \subseteq Nat \X AT!Timers /\ removed \subseteq AT!Timers
        BY <1>0 DEF AT!Inv, AT!TypeOK
      <3>2. <<due, auto>> \in Nat \X AT!Timers
        BY <1>1, <1>2
      <3>3. {timerIndex} \ {nil} \subseteq AT!Timers
        BY <1>0 DEF AVTypes
      <3> QED
        BY <1>1, <3>1, <3>2, <3>3
    <2>4. auto' \in 1..MaxTimers + 1 /\ \A m \in AT!Timers : born'[m] # nil <=> m < auto'
      BY <1>0, <1>1, <1>2, <1>3 DEF AT!Inv, AT!TypeOK
    <2> QED
      BY <1>0, <1>1, <2>1, <2>2, <2>3, <2>4 DEF AT!Inv, AT!TypeOK
  <1>5. AT!Fresh'
    BY <1>0, <1>1, <1>2, <1>3 DEF AT!Inv, AT!TypeOK, AT!Fresh, AVTypes
  <1>6. AT!Indexed'
    <2>1. \A e \in set : e[2] \in AT!Timers /\ e[2] # auto
      BY <1>0, <1>2 DEF AT!Inv, AT!TypeOK, AT!Indexed
    <2>2. \A e \in set' : nodeList'[e[2]] # nil /\ nodeList'[e[2]].time = e[1]
      BY <1>0, <1>1, <1>2, <1>3, <2>1 DEF AT!Inv, AT!Indexed
    <2>3. \A x \in AT!Timers : nodeList'[x] # nil => <<nodeList'[x].time, x>> \in set'
      BY <1>0, <1>1, <1>2, <1>3 DEF AT!Inv, AT!Indexed
    <2> QED
      BY <2>2, <2>3 DEF AT!Indexed
  <1>7. AT!Kept'
    BY <1>0, <1>1, <1>2, <1>3 DEF AT!Inv, AT!Kept, old
  <1>8. AT!InPass'
    <2>1. avNow \in Nat /\ auto \in Nat /\ \A e, f \in rank : e[2] = f[2] => e = f
      BY <1>0, <1>2 DEF AT!Inv, AT!TypeOK, AT!InPass
    <2>2. ASSUME NEW e \in rank
          PROVE /\ e[1] <= avNow /\ e[2] < auto + 1 /\ e[2] # nil
                /\ nodeList'[e[2]] # nil => nodeList'[e[2]].time = e[1]
      <3>1. e[1] \in Nat /\ e[1] <= avNow /\ e[2] < auto /\ e[2] \in AT!Timers /\ e[2] # nil
        BY <1>0 DEF AT!Inv, AT!TypeOK, AT!InPass
      <3>2. nodeList[e[2]] # nil => nodeList[e[2]].time = e[1]
        BY <1>0 DEF AT!Inv, AT!InPass
      <3>3. e[2] \in Nat /\ e[2] # auto /\ e[2] < auto + 1
        BY <1>0, <2>1, <3>1
      <3>4. nodeList'[e[2]] # nil => nodeList'[e[2]].time = e[1]
        BY <1>3, <3>1, <3>2, <3>3
      <3> QED
        BY <3>1, <3>3, <3>4
    <2> QED
      BY <1>1, <2>1, <2>2 DEF AT!InPass
  <1>9. AT!Forked'
    BY <1>1, <1>2 DEF AT!Forked
  <1>10. AT!Times'
    <2> SUFFICES ASSUME NEW x \in AT!Timers, x < auto + 1 PROVE AT!TimesOf(x)'
      BY <1>1 DEF AT!Times
    <2>1. CASE x = auto
      <3>1. born'[x] = entry /\ nodeList'[x] = entry /\ fired'[x] = 0 /\ running' # x
        BY <1>0, <1>1, <1>2, <1>3, <2>1
      <3> QED
        BY <1>2, <3>1 DEF AT!TimesOf
    <2>2. CASE x # auto
      <3>1. /\ x < auto /\ born'[x] = born[x] /\ fired'[x] = fired[x] /\ avNow' = avNow /\ running' # x
            /\ nodeList'[x] # nil => nodeList'[x] = nodeList[x] /\ running # x
        BY <1>0, <1>1, <1>2, <1>3, <2>2 DEF old
      <3> QED
        BY <1>0, <3>1 DEF AT!Inv, AT!Times, AT!TimesOf
    <2> QED
      BY <2>1, <2>2
  <1>11. AVTypes'
    BY <1>0, <1>1, <1>2 DEF AVTypes
  <1>12. TheTimer'
    <2> SUFFICES ASSUME ~ avSpoilt PROVE TheTimer'
      BY <1>1 DEF TheTimer
    <2>1. /\ \A m \in AT!Timers : nodeList[m] # nil <=> m = timerIndex
          /\ \A e \in rank : e[2] = timerIndex
          /\ running = timerIndex /\ nextTime = AV!Due(Len(values))
          /\ \A i \in 1..Len(values) : values[i] = AV!Due(i)
      BY <1>1 DEF AVInv, TheTimer
    <2>2. rank' = {}
      BY <1>0, <1>1, <2>1 DEF AT!Inv, AT!InPass
    <2>3. \A m \in AT!Timers : nodeList'[m] # nil <=> m = timerIndex'
      BY <1>0, <1>1, <1>2, <1>3, <2>1 DEF old
    <2>4. /\ Len(values) \in Nat /\ nextTime' = AV!Due(Len(values) + 1)
          /\ nodeList'[timerIndex'].time = nextTime'
      <3>1. Len(values) \in Nat /\ started \in Nat
        BY <1>0 DEF AVTypes
      <3>2. nextTime' = AV!Due(Len(values) + 1)
        BY <1>1, <2>1, <3>1, NextValue DEF due
      <3> QED
        BY <1>1, <1>2, <1>3, <3>1, <3>2
    <2>5. /\ nextTime' = (AV!Due(Len(values) + 1))'
          /\ \A i \in 1..Len(values') : values'[i] = (AV!Due(i))'
      BY <1>1, <2>1, <2>4 DEF AV!Due
    <2> QED
      BY <1>0, <1>1, <1>2, <2>2, <2>3, <2>4, <2>5 DEF TheTimer
  <1> QED
    BY <1>4, <1>5, <1>6, <1>7, <1>8, <1>9, <1>10, <1>11, <1>12 DEF AVInv, AT!Inv

(* No other value is to come, or nobody knows when.                        *)
LEMMA LastValueInv ==
  ASSUME AVAssumption, AVInv, AT!callbackReturns, UNCHANGED <<variant, values, started>>,
         \/ avSpoilt' = TRUE /\ UNCHANGED <<timerIndex, nextTime>>
         \/ nextTime = nil /\ UNCHANGED <<timerIndex, nextTime, avSpoilt>>
         \/ /\ nextTime # nil /\ nextTime + cd >= endTime
            /\ timerIndex' = nil /\ nextTime' = nil /\ UNCHANGED avSpoilt
  PROVE AVInv'
  <1>0. /\ cd \in Nat /\ endTime \in Nat /\ nil \notin Nat /\ nil \notin AT!Timers
        /\ AT!Inv /\ AVTypes
    BY DEF AVInv, AVAssumption, AV!PeriodAssumption, AV!nilAssumption, AT!TimerAssumption, AT!nilAssumption
  <1>1. AT!Inv'
    BY <1>0, AT!CallbackReturnsInv DEF AVAssumption
  <1>2. AVTypes'
    BY <1>0 DEF AVTypes, AT!callbackReturns
  <1>3. TheTimer'
    <2> SUFFICES ASSUME ~ avSpoilt' PROVE TheTimer'
      BY DEF TheTimer
    <2>1. ~ avSpoilt /\ running # nil /\ running' = nil /\ rank' = rank
      BY DEF AT!callbackReturns, AT!Continue
    <2>2. /\ running = timerIndex /\ nextTime = AV!Due(Len(values))
          /\ \A m \in AT!Timers : nodeList[m] # nil <=> m = timerIndex
          /\ \A e \in rank : e[2] = timerIndex
          /\ \A i \in 1..Len(values) : values[i] = AV!Due(i)
      BY <2>1 DEF AVInv, TheTimer
    <2>3. Len(values) \in Nat /\ nextTime \in Nat /\ timerIndex \in AT!Timers
      BY <1>0, <2>1, <2>2, NextValue DEF AVTypes
    <2>4. nextTime' = nil /\ timerIndex' = nil /\ nextTime + cd >= endTime
      BY <1>0, <2>3
    <2>5. rank = {} /\ nodeList[timerIndex] # nil /\ nodeList[timerIndex].period = 0
      <3>1. nodeList[timerIndex] \in AT!Node
        BY <1>0, <2>2, <2>3 DEF AT!Inv, AT!TypeOK
      <3> QED
        BY <1>0, <2>1, <2>2, <2>3, <3>1 DEF AT!Inv, AT!InPass, AT!Node
    <2>6. \A m \in AT!Timers : nodeList'[m] = IF m = timerIndex THEN nil ELSE nodeList[m]
      BY <1>0, <2>2, <2>3, <2>5 DEF AT!callbackReturns, AT!Inv, AT!TypeOK
    <2>7. \A m \in AT!Timers : nodeList'[m] # nil <=> m = timerIndex'
      BY <1>0, <2>2, <2>4, <2>6
    <2>8. AV!Due(Len(values) + 1) >= endTime
      BY <1>0, <2>2, <2>3, <2>4, NextValue DEF AVTypes
    <2>9. /\ (AV!Due(Len(values) + 1) >= endTime)'
          /\ \A i \in 1..Len(values') : values'[i] = (AV!Due(i))'
      BY <2>2, <2>8 DEF AV!Due
    <2> QED
      BY <2>1, <2>4, <2>5, <2>7, <2>9 DEF TheTimer
  <1> QED
    BY <1>1, <1>2, <1>3 DEF AVInv

LEMMA AddFuncReturnsInv == ASSUME AVAssumption, AVInv, AV!addFuncReturns PROVE AVInv'
  <1>1. CASE nextTime # nil /\ nextTime + cd < endTime
    BY <1>1, NextTimerInv
  <1>2. CASE ~(nextTime # nil /\ nextTime + cd < endTime)
    <2>1. nextTime \in Nat \cup {nil} /\ cd \in Nat /\ endTime \in Nat
      BY DEF AVInv, AVTypes, AVAssumption, AV!PeriodAssumption
    <2>2. nextTime = nil \/ (nextTime # nil /\ nextTime + cd >= endTime)
      BY <1>2, <2>1
    <2>3. AT!callbackReturns /\ UNCHANGED <<variant, values, started>>
      BY <2>2, SameTimers DEF AV!addFuncReturns
    <2>4. \/ nextTime = nil /\ UNCHANGED <<timerIndex, nextTime, avSpoilt>>
          \/ /\ nextTime # nil /\ nextTime + cd >= endTime
             /\ timerIndex' = nil /\ nextTime' = nil /\ UNCHANGED avSpoilt
      BY <2>2 DEF AV!addFuncReturns
    <2> QED
      BY <2>3, <2>4, LastValueInv
  <1> QED
    BY <1>1, <1>2

LEMMA AddFuncFailsInv == ASSUME AVAssumption, AVInv, AV!addFuncFails PROVE AVInv'
  BY LastValueInv, SameTimers DEF AV!addFuncFails

(* A pass begins, or time passes.                                          *)
LEMMA ClockInv == ASSUME AVAssumption, AVInv, AV!Clock PROVE AVInv'
  <1>1. /\ AT!update \/ AT!Tick
        /\ UNCHANGED <<variant, timerIndex, nextTime, values, started, avSpoilt>>
    BY SameTimers DEF AV!Clock, AV!ownVars
  <1>2. AT!Inv'
    BY <1>1, AT!UpdateInv, AT!TickInv DEF AVInv, AVAssumption
  <1>3. UNCHANGED <<auto, nodeList, running>> /\ (rank' = rank \/ rank' \subseteq set)
    BY <1>1 DEF AT!update, AT!Tick, AT!pass, AT!Due
  <1>4. AVTypes'
    BY <1>1, <1>3 DEF AVInv, AVTypes
  <1>5. TheTimer'
    <2> SUFFICES ASSUME ~ avSpoilt PROVE TheTimer'
      BY <1>1 DEF TheTimer
    <2>1. \A e \in rank' : e[2] = timerIndex
      BY <1>3 DEF AVInv, TheTimer, AT!Inv, AT!Indexed, AT!TypeOK
    <2>2. \A i \in Nat : (AV!Due(i))' = AV!Due(i)
      BY <1>1 DEF AV!Due
    <2>3. Len(values) \in Nat
      BY DEF AVInv, AVTypes
    <2>4. /\ (AV!Due(Len(values)))' = AV!Due(Len(values))
          /\ (AV!Due(Len(values) + 1))' = AV!Due(Len(values) + 1)
          /\ \A i \in 1..Len(values) : (AV!Due(i))' = AV!Due(i)
      BY <1>1 DEF AV!Due
    <2> QED
      BY <1>1, <1>3, <2>1, <2>4 DEF AVInv, TheTimer
  <1> QED
    BY <1>2, <1>4, <1>5 DEF AVInv

LEMMA AVStep == ASSUME AVAssumption, AVInv, [AV!Next]_AV!vars PROVE AVInv'
  <1>1. CASE UNCHANGED AV!vars
    <2>1. AT!Inv'
      BY <1>1, AT!StepInv DEF AV!vars, AV!ownVars, AT!vars, AVInv, AVAssumption
    <2>2. AVTypes'
      BY <1>1 DEF AV!vars, AV!ownVars, AVInv, AVTypes
    <2>3. TheTimer'
      BY <1>1 DEF AV!vars, AV!ownVars, AVInv, TheTimer, AV!Due
    <2> QED
      BY <2>1, <2>2, <2>3 DEF AVInv
  <1> QED
    BY <1>1, StartInv, StopInv, AddInv, AddFuncReturnsInv, AddFuncFailsInv, ClockInv DEF AV!Next

(* start, stop, onAddHandler: a value is added once for each cd, none is   *)
(* left out however late a pass is, there is one timer while it goes on,   *)
(* and none after the last value; unless start or stop came while addFunc  *)
(* waited, or addFunc raised an error.                                     *)
THEOREM ValuesCorrect == ASSUME AVAssumption PROVE AV!Spec => []AV!ValuesComeOnTime
  <1>1. AV!Init => AVInv
    BY AVInit
  <1>2. AVInv /\ [AV!Next]_AV!vars => AVInv'
    BY AVStep
  <1>3. AVInv => AV!ValuesComeOnTime
    <2> SUFFICES ASSUME AVInv PROVE AV!ValuesComeOnTime
      OBVIOUS
    <2>1. AV!DT!OnSchedule
      <3>1. AT!OnSchedule
        BY AT!InvOnSchedule DEF AVInv, AVAssumption
      <3> QED
        BY <3>1 DEF AT!OnSchedule, AV!DT!OnSchedule, AT!IndicesAgree, AV!DT!IndicesAgree,
             AT!TypeOK, AV!DT!TypeOK, AT!Timers, AV!DT!Timers, AT!Node, AV!DT!Node
    <2>2. ASSUME ~ avSpoilt PROVE AV!Live = {timerIndex} \ {nil}
      BY <2>2, SameTimers DEF AV!Live, AVInv, AVTypes, TheTimer, AVAssumption,
                              AT!TimerAssumption, AT!nilAssumption
    <2> QED
      BY <2>1, <2>2 DEF AV!ValuesComeOnTime, AVInv, TheTimer
  <1> QED
    BY <1>1, <1>2, <1>3, PTL DEF AV!Spec

-----------------------------------------------------------------------------
(* RecordList.  The lists are sequences in order, and such a sequence is   *)
(* the one of its elements.                                                *)

Sorted(s) == s \in Seq(Nat) /\ RL!InOrder(s)

(* The elements of a sequence.                                             *)
LEMMA ToSetIs ==
  ASSUME NEW S, NEW s \in Seq(S)
  PROVE /\ RL!ToSet(s) = {s[i] : i \in 1..Len(s)}
        /\ \A i \in 1..Len(s) : s[i] \in RL!ToSet(s) /\ s[i] \in S
        /\ \A x \in RL!ToSet(s) : \E i \in 1..Len(s) : s[i] = x
        /\ Len(s) \in Nat
  <1>1. DOMAIN s = 1..Len(s) /\ Len(s) \in Nat
    BY LenProperties
  <1>2. \A i \in 1..Len(s) : s[i] \in S
    BY ElementOfSeq
  <1> QED
    BY <1>1, <1>2 DEF RL!ToSet

LEMMA SortedFacts ==
  ASSUME NEW s, Sorted(s)
  PROVE /\ s \in Seq(Nat) /\ Len(s) \in Nat
        /\ \A i \in 1..Len(s) : s[i] \in Nat
        /\ \A i, j \in 1..Len(s) : (i < j => s[i] < s[j]) /\ (i <= j => s[i] <= s[j])
  <1>1. s \in Seq(Nat) /\ Len(s) \in Nat
    BY LenProperties DEF Sorted
  <1>2. \A i \in 1..Len(s) : s[i] \in Nat
    BY <1>1, ElementOfSeq
  <1> QED
    BY <1>1, <1>2 DEF Sorted, RL!InOrder

(* Two lists of the same records agree, so that they are one.              *)
LEMMA SortedPrefix ==
  ASSUME NEW s, NEW t, Sorted(s), Sorted(t), RL!ToSet(s) = RL!ToSet(t)
  PROVE \A i \in 1..Len(s) : i <= Len(t) /\ s[i] = t[i]
  <1> DEFINE Bad == {i \in 1..Len(s) : ~ (i <= Len(t) /\ s[i] = t[i])}
  <1>1. /\ s \in Seq(Nat) /\ Len(s) \in Nat /\ \A i \in 1..Len(s) : s[i] \in Nat
        /\ \A i, j \in 1..Len(s) : (i < j => s[i] < s[j]) /\ (i <= j => s[i] <= s[j])
    BY SortedFacts
  <1>2. /\ t \in Seq(Nat) /\ Len(t) \in Nat /\ \A i \in 1..Len(t) : t[i] \in Nat
        /\ \A i, j \in 1..Len(t) : (i < j => t[i] < t[j]) /\ (i <= j => t[i] <= t[j])
    BY SortedFacts
  <1> SUFFICES ASSUME Bad # {} PROVE FALSE
    OBVIOUS
  <1>3. Bad \in SUBSET Nat
    BY <1>1
  <1>4. PICK i \in Bad : \A j \in Bad : i <= j
    BY <1>3, LeastOf
  <1>5. i \in 1..Len(s) /\ \A j \in 1..Len(s) : j < i => j <= Len(t) /\ s[j] = t[j]
    BY <1>1, <1>4
  <1>6. PICK k \in 1..Len(t) : t[k] = s[i]
    BY <1>1, <1>2, <1>5, ToSetIs
  <1>7. i <= k
    <2>1. ASSUME k < i PROVE FALSE
      <3>1. k \in 1..Len(s)
        BY <1>1, <1>2, <1>5, <2>1
      <3>2. s[k] < s[i] /\ s[k] = t[k]
        BY <1>1, <1>5, <2>1, <3>1
      <3> QED
        BY <1>1, <1>5, <1>6, <3>1, <3>2
    <2> QED
      BY <1>1, <1>2, <1>5, <2>1
  <1>8. i \in 1..Len(t) /\ t[i] <= t[k]
    <2>1. i \in 1..Len(t)
      BY <1>1, <1>2, <1>5, <1>7
    <2> QED
      BY <1>2, <1>7, <2>1
  <1>9. PICK m \in 1..Len(s) : s[m] = t[i]
    <2>1. t[i] \in RL!ToSet(t)
      BY <1>2, <1>8, ToSetIs
    <2>2. \A x \in RL!ToSet(s) : \E m \in 1..Len(s) : s[m] = x
      BY <1>1, ToSetIs
    <2> QED
      BY <2>1, <2>2
  <1>10. i <= m
    <2>1. ASSUME m < i PROVE FALSE
      <3>1. m \in 1..Len(t) /\ t[m] < t[i] /\ s[m] = t[m]
        BY <1>1, <1>2, <1>5, <1>8, <2>1
      <3> QED
        BY <1>2, <1>8, <1>9, <3>1
    <2> QED
      BY <1>1, <1>2, <1>5, <2>1
  <1>11. s[i] <= s[m]
    BY <1>1, <1>5, <1>10
  <1>12. s[i] = t[i]
    <2>1. s[i] \in Nat /\ t[i] \in Nat
      BY <1>1, <1>2, <1>5, <1>8
    <2>2. t[i] <= s[i] /\ s[i] <= t[i]
      BY <1>6, <1>8, <1>9, <1>11
    <2> QED
      BY <2>1, <2>2
  <1> QED
    BY <1>2, <1>4, <1>8, <1>12

LEMMA SortedOnce ==
  ASSUME NEW s, NEW t, Sorted(s), Sorted(t), RL!ToSet(s) = RL!ToSet(t)
  PROVE s = t
  <1>1. s \in Seq(Nat) /\ t \in Seq(Nat) /\ Len(s) \in Nat /\ Len(t) \in Nat
    BY ToSetIs DEF Sorted
  <1>2. \A i \in 1..Len(s) : i <= Len(t) /\ s[i] = t[i]
    BY SortedPrefix
  <1>3. \A i \in 1..Len(t) : i <= Len(s)
    BY SortedPrefix
  <1>4. Len(s) = Len(t)
    <2>1. CASE Len(s) = 0
      BY <1>1, <1>3, <2>1
    <2>2. CASE Len(s) # 0
      BY <1>1, <1>2, <1>3, <2>2
    <2> QED
      BY <2>1, <2>2
  <1> QED
    BY <1>1, <1>2, <1>4, SeqEqual

LEMMA SameCounts == \A S : RL!Cardinality(S) = Cardinality(S)
  BY DEF RL!Cardinality, Cardinality

(* No record is in a list twice.                                           *)
LEMMA SortedCounts ==
  ASSUME NEW s, Sorted(s)
  PROVE Cardinality(RL!ToSet(s)) = Len(s) /\ IsFiniteSet(RL!ToSet(s))
  <1>1. s \in Seq(Nat) /\ Len(s) \in Nat /\ s \in [1..Len(s) -> RL!ToSet(s)]
    BY ToSetIs, LenProperties DEF Sorted
  <1>2. \A i, j \in 1..Len(s) : s[i] = s[j] => i = j
    BY SortedFacts
  <1>3. \A x \in RL!ToSet(s) : \E i \in 1..Len(s) : s[i] = x
    BY <1>1, ToSetIs
  <1>4. s \in Bijection(1..Len(s), RL!ToSet(s))
    BY <1>1, <1>2, <1>3 DEF Bijection, Injection, Surjection, IsInjective
  <1>5. ExistsBijection(1..Len(s), RL!ToSet(s))
    BY <1>4 DEF ExistsBijection
  <1>6. IsFiniteSet(1..Len(s)) /\ Cardinality(1..Len(s)) = Len(s)
    BY <1>1, FS_Interval
  <1> QED
    BY <1>5, <1>6, FS_Bijection

(* What Ascending chooses of some records is the list of them.             *)
LEMMA AscendingIs ==
  ASSUME NEW s, Sorted(s)
  PROVE RL!Ascending(RL!ToSet(s)) = s
  <1> DEFINE ids == RL!ToSet(s)
  <1> DEFINE t == RL!Ascending(ids)
  <1>1. s \in [1..Cardinality(ids) -> ids] /\ Cardinality(ids) \in Nat /\ ids \subseteq Nat
    BY SortedCounts, SortedFacts, ToSetIs, LenProperties DEF Sorted
  <1>2. t \in [1..Cardinality(ids) -> ids] /\ RL!InOrder(t) /\ RL!ToSet(t) = ids
    <2>1. \E list \in [1..Cardinality(ids) -> ids] : RL!InOrder(list) /\ RL!ToSet(list) = ids
      BY <1>1 DEF Sorted
    <2> QED
      BY <2>1, SameCounts DEF RL!Ascending
  <1> HIDE DEF t
  <1>3. t \in Seq(Nat)
    <2>1. t = [i \in 1..Cardinality(ids) |-> t[i]] /\ \A i \in 1..Cardinality(ids) : t[i] \in Nat
      BY <1>1, <1>2
    <2>2. [i \in 1..Cardinality(ids) |-> t[i]] \in Seq(Nat)
      BY <1>1, <2>1
    <2> QED
      BY <2>1, <2>2
  <1>4. Sorted(t) /\ RL!ToSet(t) = RL!ToSet(s)
    BY <1>2, <1>3 DEF Sorted
  <1>5. t = s
    BY <1>4, SortedOnce
  <1> QED
    BY <1>5 DEF t

(* A record comes at the end of a list.                                    *)
LEMMA SortedMore ==
  ASSUME NEW s, Sorted(s), NEW x \in Nat, \A y \in RL!ToSet(s) : y < x
  PROVE /\ Sorted(Append(s, x)) /\ RL!ToSet(Append(s, x)) = RL!ToSet(s) \cup {x}
        /\ Len(Append(s, x)) = Len(s) + 1 /\ Append(s, x)[Len(s) + 1] = x
        /\ \A i \in 1..Len(s) : Append(s, x)[i] = s[i]
  <1> DEFINE t == Append(s, x)
  <1>1. /\ s \in Seq(Nat) /\ Len(s) \in Nat /\ \A i \in 1..Len(s) : s[i] \in Nat
        /\ \A i, j \in 1..Len(s) : (i < j => s[i] < s[j]) /\ (i <= j => s[i] <= s[j])
    BY SortedFacts
  <1>2. /\ t \in Seq(Nat) /\ Len(t) = Len(s) + 1 /\ t[Len(s) + 1] = x
        /\ \A i \in 1..Len(s) : t[i] = s[i]
    BY <1>1, AppendProperties
  <1>3. \A i \in 1..Len(s) : s[i] < x
    BY <1>1, ToSetIs
  <1>4. RL!ToSet(s) = {s[i] : i \in 1..Len(s)} /\ RL!ToSet(t) = {t[i] : i \in 1..Len(t)}
    BY <1>1, <1>2, ToSetIs
  <1> HIDE DEF t
  <1>5. RL!InOrder(t)
    <2> SUFFICES ASSUME NEW i \in 1..Len(t), NEW j \in 1..Len(t), i < j PROVE t[i] < t[j]
      BY DEF RL!InOrder
    <2>1. Len(s) \in Nat /\ Len(t) = Len(s) + 1
      BY <1>1, <1>2
    <2>2. j \in 1..Len(s) \/ j = Len(s) + 1
      BY <2>1
    <2>3. i \in 1..Len(s)
      BY <2>1, <2>2
    <2> QED
      BY <1>1, <1>2, <1>3, <2>2, <2>3
  <1>6. RL!ToSet(t) = RL!ToSet(s) \cup {x}
    <2>1. \A i \in 1..Len(t) : i \in 1..Len(s) \/ i = Len(s) + 1
      BY <1>1, <1>2
    <2>2. \A i \in 1..Len(s) : i \in 1..Len(t)
      BY <1>1, <1>2
    <2>3. Len(s) + 1 \in 1..Len(t)
      BY <1>1, <1>2
    <2> QED
      BY <1>2, <1>4, <2>1, <2>2, <2>3
  <1>7. Sorted(t)
    BY <1>2, <1>5 DEF Sorted
  <1> QED
    BY <1>2, <1>6, <1>7 DEF t

(* Every set of ids has its list.                                          *)
HasList(T) == \E s : Sorted(s) /\ RL!ToSet(s) = T

(* Any records have a list.                                                *)
LEMMA ListExists == ASSUME NEW n \in Nat, NEW T \in SUBSET (1..n) PROVE HasList(T)
  <1> DEFINE Bad == {m \in Nat : \E U \in SUBSET (1..m) : ~ HasList(U)}
  <1>1. HasList({})
    <2>1. <<>> \in Seq(Nat) /\ Len(<<>>) = 0
      OBVIOUS
    <2>2. RL!ToSet(<<>>) = {}
      BY DEF RL!ToSet
    <2>3. RL!InOrder(<<>>)
      BY <2>1 DEF RL!InOrder
    <2> QED
      BY <2>1, <2>2, <2>3 DEF HasList, Sorted
  <1> SUFFICES ASSUME Bad # {} PROVE FALSE
    OBVIOUS
  <1>2. PICK m \in Bad : \A k \in Bad : m <= k
    BY LeastOf
  <1>3. PICK U \in SUBSET (1..m) : ~ HasList(U)
    BY <1>2
  <1>4. m # 0
    <2> SUFFICES ASSUME m = 0 PROVE FALSE
      OBVIOUS
    <2>1. U = {}
      BY <1>3
    <2> QED
      BY <1>1, <1>3, <2>1
  <1>5. m \in Nat /\ m - 1 \in Nat /\ ~ (m <= m - 1)
    <2>1. m \in Nat
      BY <1>2
    <2> QED
      BY <1>4, <2>1
  <1>12. m - 1 \notin Bad
    BY <1>2, <1>5
  <1> HIDE DEF Bad
  <1>6. U \ {m} \in SUBSET (1..(m - 1))
    BY <1>3, <1>5
  <1>7. PICK s : Sorted(s) /\ RL!ToSet(s) = U \ {m}
    BY <1>5, <1>12, <1>6 DEF HasList, Bad
  <1>8. m \in U
    BY <1>3, <1>7 DEF HasList
  <1>9. \A y \in RL!ToSet(s) : y < m
    <2>1. \A y \in 1..(m - 1) : y < m
      BY <1>5
    <2> QED
      BY <1>6, <1>7, <2>1
  <1>10. Sorted(Append(s, m)) /\ RL!ToSet(Append(s, m)) = (U \ {m}) \cup {m}
    BY <1>5, <1>7, <1>9, SortedMore
  <1> QED
    BY <1>3, <1>8, <1>10 DEF HasList

LEMMA AscendingOf ==
  ASSUME NEW n \in Nat, NEW T \in SUBSET (1..n)
  PROVE Sorted(RL!Ascending(T)) /\ RL!ToSet(RL!Ascending(T)) = T
  <1>1. PICK s : Sorted(s) /\ RL!ToSet(s) = T
    BY ListExists DEF HasList
  <1> QED
    BY <1>1, AscendingIs

(* The rest of a list.                                                     *)
LEMMA SortedRest ==
  ASSUME NEW s, Sorted(s), NEW a \in 1..Len(s) + 1
  PROVE /\ Sorted(SubSeq(s, a, Len(s)))
        /\ RL!ToSet(SubSeq(s, a, Len(s))) = {s[i] : i \in a..Len(s)}
        /\ Len(SubSeq(s, a, Len(s))) = Len(s) - a + 1
  <1> DEFINE t == SubSeq(s, a, Len(s))
  <1>1. /\ s \in Seq(Nat) /\ Len(s) \in Nat /\ \A i \in 1..Len(s) : s[i] \in Nat
        /\ \A i, j \in 1..Len(s) : (i < j => s[i] < s[j]) /\ (i <= j => s[i] <= s[j])
    BY SortedFacts
  <1>2. /\ t \in Seq(Nat) /\ Len(t) = IF a <= Len(s) THEN Len(s) - a + 1 ELSE 0
        /\ \A i \in 1..Len(s) - a + 1 : t[i] = s[a + i - 1]
    <2>1. a \in Int /\ Len(s) \in Int /\ \A i \in a..Len(s) : s[i] \in Nat
      BY <1>1
    <2> QED
      BY <2>1, SubSeqProperties
  <1>3. RL!ToSet(t) = {t[i] : i \in 1..Len(t)}
    BY <1>2, ToSetIs
  <1> HIDE DEF t
  <1>4. Len(t) = Len(s) - a + 1 /\ Len(t) \in Nat
    BY <1>1, <1>2
  <1>5. \A i \in 1..Len(t) : a + i - 1 \in a..Len(s) /\ a + i - 1 \in 1..Len(s) /\ t[i] = s[a + i - 1]
    BY <1>1, <1>2, <1>4
  <1>6. \A k \in a..Len(s) : k - a + 1 \in 1..Len(t) /\ a + (k - a + 1) - 1 = k
    BY <1>1, <1>4
  <1>7. \A k \in a..Len(s) : t[k - a + 1] = s[k]
    BY <1>5, <1>6
  <1>8. RL!ToSet(t) = {s[i] : i \in a..Len(s)}
    <2>1. \A x \in RL!ToSet(t) : \E i \in a..Len(s) : x = s[i]
      BY <1>3, <1>5
    <2>2. \A i \in a..Len(s) : s[i] \in RL!ToSet(t)
      BY <1>3, <1>6, <1>7
    <2> QED
      BY <2>1, <2>2
  <1>9. RL!InOrder(t)
    <2> SUFFICES ASSUME NEW i \in 1..Len(t), NEW j \in 1..Len(t), i < j PROVE t[i] < t[j]
      BY DEF RL!InOrder
    <2>1. a + i - 1 < a + j - 1
      BY <1>1
    <2> QED
      BY <1>1, <1>5, <2>1
  <1> QED
    BY <1>2, <1>4, <1>8, <1>9 DEF Sorted, t

(* The last ones of a list.                                                *)
From(s) == IF Len(s) > limit THEN Len(s) - limit + 1 ELSE 1
Last(s) == SubSeq(s, From(s), Len(s))

LEMMA LastOf ==
  ASSUME RL!LimitAssumption, NEW s, Sorted(s)
  PROVE /\ Sorted(Last(s)) /\ RL!ToSet(Last(s)) = {s[i] : i \in From(s)..Len(s)}
        /\ From(s) \in 1..Len(s) + 1 /\ RL!ToSet(Last(s)) \subseteq RL!ToSet(s)
  <1>1. /\ s \in Seq(Nat) /\ Len(s) \in Nat
    BY SortedFacts
  <1>2. From(s) \in 1..Len(s) + 1
    BY <1>1 DEF From, RL!LimitAssumption
  <1>3. Sorted(Last(s)) /\ RL!ToSet(Last(s)) = {s[i] : i \in From(s)..Len(s)}
    BY <1>2, SortedRest DEF Last
  <1>4. \A i \in From(s)..Len(s) : i \in 1..Len(s)
    BY <1>1, <1>2
  <1>5. \A i \in 1..Len(s) : s[i] \in RL!ToSet(s)
    BY <1>1, ToSetIs
  <1> QED
    BY <1>2, <1>3, <1>4, <1>5

(* What is left out of some of the ids is not among the last of all.       *)
LEMMA LastAreKept ==
  ASSUME RL!LimitAssumption, NEW s, Sorted(s), NEW t, Sorted(t),
         RL!ToSet(t) \subseteq RL!ToSet(s),
         NEW x \in RL!ToSet(t) \ RL!ToSet(Last(t))
  PROVE x \notin RL!ToSet(Last(s))
  <1> DEFINE n == Len(s)
  <1> DEFINE m == Len(t)
  <1> DEFINE Bad == {d \in 0..(m - 1) : \E k \in 1..n : s[k] = t[m - d] /\ k > n - d}
  <1>1. /\ s \in Seq(Nat) /\ n \in Nat /\ \A i \in 1..n : s[i] \in Nat
        /\ \A i, j \in 1..n : (i < j => s[i] < s[j]) /\ (i <= j => s[i] <= s[j])
    BY SortedFacts
  <1>2. /\ t \in Seq(Nat) /\ m \in Nat /\ \A i \in 1..m : t[i] \in Nat
        /\ \A i, j \in 1..m : (i < j => t[i] < t[j]) /\ (i <= j => t[i] <= t[j])
    BY SortedFacts
  <1>3. Bad = {}
    <2> SUFFICES ASSUME Bad # {} PROVE FALSE
      OBVIOUS
    <2>1. Bad \in SUBSET Nat
      BY <1>2
    <2>2. PICK d \in Bad : \A e \in Bad : d <= e
      BY <2>1, LeastOf
    <2>3. PICK k \in 1..n : s[k] = t[m - d] /\ k > n - d
      BY <2>2
    <2>4. m \in Nat /\ d \in Nat /\ d >= 1 /\ d <= m - 1
      <3>1. d \in 0..(m - 1) /\ d # 0
        BY <1>1, <2>2, <2>3
      <3> QED
        BY <1>2, <3>1
    <2>5. m - d \in 1..m /\ m - (d - 1) \in 1..m /\ m - d < m - (d - 1)
      BY <2>4
    <2>6. d - 1 \in 0..(m - 1) /\ d - 1 \notin Bad
      <3>1. d - 1 \in 0..(m - 1) /\ ~ (d <= d - 1)
        BY <2>4
      <3> HIDE DEF Bad
      <3> QED
        BY <2>2, <3>1
    <2>7. t[m - d] < t[m - (d - 1)] /\ t[m - (d - 1)] \in RL!ToSet(t)
      BY <1>2, <2>5, ToSetIs
    <2>8. PICK l \in 1..n : s[l] = t[m - (d - 1)]
      BY <1>1, <2>7, ToSetIs
    <2>9. l <= n - (d - 1)
      BY <1>1, <2>4, <2>6, <2>8
    <2>10. k < l
      <3>1. s[k] < s[l]
        BY <2>3, <2>7, <2>8
      <3>2. s[k] \in Nat /\ s[l] \in Nat /\ k \in Nat /\ l \in Nat
        BY <1>1
      <3>3. l <= k => s[l] <= s[k]
        BY <1>1
      <3> HIDE DEF Bad, n, m
      <3> QED
        BY <3>1, <3>2, <3>3
    <2> QED
      BY <1>1, <2>3, <2>4, <2>9, <2>10
  <1>4. PICK i \in 1..m : t[i] = x
    BY <1>2, ToSetIs
  <1>5. i \notin From(t)..m
    BY <1>4, LastOf
  <1>6. limit \in Nat /\ i <= m - limit
    BY <1>2, <1>5 DEF From, RL!LimitAssumption
  <1>7. m - i \in 0..(m - 1) /\ m - (m - i) = i
    BY <1>2
  <1>8. \A k \in 1..n : s[k] = x => k <= n - (m - i)
    <2> SUFFICES ASSUME NEW k \in 1..n, s[k] = x, ~ (k <= n - (m - i)) PROVE FALSE
      OBVIOUS
    <2>1. m - i \in Bad
      BY <1>1, <1>2, <1>4, <1>7
    <2> QED
      BY <1>3, <2>1
  <1>9. \A k \in From(s)..n : k \in 1..n /\ k > n - limit
    BY <1>1, <1>6, LastOf DEF From
  <1>10. \A k \in From(s)..n : s[k] # x
    BY <1>1, <1>2, <1>6, <1>8, <1>9
  <1> QED
    BY <1>10, LastOf

(* One more id is the last one of all.                                     *)
LEMMA LastMore ==
  ASSUME RL!LimitAssumption, NEW s, Sorted(s), NEW x \in Nat, \A y \in RL!ToSet(s) : y < x
  PROVE RL!ToSet(Last(Append(s, x))) \subseteq RL!ToSet(Last(s)) \cup {x}
  <1> DEFINE t == Append(s, x)
  <1>1. /\ Sorted(t) /\ Len(t) = Len(s) + 1 /\ t[Len(s) + 1] = x
        /\ \A i \in 1..Len(s) : t[i] = s[i]
    BY SortedMore
  <1>2. Len(s) \in Nat /\ limit \in Nat \ {0}
    BY SortedFacts DEF RL!LimitAssumption
  <1> HIDE DEF t
  <1>3. /\ RL!ToSet(Last(t)) = {t[i] : i \in From(t)..Len(t)}
        /\ RL!ToSet(Last(s)) = {s[i] : i \in From(s)..Len(s)}
    BY <1>1, LastOf
  <1>4. \A i \in From(t)..Len(t) : i = Len(s) + 1 \/ (i \in From(s)..Len(s) /\ i \in 1..Len(s))
    BY <1>1, <1>2 DEF From
  <1> QED
    BY <1>1, <1>3, <1>4 DEF t

(* The first record leaves a list.                                         *)
LEMMA SortedTail ==
  ASSUME NEW s, Sorted(s), Len(s) # 0
  PROVE Sorted(Tail(s)) /\ RL!ToSet(Tail(s)) = RL!ToSet(s) \ {s[1]} /\ s[1] \in RL!ToSet(s)
  <1>1. /\ s \in Seq(Nat) /\ Len(s) \in Nat
        /\ \A i, j \in 1..Len(s) : (i < j => s[i] < s[j]) /\ (i <= j => s[i] <= s[j])
        /\ \A i \in 1..Len(s) : s[i] \in Nat
    BY SortedFacts
  <1>2. s # <<>> /\ 1 \in 1..Len(s) /\ 2 \in 1..Len(s) + 1
    BY <1>1
  <1>3. Tail(s) = SubSeq(s, 2, Len(s))
    BY <1>1, <1>2, TailIsSubSeq
  <1>4. Sorted(Tail(s)) /\ RL!ToSet(Tail(s)) = {s[i] : i \in 2..Len(s)}
    BY <1>2, <1>3, SortedRest
  <1>5. RL!ToSet(s) = {s[i] : i \in 1..Len(s)}
    BY <1>1, ToSetIs
  <1>6. \A i \in 2..Len(s) : i \in 1..Len(s) /\ s[i] # s[1]
    <2> SUFFICES ASSUME NEW i \in 2..Len(s) PROVE i \in 1..Len(s) /\ s[i] # s[1]
      OBVIOUS
    <2>1. i \in 1..Len(s) /\ 1 < i
      BY <1>1
    <2>2. s[1] < s[i] /\ s[1] \in Nat /\ s[i] \in Nat
      BY <1>1, <1>2, <2>1
    <2> QED
      BY <2>1, <2>2
  <1>7. \A i \in 1..Len(s) : i = 1 \/ i \in 2..Len(s)
    BY <1>1
  <1> QED
    BY <1>2, <1>4, <1>5, <1>6, <1>7

(* A record comes to a list, and the first one goes if there are too many. *)
Longer(list, x) == IF list = nil THEN <<>> ELSE Append(list, x)
Gone(list) == IF Len(list) > limit THEN {list[1]} ELSE {}

LEMMA ListMore ==
  ASSUME RL!LimitAssumption, NEW s, Sorted(s), NEW x \in Nat, \A y \in RL!ToSet(s) : y < x,
         NEW all, Sorted(all), RL!ToSet(s) \subseteq RL!ToSet(all), \A y \in RL!ToSet(all) : y < x
  PROVE LET list == Append(s, x)
            gone == Gone(list)
            new == IF gone # {} THEN Tail(list) ELSE list IN
        /\ Sorted(new) /\ RL!ToSet(new) = (RL!ToSet(s) \ gone) \cup {x}
        /\ gone \cap RL!ToSet(Last(Append(all, x))) = {} /\ x \notin gone
  <1> DEFINE list == Append(s, x)
  <1>1. /\ Sorted(list) /\ RL!ToSet(list) = RL!ToSet(s) \cup {x} /\ Len(list) = Len(s) + 1
        /\ list[Len(s) + 1] = x /\ \A i \in 1..Len(s) : list[i] = s[i]
    BY SortedMore
  <1>2. Sorted(Append(all, x)) /\ RL!ToSet(Append(all, x)) = RL!ToSet(all) \cup {x}
    BY SortedMore
  <1>3. Len(s) \in Nat /\ limit \in Nat \ {0}
    BY SortedFacts DEF RL!LimitAssumption
  <1> HIDE DEF list
  <1>4. CASE Len(list) > limit
    <2>1. Len(list) # 0 /\ 1 \in 1..Len(s) /\ From(list) \in 2..Len(list)
      BY <1>1, <1>3, <1>4 DEF From
    <2>2. /\ Sorted(Tail(list)) /\ RL!ToSet(Tail(list)) = RL!ToSet(list) \ {list[1]}
          /\ list[1] \in RL!ToSet(list)
      BY <1>1, <2>1, SortedTail
    <2>3. list[1] = s[1] /\ s[1] \in RL!ToSet(s)
      <3>1. s \in Seq(Nat)
        BY SortedFacts
      <3> QED
        BY <1>1, <2>1, <3>1, ToSetIs
    <2>4. x # list[1]
      BY <2>3
    <2>5. list[1] \notin RL!ToSet(Last(list))
      <3>1. RL!ToSet(Last(list)) = {list[i] : i \in From(list)..Len(list)}
        BY <1>1, LastOf
      <3>2. \A i \in From(list)..Len(list) : i \in 1..Len(list) /\ 1 < i
        BY <1>1, <1>3, <2>1
      <3>3. \A i \in From(list)..Len(list) : list[1] < list[i]
        <4>1. 1 \in 1..Len(list)
          BY <1>1, <1>3
        <4>2. Sorted(list)
          BY <1>1
        <4>3. \A i, j \in 1..Len(list) : i < j => list[i] < list[j]
          BY <4>2, SortedFacts
        <4> QED
          BY <3>2, <4>1, <4>3
      <3>4. \A i \in From(list)..Len(list) : list[i] # list[1]
        <4>1. list[1] \in Nat
          BY <1>1, <1>3, <2>1, SortedFacts
        <4> QED
          BY <3>3, <4>1
      <3> QED
        BY <3>1, <3>4
    <2>6. list[1] \notin RL!ToSet(Last(Append(all, x)))
      BY <1>1, <1>2, <2>2, <2>5, LastAreKept
    <2>7. Gone(list) = {list[1]}
      BY <1>4 DEF Gone
    <2> QED
      BY <1>1, <2>2, <2>4, <2>6, <2>7 DEF list
  <1>5. CASE ~(Len(list) > limit)
    <2>1. Gone(list) = {}
      BY <1>5 DEF Gone
    <2> QED
      BY <1>1, <2>1 DEF list
  <1> QED
    BY <1>4, <1>5

-----------------------------------------------------------------------------
(* The inductive invariant.                                                *)
Replies == UNION {[D -> SUBSET (1..MaxId)] : D \in SUBSET Uids}
Asked == [state : {"asked"}, all : BOOLEAN, reply : Replies, late : SUBSET Uids]
Waiting == [state : {"waiting"}, uid : Uids]

RLTypes ==
  /\ autoId \in Nat /\ FirstId <= autoId /\ autoId <= MaxId
  /\ _relaseTag \in BOOLEAN /\ crossed \subseteq Uids
  /\ uidMap = nil \/ uidMap \in [Uids -> Seq(Nat) \cup {nil}]
  /\ ~ _relaseTag => uidMap # nil
  /\ db \in [Uids -> SUBSET (1..autoId)] /\ added \in [Uids -> Seq(Nat)]
  /\ \A uid \in Uids : Sorted(added[uid]) /\ RL!ToSet(added[uid]) \subseteq 1..autoId
  /\ lock_tb \in [Uids -> Seq(Callers)]
  /\ rlCalls \in [Callers -> {RL!Idle} \cup Waiting \cup Asked]

(* The lists are in order and of records that came.                        *)
ListsInv ==
  uidMap # nil => \A uid \in Uids : uidMap[uid] # nil =>
    Sorted(uidMap[uid]) /\ RL!ToSet(uidMap[uid]) \subseteq RL!ToSet(added[uid])

(* An answer has what was there, and still has unless the player's records *)
(* changed, which late knows.                                              *)
RepliesInv ==
  \A c \in Callers : rlCalls[c].state = "asked" =>
    /\ IF rlCalls[c].all THEN DOMAIN rlCalls[c].reply = Uids
       ELSE \E uid \in Uids : DOMAIN rlCalls[c].reply = {uid}
    /\ \A uid \in DOMAIN rlCalls[c].reply :
         /\ rlCalls[c].reply[uid] \subseteq RL!ToSet(added[uid])
         /\ ~ _relaseTag /\ uid \notin rlCalls[c].late => rlCalls[c].reply[uid] = db[uid]

(* Who asks for one player is the first of its queue.                      *)
QueueInv ==
  \A c \in Callers :
    /\ rlCalls[c].state = "waiting" => \E i \in 1..Len(lock_tb[rlCalls[c].uid]) : lock_tb[rlCalls[c].uid][i] = c
    /\ rlCalls[c].state = "asked" /\ ~ rlCalls[c].all => \A uid \in DOMAIN rlCalls[c].reply :
         lock_tb[uid] # <<>> /\ Head(lock_tb[uid]) = c

DbInv ==
  /\ ~ _relaseTag => \A uid \in Uids :
       /\ uid \notin crossed /\ uidMap[uid] # nil => RL!ToSet(uidMap[uid]) = db[uid]
       /\ RL!ToSet(Last(added[uid])) \subseteq db[uid] /\ db[uid] \subseteq RL!ToSet(added[uid])
  /\ _relaseTag => \A uid \in Uids : db[uid] = {}

RLInv == RLTypes /\ ListsInv /\ RepliesInv /\ QueueInv /\ DbInv

(* What is known of a call.                                                *)
LEMMA CallFacts ==
  ASSUME RLInv, NEW c \in Callers
  PROVE /\ rlCalls[c].state \in {"idle", "waiting", "asked"}
        /\ rlCalls[c].state = "idle" <=> rlCalls[c] = RL!Idle
        /\ rlCalls[c].state = "waiting" => rlCalls[c] \in Waiting /\ rlCalls[c].uid \in Uids
        /\ rlCalls[c].state = "asked" =>
             /\ rlCalls[c] \in Asked /\ rlCalls[c].all \in BOOLEAN /\ rlCalls[c].late \subseteq Uids
             /\ rlCalls[c].reply \in Replies /\ DOMAIN rlCalls[c].reply \subseteq Uids
             /\ \A uid \in DOMAIN rlCalls[c].reply : rlCalls[c].reply[uid] \in SUBSET (1..MaxId)
  <1>1. rlCalls[c] \in {RL!Idle} \cup Waiting \cup Asked
    BY DEF RLInv, RLTypes
  <1>2. CASE rlCalls[c] = RL!Idle
    BY <1>2 DEF RL!Idle
  <1>3. CASE rlCalls[c] \in Waiting
    BY <1>3 DEF Waiting, RL!Idle
  <1>4. CASE rlCalls[c] \in Asked
    <2>1. rlCalls[c].state = "asked" /\ rlCalls[c].all \in BOOLEAN /\ rlCalls[c].late \subseteq Uids /\ rlCalls[c].reply \in Replies
      BY <1>4 DEF Asked
    <2>2. PICK D \in SUBSET Uids : rlCalls[c].reply \in [D -> SUBSET (1..MaxId)]
      BY <2>1 DEF Replies
    <2>3. DOMAIN rlCalls[c].reply = D /\ \A uid \in D : rlCalls[c].reply[uid] \in SUBSET (1..MaxId)
      BY <2>2
    <2> QED
      BY <1>4, <2>1, <2>3 DEF RL!Idle
  <1> QED
    BY <1>1, <1>2, <1>3, <1>4

(* Every kind of step keeps the invariant.                                 *)
LEMMA RLInit == ASSUME RLAssumption, RL!Init PROVE RLInv
  <1>1. /\ autoId = FirstId /\ _relaseTag = FALSE /\ crossed = {}
        /\ uidMap = [uid \in Uids |-> nil] /\ lock_tb = [uid \in Uids |-> <<>>]
        /\ rlCalls = [c \in Callers |-> RL!Idle]
        /\ added = [uid \in Uids |-> RL!Ascending(db[uid])]
        /\ FirstId \in Nat /\ MaxId \in Nat /\ FirstId <= MaxId
    BY DEF RL!Init, RLAssumption, RL!IdAssumption
  <1>2. db \in [Uids -> SUBSET (1..FirstId)]
    BY DEF RL!Init
  <1>3. \A uid \in Uids : Sorted(added[uid]) /\ RL!ToSet(added[uid]) = db[uid]
    BY <1>1, <1>2, AscendingOf
  <1>4. uidMap # nil /\ \A uid \in Uids : uidMap[uid] = nil
    <2>1. uidMap \in [Uids -> Seq(Nat) \cup {nil}]
      BY <1>1
    <2> QED
      BY <1>1, <2>1 DEF RLAssumption, RL!nilAssumption
  <1>5. RLTypes
    <2>1. added \in [Uids -> Seq(Nat)]
      BY <1>1, <1>3 DEF Sorted
    <2>2. lock_tb \in [Uids -> Seq(Callers)] /\ uidMap \in [Uids -> Seq(Nat) \cup {nil}]
      BY <1>1
    <2>3. rlCalls \in [Callers -> {RL!Idle} \cup Waiting \cup Asked]
      BY <1>1
    <2>4. _relaseTag \in BOOLEAN /\ crossed \subseteq Uids
      BY <1>1
    <2>5. autoId \in Nat /\ FirstId <= autoId /\ autoId <= MaxId /\ db \in [Uids -> SUBSET (1..autoId)]
      BY <1>1, <1>2
    <2>6. \A uid \in Uids : Sorted(added[uid]) /\ RL!ToSet(added[uid]) \subseteq 1..autoId
      BY <1>1, <1>2, <1>3
    <2> QED
      BY <1>4, <2>1, <2>2, <2>3, <2>4, <2>5, <2>6 DEF RLTypes
  <1>6. \A c \in Callers : rlCalls[c].state = "idle"
    BY <1>1 DEF RL!Idle
  <1>7. ListsInv /\ RepliesInv /\ QueueInv
    BY <1>4, <1>6 DEF ListsInv, RepliesInv, QueueInv
  <1>8. DbInv
    <2>1. \A uid \in Uids : RL!ToSet(Last(added[uid])) \subseteq RL!ToSet(added[uid])
      BY <1>3, LastOf DEF RLAssumption
    <2> QED
      BY <1>1, <1>3, <1>4, <2>1 DEF DbInv
  <1> QED
    BY <1>5, <1>7, <1>8 DEF RLInv

(* Only late changes, for those who ask for the player.                    *)
Same(a, b) ==
  /\ a.state = b.state /\ (b.state # "asked" => a = b)
  /\ b.state = "asked" => a.all = b.all /\ a.reply = b.reply

Alike(a, b, uid) ==
  /\ Same(a, b)
  /\ b.state = "asked" =>
       /\ uid \in DOMAIN b.reply => uid \in a.late
       /\ \A u \in Uids : u \in b.late => u \in a.late

LEMMA OvertakeFacts ==
  ASSUME RLInv, NEW uid \in Uids
  PROVE /\ RL!Overtake(uid) \in [Callers -> {RL!Idle} \cup Waiting \cup Asked]
        /\ \A c \in Callers : Alike(RL!Overtake(uid)[c], rlCalls[c], uid)
  <1> SUFFICES ASSUME NEW c \in Callers
               PROVE /\ RL!Overtake(uid)[c] \in {RL!Idle} \cup Waiting \cup Asked
                     /\ Alike(RL!Overtake(uid)[c], rlCalls[c], uid)
    BY DEF RL!Overtake
  <1>1. rlCalls[c] \in {RL!Idle} \cup Waiting \cup Asked
    BY DEF RLInv, RLTypes
  <1>2. CASE RL!Asks(c, uid)
    <2>1. /\ rlCalls[c] \in Asked /\ rlCalls[c].state = "asked" /\ rlCalls[c].all \in BOOLEAN
          /\ rlCalls[c].late \subseteq Uids /\ rlCalls[c].reply \in Replies
      BY <1>2, CallFacts DEF RL!Asks
    <2>2. RL!Overtake(uid)[c] = [rlCalls[c] EXCEPT !.late = rlCalls[c].late \cup {uid}]
      BY <1>2 DEF RL!Overtake
    <2>3. /\ RL!Overtake(uid)[c] \in Asked /\ RL!Overtake(uid)[c].state = "asked"
          /\ RL!Overtake(uid)[c].all = rlCalls[c].all /\ RL!Overtake(uid)[c].reply = rlCalls[c].reply
          /\ RL!Overtake(uid)[c].late = rlCalls[c].late \cup {uid}
      BY <2>1, <2>2 DEF Asked
    <2> QED
      BY <2>1, <2>3 DEF Alike, Same
  <1>3. CASE ~ RL!Asks(c, uid)
    <2>1. RL!Overtake(uid)[c] = rlCalls[c]
      BY <1>3 DEF RL!Overtake
    <2> QED
      BY <1>1, <1>3, <2>1 DEF Alike, Same, RL!Asks
  <1> QED
    BY <1>2, <1>3

(* The queues of the others do not change.                                 *)
LEMMA QueueKept ==
  ASSUME RLInv, lock_tb' = lock_tb,
         \A c \in Callers : \/ rlCalls'[c] = RL!Idle
                            \/ Same(rlCalls'[c], rlCalls[c])
                            \/ rlCalls'[c].state = "asked" /\ rlCalls'[c].all = TRUE
  PROVE QueueInv'
  <1> SUFFICES ASSUME NEW c \in Callers
               PROVE /\ rlCalls'[c].state = "waiting" => \E i \in 1..Len(lock_tb[rlCalls'[c].uid]) : lock_tb[rlCalls'[c].uid][i] = c
                     /\ rlCalls'[c].state = "asked" /\ ~ rlCalls'[c].all => \A uid \in DOMAIN rlCalls'[c].reply :
                          lock_tb[uid] # <<>> /\ Head(lock_tb[uid]) = c
    BY DEF QueueInv
  <1>1. CASE rlCalls'[c] = RL!Idle
    BY <1>1 DEF RL!Idle
  <1>2. CASE rlCalls'[c].state = "asked" /\ rlCalls'[c].all = TRUE
    BY <1>2
  <1>3. CASE Same(rlCalls'[c], rlCalls[c])
    <2>1. /\ rlCalls'[c].state = rlCalls[c].state /\ (rlCalls[c].state # "asked" => rlCalls'[c] = rlCalls[c])
          /\ rlCalls[c].state = "asked" => rlCalls'[c].all = rlCalls[c].all /\ rlCalls'[c].reply = rlCalls[c].reply
      BY <1>3 DEF Same
    <2>2. /\ rlCalls[c].state = "waiting" => \E i \in 1..Len(lock_tb[rlCalls[c].uid]) : lock_tb[rlCalls[c].uid][i] = c
          /\ rlCalls[c].state = "asked" /\ ~ rlCalls[c].all => \A uid \in DOMAIN rlCalls[c].reply :
               lock_tb[uid] # <<>> /\ Head(lock_tb[uid]) = c
      BY DEF RLInv, QueueInv
    <2> QED
      BY <2>1, <2>2
  <1> QED
    BY <1>1, <1>2, <1>3

(* The last record of a player is the newest.                              *)
LEMMA AddRecordInv ==
  ASSUME RLAssumption, RLInv, NEW uid \in Uids, RL!addRecord(uid)
  PROVE RLInv'
  <1> DEFINE x == autoId + 1
  <1> DEFINE list == Longer(uidMap[uid], x)
  <1> DEFINE gone == Gone(list)
  <1>1. /\ ~ _relaseTag /\ autoId < MaxId /\ autoId' = x /\ rlCalls' = RL!Overtake(uid)
        /\ uidMap' = [uidMap EXCEPT ![uid] = IF uidMap[uid] = nil THEN nil
                                             ELSE IF gone # {} THEN Tail(list) ELSE list]
        /\ db' = [db EXCEPT ![uid] = (db[uid] \ gone) \cup {x}]
        /\ added' = [added EXCEPT ![uid] = Append(added[uid], x)]
        /\ UNCHANGED <<_relaseTag, lock_tb, crossed>>
    BY DEF RL!addRecord, Longer, Gone
  <1>2. /\ autoId \in Nat /\ x \in Nat /\ FirstId <= x /\ x <= MaxId /\ uidMap # nil
        /\ uidMap \in [Uids -> Seq(Nat) \cup {nil}] /\ db \in [Uids -> SUBSET (1..autoId)]
        /\ added \in [Uids -> Seq(Nat)] /\ RL!LimitAssumption /\ nil \notin Seq(Nat)
    <2>1. /\ autoId \in Nat /\ x \in Nat /\ FirstId <= x /\ x <= MaxId
      BY <1>1 DEF RLInv, RLTypes, RLAssumption, RL!IdAssumption
    <2>2. /\ uidMap # nil /\ uidMap \in [Uids -> Seq(Nat) \cup {nil}] /\ db \in [Uids -> SUBSET (1..autoId)]
          /\ added \in [Uids -> Seq(Nat)]
      BY <1>1 DEF RLInv, RLTypes
    <2>3. RL!LimitAssumption /\ nil \notin Seq(Nat)
      BY DEF RLAssumption, RL!nilAssumption
    <2> QED
      BY <2>1, <2>2, <2>3
  <1>3. /\ Sorted(added[uid]) /\ \A y \in RL!ToSet(added[uid]) : y < x
        /\ RL!ToSet(added[uid]) \subseteq 1..autoId /\ 1..autoId \subseteq 1..x /\ x \in 1..x
    BY <1>2 DEF RLInv, RLTypes
  <1>4. /\ Sorted(Append(added[uid], x))
        /\ RL!ToSet(Append(added[uid], x)) = RL!ToSet(added[uid]) \cup {x}
        /\ RL!ToSet(Last(Append(added[uid], x))) \subseteq RL!ToSet(Last(added[uid])) \cup {x}
    BY <1>2, <1>3, SortedMore, LastMore
  <1>5. /\ gone \cap RL!ToSet(Last(Append(added[uid], x))) = {} /\ x \notin gone
        /\ uidMap[uid] # nil =>
             /\ Sorted(uidMap[uid]) /\ RL!ToSet(uidMap[uid]) \subseteq RL!ToSet(added[uid])
             /\ Sorted(uidMap'[uid]) /\ uidMap'[uid] \in Seq(Nat)
             /\ RL!ToSet(uidMap'[uid]) = (RL!ToSet(uidMap[uid]) \ gone) \cup {x}
        /\ uidMap[uid] = nil => uidMap'[uid] = nil
    <2>1. CASE uidMap[uid] = nil
      <3>1. gone = {}
        BY <1>2, <2>1 DEF Gone, Longer, RL!LimitAssumption
      <3> QED
        BY <1>1, <1>2, <2>1, <3>1
    <2>2. CASE uidMap[uid] # nil
      <3>1. Sorted(uidMap[uid]) /\ RL!ToSet(uidMap[uid]) \subseteq RL!ToSet(added[uid])
        BY <1>2, <2>2 DEF RLInv, ListsInv
      <3>2. list = Append(uidMap[uid], x) /\ \A y \in RL!ToSet(uidMap[uid]) : y < x
        BY <1>3, <2>2, <3>1 DEF Longer
      <3>3. uidMap'[uid] = IF gone # {} THEN Tail(list) ELSE list
        BY <1>1, <1>2, <2>2
      <3>4. /\ Sorted(uidMap'[uid])
            /\ RL!ToSet(uidMap'[uid]) = (RL!ToSet(uidMap[uid]) \ gone) \cup {x}
            /\ gone \cap RL!ToSet(Last(Append(added[uid], x))) = {} /\ x \notin gone
        <4> DEFINE m == Append(uidMap[uid], x)
        <4>1. /\ Sorted(IF Gone(m) # {} THEN Tail(m) ELSE m)
              /\ RL!ToSet(IF Gone(m) # {} THEN Tail(m) ELSE m) = (RL!ToSet(uidMap[uid]) \ Gone(m)) \cup {x}
              /\ Gone(m) \cap RL!ToSet(Last(Append(added[uid], x))) = {} /\ x \notin Gone(m)
          BY <1>2, <1>3, <3>1, <3>2, ListMore
        <4> QED
          BY <3>2, <3>3, <4>1
      <3> QED
        BY <2>2, <3>1, <3>4 DEF Sorted
    <2> QED
      BY <2>1, <2>2
  <1> HIDE DEF gone, list
  <1>6. /\ \A u \in Uids : u # uid => uidMap'[u] = uidMap[u] /\ db'[u] = db[u] /\ added'[u] = added[u]
        /\ db'[uid] = (db[uid] \ gone) \cup {x} /\ added'[uid] = Append(added[uid], x)
    BY <1>1, <1>2
  <1>7. RLTypes'
    <2>1. uidMap' \in [Uids -> Seq(Nat) \cup {nil}] /\ uidMap' # nil
      <3>1. uidMap' \in [Uids -> Seq(Nat) \cup {nil}]
        BY <1>1, <1>2, <1>5
      <3> QED
        BY <3>1 DEF RLAssumption, RL!nilAssumption
    <2>2. added' \in [Uids -> Seq(Nat)]
      BY <1>1, <1>2, <1>4 DEF Sorted
    <2>3. \A u \in Uids : Sorted(added'[u]) /\ RL!ToSet(added'[u]) \subseteq 1..x
      BY <1>3, <1>4, <1>6 DEF RLInv, RLTypes
    <2>4. db' \in [Uids -> SUBSET (1..x)]
      BY <1>1, <1>2, <1>3
    <2>5. rlCalls' \in [Callers -> {RL!Idle} \cup Waiting \cup Asked]
      BY <1>1, OvertakeFacts
    <2> QED
      BY <1>1, <1>2, <2>1, <2>2, <2>3, <2>4, <2>5 DEF RLInv, RLTypes
  <1>8. ListsInv'
    <2> SUFFICES ASSUME NEW u \in Uids, uidMap'[u] # nil
                 PROVE Sorted(uidMap'[u]) /\ RL!ToSet(uidMap'[u]) \subseteq RL!ToSet(added'[u])
      BY DEF ListsInv
    <2>1. CASE u = uid
      BY <1>4, <1>5, <1>6, <2>1
    <2>2. CASE u # uid
      BY <1>2, <1>6, <2>2 DEF RLInv, ListsInv
    <2> QED
      BY <2>1, <2>2
  <1>9. \A c \in Callers : Alike(rlCalls'[c], rlCalls[c], uid)
    BY <1>1, OvertakeFacts
  <1>10. RepliesInv'
    <2> SUFFICES ASSUME NEW c \in Callers, rlCalls'[c].state = "asked"
                 PROVE /\ IF rlCalls'[c].all THEN DOMAIN rlCalls'[c].reply = Uids
                          ELSE \E u \in Uids : DOMAIN rlCalls'[c].reply = {u}
                       /\ \A u \in DOMAIN rlCalls'[c].reply :
                            /\ rlCalls'[c].reply[u] \subseteq RL!ToSet(added'[u])
                            /\ u \notin rlCalls'[c].late => rlCalls'[c].reply[u] = db'[u]
      BY DEF RepliesInv
    <2>1. /\ rlCalls[c].state = "asked" /\ rlCalls'[c].all = rlCalls[c].all /\ rlCalls'[c].reply = rlCalls[c].reply
          /\ uid \in DOMAIN rlCalls[c].reply => uid \in rlCalls'[c].late
          /\ \A u \in Uids : u \in rlCalls[c].late => u \in rlCalls'[c].late
      BY <1>9 DEF Alike, Same
    <2>2. /\ IF rlCalls[c].all THEN DOMAIN rlCalls[c].reply = Uids
             ELSE \E u \in Uids : DOMAIN rlCalls[c].reply = {u}
          /\ \A u \in DOMAIN rlCalls[c].reply :
               /\ rlCalls[c].reply[u] \subseteq RL!ToSet(added[u])
               /\ u \notin rlCalls[c].late => rlCalls[c].reply[u] = db[u]
      BY <1>1, <2>1 DEF RLInv, RepliesInv
    <2>3. DOMAIN rlCalls[c].reply \subseteq Uids
      BY <2>1, CallFacts
    <2>4. \A u \in Uids : RL!ToSet(added[u]) \subseteq RL!ToSet(added'[u])
      BY <1>4, <1>6
    <2> QED
      BY <1>6, <2>1, <2>2, <2>3, <2>4
  <1>11. QueueInv'
    BY <1>1, <1>9, QueueKept DEF Alike
  <1>12. DbInv'
    <2> SUFFICES ASSUME NEW u \in Uids
                 PROVE /\ u \notin crossed /\ uidMap'[u] # nil => RL!ToSet(uidMap'[u]) = db'[u]
                       /\ RL!ToSet(Last(added'[u])) \subseteq db'[u] /\ db'[u] \subseteq RL!ToSet(added'[u])
      BY <1>1 DEF DbInv
    <2>1. /\ u \notin crossed /\ uidMap[u] # nil => RL!ToSet(uidMap[u]) = db[u]
          /\ RL!ToSet(Last(added[u])) \subseteq db[u] /\ db[u] \subseteq RL!ToSet(added[u])
      BY <1>1 DEF RLInv, DbInv
    <2>2. CASE u = uid
      BY <1>4, <1>5, <1>6, <2>1, <2>2
    <2>3. CASE u # uid
      BY <1>6, <2>1, <2>3
    <2> QED
      BY <2>2, <2>3
  <1> QED
    BY <1>7, <1>8, <1>10, <1>11, <1>12 DEF RLInv

LEMMA ReleaseInv ==
  ASSUME RLAssumption, RLInv, NEW uid \in Uids, RL!releaseRecords(uid)
  PROVE RLInv'
  <1>1. /\ uidMap # nil /\ uidMap' = [uidMap EXCEPT ![uid] = nil]
        /\ UNCHANGED <<autoId, _relaseTag, lock_tb, rlCalls, db, added, crossed>>
    BY DEF RL!releaseRecords
  <1>2. /\ uidMap' \in [Uids -> Seq(Nat) \cup {nil}]
        /\ \A u \in Uids : uidMap'[u] # nil => uidMap'[u] = uidMap[u]
    BY <1>1 DEF RLInv, RLTypes
  <1>3. uidMap' # nil
    BY <1>2 DEF RLAssumption, RL!nilAssumption
  <1>4. RLTypes'
    BY <1>1, <1>2, <1>3 DEF RLInv, RLTypes
  <1>5. ListsInv' /\ DbInv'
    BY <1>1, <1>2 DEF RLInv, ListsInv, DbInv
  <1>6. RepliesInv' /\ QueueInv'
    BY <1>1 DEF RLInv, RepliesInv, QueueInv
  <1> QED
    BY <1>4, <1>5, <1>6 DEF RLInv

LEMMA CleanInv == ASSUME RLAssumption, RLInv, RL!clean PROVE RLInv'
  <1>1. /\ _relaseTag' = TRUE /\ uidMap' = nil /\ db' = [uid \in Uids |-> {}]
        /\ UNCHANGED <<autoId, lock_tb, rlCalls, added, crossed>>
    BY DEF RL!clean
  <1>2. db' \in [Uids -> SUBSET (1..autoId)] /\ _relaseTag' \in BOOLEAN
    BY <1>1
  <1>3. RLTypes'
    BY <1>1, <1>2 DEF RLInv, RLTypes
  <1>4. ListsInv' /\ DbInv'
    BY <1>1 DEF ListsInv, DbInv
  <1>5. RepliesInv' /\ QueueInv'
    BY <1>1 DEF RLInv, RepliesInv, QueueInv
  <1> QED
    BY <1>3, <1>4, <1>5 DEF RLInv

(* A query that is sent asks for what is there.                            *)
LEMMA AskInv ==
  ASSUME RLInv, NEW c \in Callers, NEW a \in Asked, ~ _relaseTag,
         rlCalls' = [rlCalls EXCEPT ![c] = a], a.late = {},
         IF a.all THEN DOMAIN a.reply = Uids ELSE \E uid \in Uids : DOMAIN a.reply = {uid},
         \A uid \in DOMAIN a.reply : a.reply[uid] = db[uid],
         lock_tb' \in [Uids -> Seq(Callers)],
         UNCHANGED <<uidMap, autoId, _relaseTag, db, added, crossed>>
  PROVE RLTypes' /\ ListsInv' /\ RepliesInv' /\ DbInv'
  <1>1. rlCalls' \in [Callers -> {RL!Idle} \cup Waiting \cup Asked]
    BY DEF RLInv, RLTypes
  <1>2. RLTypes'
    BY <1>1 DEF RLInv, RLTypes
  <1>3. ListsInv' /\ DbInv'
    BY DEF RLInv, ListsInv, DbInv
  <1>4. \A d \in Callers : rlCalls'[d] = IF d = c THEN a ELSE rlCalls[d]
    BY DEF RLInv, RLTypes
  <1>5. \A uid \in DOMAIN a.reply : uid \in Uids /\ db[uid] \subseteq RL!ToSet(added[uid])
    <2>1. DOMAIN a.reply \subseteq Uids
      <3>1. CASE a.all
        BY <3>1
      <3>2. CASE ~ a.all
        BY <3>2
      <3> QED
        BY <3>1, <3>2
    <2> QED
      BY <2>1 DEF RLInv, DbInv
  <1>6. RepliesInv'
    <2> SUFFICES ASSUME NEW d \in Callers, rlCalls'[d].state = "asked"
                 PROVE /\ IF rlCalls'[d].all THEN DOMAIN rlCalls'[d].reply = Uids
                          ELSE \E u \in Uids : DOMAIN rlCalls'[d].reply = {u}
                       /\ \A u \in DOMAIN rlCalls'[d].reply :
                            /\ rlCalls'[d].reply[u] \subseteq RL!ToSet(added[u])
                            /\ ~ _relaseTag /\ u \notin rlCalls'[d].late => rlCalls'[d].reply[u] = db[u]
      BY DEF RepliesInv
    <2>1. CASE d = c
      <3>1. rlCalls'[d] = a
        BY <1>4, <2>1
      <3> QED
        BY <1>5, <3>1
    <2>2. CASE d # c
      <3>1. rlCalls'[d] = rlCalls[d]
        BY <1>4, <2>2
      <3> QED
        BY <3>1 DEF RLInv, RepliesInv
    <2> QED
      BY <2>1, <2>2
  <1> QED
    BY <1>2, <1>3, <1>6

LEMMA PreLoadAllInv ==
  ASSUME RLAssumption, RLInv, NEW c \in Callers, RL!preLoadAll(c)
  PROVE RLInv'
  <1> DEFINE a == [state |-> "asked", all |-> TRUE, reply |-> db, late |-> {}]
  <1>1. /\ ~ _relaseTag /\ rlCalls' = [rlCalls EXCEPT ![c] = a]
        /\ UNCHANGED <<uidMap, autoId, _relaseTag, lock_tb, db, added, crossed>>
    BY DEF RL!preLoadAll
  <1>2. db \in [Uids -> SUBSET (1..MaxId)]
    <2>1. db \in [Uids -> SUBSET (1..autoId)] /\ 1..autoId \subseteq 1..MaxId
      BY DEF RLInv, RLTypes, RLAssumption, RL!IdAssumption
    <2> QED
      BY <2>1
  <1>3. db \in Replies
    BY <1>2 DEF Replies
  <1>4. /\ a \in Asked /\ a.late = {} /\ a.all = TRUE /\ a.state = "asked"
        /\ a.reply = db /\ DOMAIN a.reply = Uids
    BY <1>2, <1>3 DEF Asked
  <1> HIDE DEF a
  <1>5. lock_tb' \in [Uids -> Seq(Callers)] /\ lock_tb' = lock_tb
    BY <1>1 DEF RLInv, RLTypes
  <1>6. RLTypes' /\ ListsInv' /\ RepliesInv' /\ DbInv'
    BY <1>1, <1>4, <1>5, AskInv
  <1>7. \A d \in Callers : rlCalls'[d] = IF d = c THEN a ELSE rlCalls[d]
    BY <1>1 DEF RLInv, RLTypes
  <1>8. \A d \in Callers : Same(rlCalls'[d], rlCalls[d]) \/ (rlCalls'[d].state = "asked" /\ rlCalls'[d].all = TRUE)
    BY <1>4, <1>7 DEF Same
  <1>9. QueueInv'
    BY <1>5, <1>8, QueueKept
  <1> QED
    BY <1>6, <1>9 DEF RLInv

(* A call that has ended.                                                  *)
LEMMA EndFacts ==
  ASSUME RLInv, NEW c \in Callers, rlCalls' = [rlCalls EXCEPT ![c] = RL!Idle]
  PROVE /\ rlCalls' \in [Callers -> {RL!Idle} \cup Waiting \cup Asked]
        /\ \A d \in Callers : rlCalls'[d] = IF d = c THEN RL!Idle ELSE rlCalls[d]
        /\ \A d \in Callers : rlCalls'[d] = RL!Idle \/ Same(rlCalls'[d], rlCalls[d])
        /\ \A d \in Callers : rlCalls'[d].state = "asked" => rlCalls'[d] = rlCalls[d]
  <1>1. \A d \in Callers : rlCalls'[d] = IF d = c THEN RL!Idle ELSE rlCalls[d]
    BY DEF RLInv, RLTypes
  <1>2. rlCalls' \in [Callers -> {RL!Idle} \cup Waiting \cup Asked]
    BY DEF RLInv, RLTypes
  <1>3. RL!Idle.state # "asked"
    BY DEF RL!Idle
  <1> QED
    BY <1>1, <1>2, <1>3 DEF Same

LEMMA PreLoadAllReturnsInv ==
  ASSUME RLAssumption, RLInv, NEW c \in Callers, RL!preLoadAllReturns(c)
  PROVE RLInv'
  <1> DEFINE reply == rlCalls[c].reply
  <1>1. /\ rlCalls[c].state = "asked" /\ rlCalls[c].all
        /\ uidMap' = [uid \in Uids |-> IF reply[uid] = {} THEN nil ELSE RL!Ascending(reply[uid])]
        /\ crossed' = rlCalls[c].late /\ rlCalls' = [rlCalls EXCEPT ![c] = RL!Idle]
        /\ UNCHANGED <<autoId, _relaseTag, lock_tb, db, added>>
    BY DEF RL!preLoadAllReturns
  <1>2. /\ DOMAIN reply = Uids /\ rlCalls[c].late \subseteq Uids
        /\ \A uid \in Uids :
             /\ reply[uid] \in SUBSET (1..MaxId) /\ reply[uid] \subseteq RL!ToSet(added[uid])
             /\ ~ _relaseTag /\ uid \notin rlCalls[c].late => reply[uid] = db[uid]
    BY <1>1, CallFacts DEF RLInv, RepliesInv
  <1>3. MaxId \in Nat
    BY DEF RLAssumption, RL!IdAssumption
  <1>4. \A uid \in Uids : /\ Sorted(RL!Ascending(reply[uid]))
                          /\ RL!ToSet(RL!Ascending(reply[uid])) = reply[uid]
    BY <1>2, <1>3, AscendingOf
  <1>5. \A uid \in Uids : uidMap'[uid] # nil =>
          Sorted(uidMap'[uid]) /\ RL!ToSet(uidMap'[uid]) = reply[uid]
    BY <1>1, <1>4
  <1>6. uidMap' \in [Uids -> Seq(Nat) \cup {nil}] /\ uidMap' # nil
    <2>1. uidMap' \in [Uids -> Seq(Nat) \cup {nil}]
      BY <1>1, <1>4 DEF Sorted
    <2> QED
      BY <2>1 DEF RLAssumption, RL!nilAssumption
  <1> HIDE DEF reply
  <1>7. RLTypes'
    BY <1>1, <1>2, <1>6, EndFacts DEF RLInv, RLTypes
  <1>8. ListsInv'
    BY <1>1, <1>2, <1>5 DEF ListsInv
  <1>9. RepliesInv'
    <2>1. \A d \in Callers : rlCalls'[d].state = "asked" => rlCalls'[d] = rlCalls[d]
      BY <1>1, EndFacts
    <2> QED
      BY <1>1, <2>1 DEF RLInv, RepliesInv
  <1>10. QueueInv'
    BY <1>1, EndFacts, QueueKept
  <1>11. DbInv'
    BY <1>1, <1>2, <1>5 DEF RLInv, DbInv
  <1> QED
    BY <1>7, <1>8, <1>9, <1>10, <1>11 DEF RLInv

-----------------------------------------------------------------------------
(* The queues.                                                             *)
In(s, c) == \E i \in 1..Len(s) : s[i] = c

LEMMA OneJoins ==
  ASSUME NEW s \in Seq(Callers), NEW c \in Callers
  PROVE /\ Append(s, c) \in Seq(Callers) /\ Append(s, c) # <<>> /\ In(Append(s, c), c)
        /\ \A d : In(s, d) => In(Append(s, c), d)
        /\ Head(Append(s, c)) = IF s = <<>> THEN c ELSE Head(s)
  <1> DEFINE t == Append(s, c)
  <1>1. /\ t \in Seq(Callers) /\ t # <<>> /\ Len(t) = Len(s) + 1 /\ Len(s) \in Nat
        /\ \A i \in 1..Len(s) : t[i] = s[i]
        /\ t[Len(s) + 1] = c
    BY AppendProperties, LenProperties
  <1>2. Head(t) = IF s = <<>> THEN c ELSE Head(s)
    BY HeadTailAppend
  <1> HIDE DEF t
  <1>3. In(t, c) /\ \A d : In(s, d) => In(t, d)
    BY <1>1 DEF In
  <1> QED
    BY <1>1, <1>2, <1>3 DEF t

LEMMA FirstLeaves ==
  ASSUME NEW s \in Seq(Callers), s # <<>>
  PROVE Tail(s) \in Seq(Callers) /\ \A d : In(s, d) /\ d # Head(s) => In(Tail(s), d)
  <1> DEFINE t == Tail(s)
  <1>1. /\ t \in Seq(Callers) /\ Len(t) = Len(s) - 1 /\ Len(s) \in Nat
        /\ \A i \in 1..Len(t) : t[i] = s[i + 1]
    BY HeadTailProperties, LenProperties
  <1>2. Head(s) = s[1]
    OBVIOUS
  <1> HIDE DEF t
  <1>3. ASSUME NEW d, NEW i \in 1..Len(s), s[i] = d, d # s[1] PROVE In(t, d)
    <2>1. i - 1 \in 1..Len(t) /\ (i - 1) + 1 = i
      BY <1>1, <1>3
    <2> QED
      BY <1>1, <1>3, <2>1 DEF In
  <1> QED
    BY <1>1, <1>2, <1>3 DEF In, t

(* The first one leaves the queue.                                         *)
LEMMA LeaveQueue ==
  ASSUME RLInv, NEW c \in Callers, NEW uid \in Uids, RL!unlock(c, uid),
         lock_tb[uid] # <<>>, Head(lock_tb[uid]) = c,
         rlCalls'[c] = RL!Idle,
         \A d \in Callers : d # c => Same(rlCalls'[d], rlCalls[d])
  PROVE lock_tb' \in [Uids -> Seq(Callers)] /\ QueueInv'
  <1>1. lock_tb \in [Uids -> Seq(Callers)] /\ lock_tb' = [lock_tb EXCEPT ![uid] = Tail(lock_tb[uid])]
    BY DEF RLInv, RLTypes, RL!unlock
  <1>2. /\ Tail(lock_tb[uid]) \in Seq(Callers)
        /\ \A d : In(lock_tb[uid], d) /\ d # c => In(Tail(lock_tb[uid]), d)
    BY <1>1, FirstLeaves
  <1>3. lock_tb' \in [Uids -> Seq(Callers)] /\ lock_tb'[uid] = Tail(lock_tb[uid])
    BY <1>1, <1>2
  <1>4. \A u \in Uids : u # uid => lock_tb'[u] = lock_tb[u]
    BY <1>1
  <1>5. \A u \in Uids, d \in Callers : d # c /\ In(lock_tb[u], d) => In(lock_tb'[u], d)
    BY <1>2, <1>3, <1>4
  <1>6. QueueInv'
    <2> SUFFICES ASSUME NEW d \in Callers
                 PROVE /\ rlCalls'[d].state = "waiting" => In(lock_tb'[rlCalls'[d].uid], d)
                       /\ rlCalls'[d].state = "asked" /\ ~ rlCalls'[d].all => \A u \in DOMAIN rlCalls'[d].reply :
                            lock_tb'[u] # <<>> /\ Head(lock_tb'[u]) = d
      BY DEF QueueInv, In
    <2>1. CASE d = c
      BY <2>1 DEF RL!Idle
    <2>2. CASE d # c
      <3>1. /\ rlCalls'[d].state = rlCalls[d].state /\ (rlCalls[d].state # "asked" => rlCalls'[d] = rlCalls[d])
            /\ rlCalls[d].state = "asked" => rlCalls'[d].all = rlCalls[d].all /\ rlCalls'[d].reply = rlCalls[d].reply
        BY <2>2 DEF Same
      <3>2. /\ rlCalls[d].state = "waiting" => In(lock_tb[rlCalls[d].uid], d) /\ rlCalls[d].uid \in Uids
            /\ rlCalls[d].state = "asked" /\ ~ rlCalls[d].all => \A u \in DOMAIN rlCalls[d].reply :
                 lock_tb[u] # <<>> /\ Head(lock_tb[u]) = d /\ u \in Uids
        BY CallFacts DEF RLInv, QueueInv, In
      <3>3. rlCalls'[d].state = "waiting" => In(lock_tb'[rlCalls'[d].uid], d)
        BY <1>5, <2>2, <3>1, <3>2
      <3>4. ASSUME rlCalls'[d].state = "asked", ~ rlCalls'[d].all, NEW u \in DOMAIN rlCalls'[d].reply
            PROVE lock_tb'[u] # <<>> /\ Head(lock_tb'[u]) = d
        <4>1. lock_tb[u] # <<>> /\ Head(lock_tb[u]) = d /\ u \in Uids
          BY <3>1, <3>2, <3>4
        <4> QED
          BY <1>4, <2>2, <4>1
      <3> QED
        BY <3>3, <3>4
    <2> QED
      BY <2>1, <2>2
  <1> QED
    BY <1>3, <1>6

(* The query for one player.                                               *)
LEMMA QueryInv ==
  ASSUME RLAssumption, RLInv, NEW c \in Callers, NEW uid \in Uids, RL!Query(c, uid), ~ _relaseTag,
         lock_tb' \in [Uids -> Seq(Callers)],
         UNCHANGED <<uidMap, autoId, _relaseTag, db, added, crossed>>
  PROVE /\ RLTypes' /\ ListsInv' /\ RepliesInv' /\ DbInv'
        /\ \A d \in Callers : d # c => rlCalls'[d] = rlCalls[d]
        /\ rlCalls'[c].state = "asked" /\ DOMAIN rlCalls'[c].reply = {uid}
  <1> DEFINE reply == [u \in {uid} |-> db[u]]
  <1> DEFINE a == [state |-> "asked", all |-> FALSE, late |-> {}, reply |-> reply]
  <1>1. reply \in [{uid} -> SUBSET (1..MaxId)] /\ reply[uid] = db[uid] /\ DOMAIN reply = {uid}
    <2>1. db \in [Uids -> SUBSET (1..autoId)] /\ 1..autoId \subseteq 1..MaxId
      BY DEF RLInv, RLTypes, RLAssumption, RL!IdAssumption
    <2> QED
      BY <2>1
  <1>2. reply \in Replies
    BY <1>1 DEF Replies
  <1>3. rlCalls' = [rlCalls EXCEPT ![c] = a]
    BY DEF RL!Query
  <1> HIDE DEF reply
  <1>4. a \in Asked /\ a.state = "asked" /\ a.all = FALSE /\ a.late = {} /\ a.reply = reply
    BY <1>2 DEF Asked
  <1> HIDE DEF a
  <1>5. \A u \in DOMAIN a.reply : a.reply[u] = db[u]
    BY <1>1, <1>4
  <1>6. RLTypes' /\ ListsInv' /\ RepliesInv' /\ DbInv'
    BY <1>1, <1>3, <1>4, <1>5, AskInv
  <1>7. rlCalls'[c] = a /\ \A d \in Callers : d # c => rlCalls'[d] = rlCalls[d]
    BY <1>3 DEF RLInv, RLTypes
  <1> QED
    BY <1>1, <1>4, <1>6, <1>7

LEMMA GetRecordsInv ==
  ASSUME RLAssumption, RLInv, NEW c \in Callers, NEW uid \in Uids, RL!getRecords(c, uid)
  PROVE RLInv'
  <1> DEFINE w == [state |-> "waiting", uid |-> uid]
  <1>1. /\ ~ _relaseTag /\ lock_tb' = [lock_tb EXCEPT ![uid] = Append(lock_tb[uid], c)]
        /\ IF lock_tb[uid] = <<>> THEN RL!Query(c, uid) ELSE rlCalls' = [rlCalls EXCEPT ![c] = w]
        /\ UNCHANGED <<uidMap, autoId, _relaseTag, db, added, crossed>>
    BY DEF RL!getRecords
  <1>2. lock_tb[uid] \in Seq(Callers) /\ lock_tb \in [Uids -> Seq(Callers)]
    BY DEF RLInv, RLTypes
  <1>3. /\ Append(lock_tb[uid], c) \in Seq(Callers) /\ Append(lock_tb[uid], c) # <<>>
        /\ In(Append(lock_tb[uid], c), c)
        /\ \A d : In(lock_tb[uid], d) => In(Append(lock_tb[uid], c), d)
        /\ Head(Append(lock_tb[uid], c)) = IF lock_tb[uid] = <<>> THEN c ELSE Head(lock_tb[uid])
    BY <1>2, OneJoins
  <1>4. /\ lock_tb' \in [Uids -> Seq(Callers)] /\ lock_tb'[uid] # <<>> /\ In(lock_tb'[uid], c)
        /\ Head(lock_tb'[uid]) = IF lock_tb[uid] = <<>> THEN c ELSE Head(lock_tb[uid])
        /\ \A u \in Uids, d \in Callers : In(lock_tb[u], d) => In(lock_tb'[u], d)
        /\ \A u \in Uids : lock_tb[u] # <<>> => lock_tb'[u] # <<>> /\ Head(lock_tb'[u]) = Head(lock_tb[u])
    BY <1>1, <1>2, <1>3
  <1>5. CASE lock_tb[uid] = <<>>
    <2>1. RL!Query(c, uid)
      BY <1>1, <1>5
    <2>2. /\ RLTypes' /\ ListsInv' /\ RepliesInv' /\ DbInv'
          /\ \A d \in Callers : d # c => rlCalls'[d] = rlCalls[d]
          /\ rlCalls'[c].state = "asked" /\ DOMAIN rlCalls'[c].reply = {uid}
      BY <1>1, <1>4, <2>1, QueryInv
    <2>3. QueueInv'
      <3> SUFFICES ASSUME NEW d \in Callers
                   PROVE /\ rlCalls'[d].state = "waiting" => In(lock_tb'[rlCalls'[d].uid], d)
                         /\ rlCalls'[d].state = "asked" /\ ~ rlCalls'[d].all => \A u \in DOMAIN rlCalls'[d].reply :
                              lock_tb'[u] # <<>> /\ Head(lock_tb'[u]) = d
        BY DEF QueueInv, In
      <3>1. CASE d = c
        BY <1>4, <1>5, <2>2, <3>1
      <3>2. CASE d # c
        <4>1. /\ rlCalls[d].state = "waiting" => In(lock_tb[rlCalls[d].uid], d) /\ rlCalls[d].uid \in Uids
              /\ rlCalls[d].state = "asked" /\ ~ rlCalls[d].all => \A u \in DOMAIN rlCalls[d].reply :
                   lock_tb[u] # <<>> /\ Head(lock_tb[u]) = d /\ u \in Uids
          BY CallFacts DEF RLInv, QueueInv, In
        <4>2. rlCalls'[d] = rlCalls[d]
          BY <2>2, <3>2
        <4> QED
          BY <1>4, <4>1, <4>2
      <3> QED
        BY <3>1, <3>2
    <2> QED
      BY <2>2, <2>3 DEF RLInv
  <1>6. CASE lock_tb[uid] # <<>>
    <2>1. rlCalls' = [rlCalls EXCEPT ![c] = w]
      BY <1>1, <1>6
    <2>2. w \in Waiting /\ w.state = "waiting" /\ w.uid = uid
      BY DEF Waiting
    <2> HIDE DEF w
    <2>3. /\ rlCalls' \in [Callers -> {RL!Idle} \cup Waiting \cup Asked]
          /\ rlCalls'[c] = w /\ \A d \in Callers : d # c => rlCalls'[d] = rlCalls[d]
      BY <2>1, <2>2 DEF RLInv, RLTypes
    <2>4. RLTypes'
      BY <1>1, <1>4, <2>3 DEF RLInv, RLTypes
    <2>5. ListsInv' /\ DbInv'
      BY <1>1 DEF RLInv, ListsInv, DbInv
    <2>6. RepliesInv'
      <3>1. \A d \in Callers : rlCalls'[d].state = "asked" => rlCalls'[d] = rlCalls[d]
        BY <2>2, <2>3
      <3> QED
        BY <1>1, <3>1 DEF RLInv, RepliesInv
    <2>7. QueueInv'
      <3> SUFFICES ASSUME NEW d \in Callers
                   PROVE /\ rlCalls'[d].state = "waiting" => In(lock_tb'[rlCalls'[d].uid], d)
                         /\ rlCalls'[d].state = "asked" /\ ~ rlCalls'[d].all => \A u \in DOMAIN rlCalls'[d].reply :
                              lock_tb'[u] # <<>> /\ Head(lock_tb'[u]) = d
        BY DEF QueueInv, In
      <3>1. CASE d = c
        BY <1>4, <2>2, <2>3, <3>1
      <3>2. CASE d # c
        <4>1. /\ rlCalls[d].state = "waiting" => In(lock_tb[rlCalls[d].uid], d) /\ rlCalls[d].uid \in Uids
              /\ rlCalls[d].state = "asked" /\ ~ rlCalls[d].all => \A u \in DOMAIN rlCalls[d].reply :
                   lock_tb[u] # <<>> /\ Head(lock_tb[u]) = d /\ u \in Uids
          BY CallFacts DEF RLInv, QueueInv, In
        <4>2. rlCalls'[d] = rlCalls[d]
          BY <2>3, <3>2
        <4> QED
          BY <1>4, <4>1, <4>2
      <3> QED
        BY <3>1, <3>2
    <2> QED
      BY <2>4, <2>5, <2>6, <2>7 DEF RLInv
  <1> QED
    BY <1>5, <1>6

(* A call ends that loads one player, without anything of it.              *)
LEMMA LeaveInv ==
  ASSUME RLAssumption, RLInv, NEW c \in Callers, NEW uid \in Uids, RL!unlock(c, uid),
         lock_tb[uid] # <<>>, Head(lock_tb[uid]) = c,
         rlCalls' = [rlCalls EXCEPT ![c] = RL!Idle],
         UNCHANGED <<uidMap, autoId, _relaseTag, db, added, crossed>>
  PROVE RLInv'
  <1>1. /\ rlCalls' \in [Callers -> {RL!Idle} \cup Waiting \cup Asked]
        /\ \A d \in Callers : rlCalls'[d] = IF d = c THEN RL!Idle ELSE rlCalls[d]
        /\ \A d \in Callers : rlCalls'[d].state = "asked" => rlCalls'[d] = rlCalls[d]
    BY EndFacts
  <1>2. lock_tb' \in [Uids -> Seq(Callers)] /\ QueueInv'
    BY <1>1, LeaveQueue DEF Same
  <1>3. RLTypes'
    BY <1>1, <1>2 DEF RLInv, RLTypes
  <1>4. ListsInv' /\ DbInv'
    BY DEF RLInv, ListsInv, DbInv
  <1>5. RepliesInv'
    BY <1>1 DEF RLInv, RepliesInv
  <1> QED
    BY <1>2, <1>3, <1>4, <1>5 DEF RLInv

LEMMA LoadRecordsInv ==
  ASSUME RLAssumption, RLInv, NEW c \in Callers, RL!_loadRecords(c)
  PROVE RLInv'
  <1> DEFINE uid == rlCalls[c].uid
  <1>1. /\ rlCalls[c].state = "waiting" /\ Head(lock_tb[uid]) = c
        /\ IF _relaseTag \/ uidMap[uid] # nil
           THEN RL!unlock(c, uid) /\ rlCalls' = [rlCalls EXCEPT ![c] = RL!Idle]
           ELSE RL!Query(c, uid) /\ UNCHANGED lock_tb
        /\ UNCHANGED <<uidMap, autoId, _relaseTag, db, added, crossed>>
    BY DEF RL!_loadRecords
  <1>2. /\ uid \in Uids /\ In(lock_tb[uid], c) /\ lock_tb[uid] \in Seq(Callers)
        /\ lock_tb \in [Uids -> Seq(Callers)]
    BY <1>1, CallFacts DEF RLInv, RLTypes, QueueInv, In
  <1>3. lock_tb[uid] # <<>>
    BY <1>2 DEF In
  <1> HIDE DEF uid
  <1>4. CASE _relaseTag \/ uidMap[uid] # nil
    BY <1>1, <1>2, <1>3, <1>4, LeaveInv
  <1>5. CASE ~ (_relaseTag \/ uidMap[uid] # nil)
    <2>1. RL!Query(c, uid) /\ ~ _relaseTag /\ lock_tb' = lock_tb
      BY <1>1, <1>5
    <2>2. /\ RLTypes' /\ ListsInv' /\ RepliesInv' /\ DbInv'
          /\ \A d \in Callers : d # c => rlCalls'[d] = rlCalls[d]
          /\ rlCalls'[c].state = "asked" /\ DOMAIN rlCalls'[c].reply = {uid}
      BY <1>1, <1>2, <2>1, QueryInv
    <2>3. QueueInv'
      <3> SUFFICES ASSUME NEW d \in Callers
                   PROVE /\ rlCalls'[d].state = "waiting" => In(lock_tb[rlCalls'[d].uid], d)
                         /\ rlCalls'[d].state = "asked" /\ ~ rlCalls'[d].all => \A u \in DOMAIN rlCalls'[d].reply :
                              lock_tb[u] # <<>> /\ Head(lock_tb[u]) = d
        BY <2>1 DEF QueueInv, In
      <3>1. CASE d = c
        BY <1>1, <1>3, <2>2, <3>1
      <3>2. CASE d # c
        BY <2>2, <3>2 DEF RLInv, QueueInv, In
      <3> QED
        BY <3>1, <3>2
    <2> QED
      BY <2>2, <2>3 DEF RLInv
  <1> QED
    BY <1>4, <1>5

(* Who asks for one player.                                                *)
LEMMA OneAsked ==
  ASSUME RLInv, NEW c \in Callers, rlCalls[c].state = "asked", ~ rlCalls[c].all,
         NEW uid \in DOMAIN rlCalls[c].reply
  PROVE /\ uid \in Uids /\ DOMAIN rlCalls[c].reply = {uid} /\ lock_tb[uid] # <<>> /\ Head(lock_tb[uid]) = c
        /\ rlCalls[c].reply[uid] \in SUBSET (1..MaxId) /\ rlCalls[c].late \subseteq Uids
        /\ rlCalls[c].reply[uid] \subseteq RL!ToSet(added[uid])
        /\ ~ _relaseTag /\ uid \notin rlCalls[c].late => rlCalls[c].reply[uid] = db[uid]
  <1>1. \E u \in Uids : DOMAIN rlCalls[c].reply = {u}
    BY DEF RLInv, RepliesInv
  <1>2. uid \in Uids /\ DOMAIN rlCalls[c].reply = {uid}
    BY <1>1
  <1>3. rlCalls[c].reply[uid] \in SUBSET (1..MaxId) /\ rlCalls[c].late \subseteq Uids
    BY CallFacts
  <1>4. lock_tb[uid] # <<>> /\ Head(lock_tb[uid]) = c
    BY DEF RLInv, QueueInv
  <1>5. /\ rlCalls[c].reply[uid] \subseteq RL!ToSet(added[uid])
        /\ ~ _relaseTag /\ uid \notin rlCalls[c].late => rlCalls[c].reply[uid] = db[uid]
    BY DEF RLInv, RepliesInv
  <1> QED
    BY <1>2, <1>3, <1>4, <1>5

LEMMA QueryFailsInv ==
  ASSUME RLAssumption, RLInv, NEW c \in Callers, RL!queryFails(c)
  PROVE RLInv'
  <1>1. PICK uid \in DOMAIN rlCalls[c].reply : RL!unlock(c, uid)
    BY DEF RL!queryFails
  <1>2. uid \in Uids /\ lock_tb[uid] # <<>> /\ Head(lock_tb[uid]) = c
    BY OneAsked DEF RL!queryFails
  <1> QED
    BY <1>1, <1>2, LeaveInv DEF RL!queryFails

(* The answer of a query is put in memory, and what is too much of it      *)
(* deleted: that is none of the last ones.                                 *)
LEMMA KeptFacts ==
  ASSUME RLAssumption, RLInv, NEW uid \in Uids, NEW ids \in SUBSET (1..MaxId),
         ids \subseteq RL!ToSet(added[uid])
  PROVE LET kept == Last(RL!Ascending(ids)) IN
        /\ Sorted(kept) /\ RL!ToSet(kept) \subseteq ids
        /\ (ids \ RL!ToSet(kept)) \cap RL!ToSet(Last(added[uid])) = {}
        /\ ids \ (ids \ RL!ToSet(kept)) = RL!ToSet(kept)
  <1> DEFINE list == RL!Ascending(ids)
  <1> DEFINE kept == Last(list)
  <1>1. MaxId \in Nat /\ RL!LimitAssumption
    BY DEF RLAssumption, RL!IdAssumption
  <1>2. Sorted(list) /\ RL!ToSet(list) = ids
    BY <1>1, AscendingOf
  <1> HIDE DEF list
  <1>3. Sorted(kept) /\ RL!ToSet(kept) \subseteq ids
    BY <1>1, <1>2, LastOf
  <1>4. Sorted(added[uid])
    BY DEF RLInv, RLTypes
  <1>5. ASSUME NEW x \in ids \ RL!ToSet(kept) PROVE x \notin RL!ToSet(Last(added[uid]))
    BY <1>1, <1>2, <1>4, <1>5, LastAreKept
  <1> QED
    BY <1>3, <1>5 DEF list

LEMMA QueryReturnsInv ==
  ASSUME RLAssumption, RLInv, NEW c \in Callers, RL!queryReturns(c)
  PROVE RLInv'
  <1>1. /\ rlCalls[c].state = "asked" /\ ~ rlCalls[c].all
        /\ UNCHANGED <<autoId, _relaseTag, added>>
    BY DEF RL!queryReturns
  <1>2. PICK uid \in DOMAIN rlCalls[c].reply :
       LET data == RL!buildData(rlCalls[c].reply[uid]) IN
       /\ RL!unlock(c, uid)
       /\ IF _relaseTag THEN UNCHANGED <<uidMap, db, crossed>>
          ELSE /\ uidMap' = [uidMap EXCEPT ![uid] = data.list]
               /\ db' = [db EXCEPT ![uid] = @ \ data.rmIds]
               /\ crossed' = (crossed \ {uid}) \cup rlCalls[c].late
       /\ rlCalls' = [IF _relaseTag \/ data.rmIds = {} THEN rlCalls ELSE RL!Overtake(uid)
                      EXCEPT ![c] = RL!Idle]
    BY DEF RL!queryReturns
  <1> DEFINE ids == rlCalls[c].reply[uid]
  <1> DEFINE kept == Last(RL!Ascending(ids))
  <1> DEFINE rmIds == ids \ RL!ToSet(kept)
  <1>3. /\ uid \in Uids /\ DOMAIN rlCalls[c].reply = {uid} /\ lock_tb[uid] # <<>> /\ Head(lock_tb[uid]) = c
        /\ ids \in SUBSET (1..MaxId) /\ rlCalls[c].late \subseteq Uids
        /\ ids \subseteq RL!ToSet(added[uid])
        /\ ~ _relaseTag /\ uid \notin rlCalls[c].late => ids = db[uid]
    BY <1>1, OneAsked
  <1>4. RL!buildData(ids).list = kept /\ RL!buildData(ids).rmIds = rmIds
    BY DEF RL!buildData, Last, From
  <1>5. /\ Sorted(kept) /\ RL!ToSet(kept) \subseteq ids
        /\ rmIds \cap RL!ToSet(Last(added[uid])) = {} /\ ids \ rmIds = RL!ToSet(kept)
    BY <1>3, KeptFacts
  <1> DEFINE before == IF _relaseTag \/ rmIds = {} THEN rlCalls ELSE RL!Overtake(uid)
  <1>6. /\ RL!unlock(c, uid)
        /\ IF _relaseTag THEN UNCHANGED <<uidMap, db, crossed>>
           ELSE /\ uidMap' = [uidMap EXCEPT ![uid] = kept]
                /\ db' = [db EXCEPT ![uid] = @ \ rmIds]
                /\ crossed' = (crossed \ {uid}) \cup rlCalls[c].late
        /\ rlCalls' = [before EXCEPT ![c] = RL!Idle]
    BY <1>2, <1>4
  <1> HIDE DEF kept, rmIds, ids
  <1>7. CASE _relaseTag
    BY <1>1, <1>3, <1>6, <1>7, LeaveInv
  <1>8. CASE ~ _relaseTag
    <2>1. /\ before \in [Callers -> {RL!Idle} \cup Waiting \cup Asked]
          /\ \A d \in Callers : /\ Same(before[d], rlCalls[d])
                                /\ rlCalls[d].state = "asked" =>
                                     /\ rmIds # {} /\ uid \in DOMAIN rlCalls[d].reply => uid \in before[d].late
                                     /\ \A u \in Uids : u \in rlCalls[d].late => u \in before[d].late
      <3>1. CASE rmIds = {}
        BY <1>8, <3>1 DEF RLInv, RLTypes, Same
      <3>2. CASE rmIds # {}
        <4>1. before = RL!Overtake(uid)
          BY <1>8, <3>2
        <4> QED
          BY <1>3, <4>1, OvertakeFacts DEF Alike
      <3> QED
        BY <3>1, <3>2
    <2> HIDE DEF before
    <2>2. /\ rlCalls' \in [Callers -> {RL!Idle} \cup Waiting \cup Asked]
          /\ \A d \in Callers : rlCalls'[d] = IF d = c THEN RL!Idle ELSE before[d]
      BY <1>6, <2>1
    <2>3. lock_tb' \in [Uids -> Seq(Callers)] /\ QueueInv'
      BY <1>3, <1>6, <2>1, <2>2, LeaveQueue
    <2>4. /\ uidMap # nil /\ uidMap \in [Uids -> Seq(Nat) \cup {nil}] /\ db \in [Uids -> SUBSET (1..autoId)]
          /\ crossed \subseteq Uids
      BY <1>8 DEF RLInv, RLTypes
    <2>5. /\ uidMap' \in [Uids -> Seq(Nat) \cup {nil}] /\ uidMap'[uid] = kept
          /\ db' \in [Uids -> SUBSET (1..autoId)] /\ db'[uid] = db[uid] \ rmIds
          /\ crossed' = (crossed \ {uid}) \cup rlCalls[c].late /\ crossed' \subseteq Uids
          /\ \A u \in Uids : u # uid => uidMap'[u] = uidMap[u] /\ db'[u] = db[u]
      BY <1>3, <1>5, <1>6, <1>8, <2>4 DEF Sorted
    <2>6. RLTypes'
      <3>1. uidMap' # nil
        BY <2>5 DEF RLAssumption, RL!nilAssumption
      <3> QED
        BY <1>1, <2>2, <2>3, <2>5, <3>1 DEF RLInv, RLTypes
    <2>7. ListsInv'
      <3> SUFFICES ASSUME NEW u \in Uids, uidMap'[u] # nil
                   PROVE Sorted(uidMap'[u]) /\ RL!ToSet(uidMap'[u]) \subseteq RL!ToSet(added[u])
        BY <1>1 DEF ListsInv
      <3>1. CASE u = uid
        BY <1>3, <1>5, <2>5, <3>1
      <3>2. CASE u # uid
        BY <2>4, <2>5, <3>2 DEF RLInv, ListsInv
      <3> QED
        BY <3>1, <3>2
    <2>8. RepliesInv'
      <3> SUFFICES ASSUME NEW d \in Callers, rlCalls'[d].state = "asked"
                   PROVE /\ IF rlCalls'[d].all THEN DOMAIN rlCalls'[d].reply = Uids
                            ELSE \E u \in Uids : DOMAIN rlCalls'[d].reply = {u}
                         /\ \A u \in DOMAIN rlCalls'[d].reply :
                              /\ rlCalls'[d].reply[u] \subseteq RL!ToSet(added[u])
                              /\ u \notin rlCalls'[d].late => rlCalls'[d].reply[u] = db'[u]
        BY <1>1, <1>8 DEF RepliesInv
      <3>1. d # c /\ rlCalls'[d] = before[d]
        BY <2>2 DEF RL!Idle
      <3>2. /\ rlCalls[d].state = "asked" /\ rlCalls'[d].all = rlCalls[d].all /\ rlCalls'[d].reply = rlCalls[d].reply
            /\ rmIds # {} /\ uid \in DOMAIN rlCalls[d].reply => uid \in rlCalls'[d].late
            /\ \A u \in Uids : u \in rlCalls[d].late => u \in rlCalls'[d].late
        BY <2>1, <3>1 DEF Same
      <3>3. /\ IF rlCalls[d].all THEN DOMAIN rlCalls[d].reply = Uids
               ELSE \E u \in Uids : DOMAIN rlCalls[d].reply = {u}
            /\ \A u \in DOMAIN rlCalls[d].reply :
                 /\ rlCalls[d].reply[u] \subseteq RL!ToSet(added[u])
                 /\ u \notin rlCalls[d].late => rlCalls[d].reply[u] = db[u]
        BY <1>8, <3>2 DEF RLInv, RepliesInv
      <3>4. DOMAIN rlCalls[d].reply \subseteq Uids
        BY <3>2, CallFacts
      <3>5. rmIds = {} => db'[uid] = db[uid]
        BY <2>5
      <3>6. ASSUME NEW u \in DOMAIN rlCalls'[d].reply, u \notin rlCalls'[d].late
            PROVE rlCalls'[d].reply[u] = db'[u]
        <4>1. u \in DOMAIN rlCalls[d].reply /\ u \in Uids /\ rlCalls'[d].reply[u] = rlCalls[d].reply[u]
          BY <3>2, <3>4, <3>6
        <4>2. u \notin rlCalls[d].late /\ (u = uid => rmIds = {})
          BY <3>2, <3>6, <4>1
        <4>3. rlCalls[d].reply[u] = db[u]
          BY <3>3, <4>1, <4>2
        <4>4. db'[u] = db[u]
          BY <2>5, <3>5, <4>1, <4>2
        <4> QED
          BY <4>1, <4>3, <4>4
      <3>7. /\ IF rlCalls'[d].all THEN DOMAIN rlCalls'[d].reply = Uids
               ELSE \E u \in Uids : DOMAIN rlCalls'[d].reply = {u}
            /\ \A u \in DOMAIN rlCalls'[d].reply : rlCalls'[d].reply[u] \subseteq RL!ToSet(added[u])
        BY <3>2, <3>3
      <3> QED
        BY <3>6, <3>7
    <2>9. DbInv'
      <3> SUFFICES ASSUME NEW u \in Uids
                   PROVE /\ u \notin crossed' /\ uidMap'[u] # nil => RL!ToSet(uidMap'[u]) = db'[u]
                         /\ RL!ToSet(Last(added[u])) \subseteq db'[u] /\ db'[u] \subseteq RL!ToSet(added[u])
        BY <1>1, <1>8 DEF DbInv
      <3>1. /\ u \notin crossed /\ uidMap[u] # nil => RL!ToSet(uidMap[u]) = db[u]
            /\ RL!ToSet(Last(added[u])) \subseteq db[u] /\ db[u] \subseteq RL!ToSet(added[u])
        BY <1>8 DEF RLInv, DbInv
      <3>2. CASE u = uid
        BY <1>3, <1>5, <1>8, <2>5, <3>1, <3>2
      <3>3. CASE u # uid
        BY <2>5, <3>1, <3>3
      <3> QED
        BY <3>2, <3>3
    <2> QED
      BY <2>3, <2>6, <2>7, <2>8, <2>9 DEF RLInv
  <1> QED
    BY <1>7, <1>8

LEMMA RLStep == ASSUME RLAssumption, RLInv, [RL!Next]_(RL!vars) PROVE RLInv'
  <1>1. ASSUME NEW uid \in Uids, RL!addRecord(uid) PROVE RLInv'
    BY <1>1, AddRecordInv
  <1>2. ASSUME NEW uid \in Uids, RL!releaseRecords(uid) PROVE RLInv'
    BY <1>2, ReleaseInv
  <1>3. CASE RL!clean
    BY <1>3, CleanInv
  <1>4. ASSUME NEW c \in Callers, RL!preLoadAll(c) PROVE RLInv'
    BY <1>4, PreLoadAllInv
  <1>5. ASSUME NEW c \in Callers, RL!preLoadAllReturns(c) PROVE RLInv'
    BY <1>5, PreLoadAllReturnsInv
  <1>6. ASSUME NEW c \in Callers, NEW uid \in Uids, RL!getRecords(c, uid) PROVE RLInv'
    BY <1>6, GetRecordsInv
  <1>7. ASSUME NEW c \in Callers, RL!_loadRecords(c) PROVE RLInv'
    BY <1>7, LoadRecordsInv
  <1>8. ASSUME NEW c \in Callers, RL!queryReturns(c) PROVE RLInv'
    BY <1>8, QueryReturnsInv
  <1>9. ASSUME NEW c \in Callers, RL!queryFails(c) PROVE RLInv'
    BY <1>9, QueryFailsInv
  <1>10. CASE UNCHANGED RL!vars
    BY <1>10 DEF RL!vars, RLInv, RLTypes, ListsInv, RepliesInv, QueueInv, DbInv
  <1> QED
    BY <1>1, <1>2, <1>3, <1>4, <1>5, <1>6, <1>7, <1>8, <1>9, <1>10 DEF RL!Next

(* What the invariant says of the lists is what RecordsAreRight says.      *)
LEMMA RecordsFollow == ASSUME RLAssumption, RLInv PROVE RL!RecordsAreRight
  <1>1. /\ FirstId \in Nat /\ MaxId \in Nat /\ autoId \in Nat /\ FirstId <= autoId /\ autoId <= MaxId
        /\ 1..autoId \subseteq 1..MaxId /\ db \in [Uids -> SUBSET (1..autoId)]
        /\ _relaseTag \in BOOLEAN /\ crossed \subseteq Uids
        /\ \A uid \in Uids : Sorted(added[uid]) /\ RL!ToSet(added[uid]) \subseteq 1..autoId
    BY DEF RLAssumption, RL!IdAssumption, RLInv, RLTypes
  <1>2. ASSUME uidMap # nil, NEW uid \in Uids, uidMap[uid] # nil PROVE uidMap[uid] \in Seq(1..MaxId)
    <2> DEFINE list == uidMap[uid]
    <2>1. list \in Seq(Nat) /\ RL!ToSet(list) \subseteq 1..MaxId
      BY <1>1, <1>2 DEF RLInv, ListsInv, Sorted
    <2> HIDE DEF list
    <2>2. list = [i \in 1..Len(list) |-> list[i]] /\ Len(list) \in Nat
      BY <2>1, LenProperties
    <2>3. \A i \in 1..Len(list) : list[i] \in 1..MaxId
      BY <2>1, ToSetIs
    <2>4. [i \in 1..Len(list) |-> list[i]] \in Seq(1..MaxId)
      BY <2>2, <2>3
    <2> QED
      BY <2>2, <2>4 DEF list
  <1>3. RL!TypeOK
    BY <1>1, <1>2, CallFacts DEF RL!TypeOK
  <1>4. RL!MemoryIsDatabase
    <2> SUFFICES ASSUME ~ _relaseTag, NEW uid \in Uids \ crossed, uidMap[uid] # nil
                 PROVE uidMap[uid] = RL!Ascending(db[uid])
      BY DEF RL!MemoryIsDatabase
    <2>1. Sorted(uidMap[uid]) /\ RL!ToSet(uidMap[uid]) = db[uid]
      BY DEF RLInv, RLTypes, ListsInv, DbInv
    <2> QED
      BY <2>1, AscendingIs
  <1>5. RL!NewestAreKept
    <2> SUFFICES ASSUME ~ _relaseTag, NEW uid \in Uids
                 PROVE RL!ToSet(RL!Newest(uid)) \subseteq db[uid] /\ db[uid] \subseteq RL!ToSet(added[uid])
      BY DEF RL!NewestAreKept
    <2>1. RL!Newest(uid) = Last(added[uid])
      BY DEF RL!Newest, Last, From
    <2> QED
      BY <2>1 DEF RLInv, DbInv
  <1>6. RL!CleanIsFinal
    BY DEF RL!CleanIsFinal, RLInv, DbInv
  <1>7. RL!OneLoads
    <2> SUFFICES ASSUME NEW uid \in Uids
                 PROVE RL!Cardinality({c \in Callers : RL!Asks(c, uid) /\ ~ rlCalls[c].all}) <= 1
      BY DEF RL!OneLoads
    <2> DEFINE S == {c \in Callers : RL!Asks(c, uid) /\ ~ rlCalls[c].all}
    <2>1. \A c \in S : c = Head(lock_tb[uid])
      BY DEF RLInv, QueueInv, RL!Asks
    <2> HIDE DEF S
    <2>2. S = {} \/ S = {Head(lock_tb[uid])}
      BY <2>1
    <2>3. Cardinality(S) = 0 \/ Cardinality(S) = 1
      BY <2>2, FS_EmptySet, FS_Singleton
    <2> QED
      BY <2>3, SameCounts DEF S
  <1> QED
    BY <1>3, <1>4, <1>5, <1>6, <1>7 DEF RL!RecordsAreRight

(* liblua/recordListMgr.lua: a list in memory that no records crossed while*)
(* it was loaded has exactly the records of the database in their order,   *)
(* the last records of a player are never deleted, nothing comes back after*)
(* clean, and one caller at a time loads a player.                         *)
THEOREM RecordsCorrect == ASSUME RLAssumption PROVE RL!Spec => []RL!RecordsAreRight
  <1>1. RL!Init => RLInv
    BY RLInit
  <1>2. RLInv /\ [RL!Next]_(RL!vars) => RLInv'
    BY RLStep
  <1>3. RLInv => RL!RecordsAreRight
    BY RecordsFollow
  <1> QED
    BY <1>1, <1>2, <1>3, PTL DEF RL!Spec

-----------------------------------------------------------------------------
(* LQueue.  TypeOK and Linked become inductive with Filled, that a pushed  *)
(* node holds an object, and Fresh, that a new node is linked to nothing.  *)
(* Under them every call of the linked queue is the same call of a FIFO.   *)

LEMMA PushesAreBounded == MaxPushes \in Nat
  BY TablesAssumption DEF LQ!NodesAssumption

USE PushesAreBounded DEF LQ!noNode, LQ!Nodes

Filled == \A n \in 1..pushed : obj[n] \in Objs
Fresh == \A n \in LQ!Nodes : n > pushed => next[n] = LQ!noNode

LQInv == LQ!TypeOK /\ LQ!Linked /\ Filled /\ Fresh

(* The empty queue is linked.                                              *)
LEMMA LQInit == LQ!Init => LQInv
  BY DEF LQ!Init, LQInv, LQ!TypeOK, LQ!Linked, Filled, Fresh

(* A push links the new node behind the others.                             *)
LEMMA PushInv ==
  ASSUME LQInv, NEW o \in Objs, LQ!push(o)
  PROVE LQInv'
  <1> DEFINE new == pushed + 1
  <1>1. new \in LQ!Nodes /\ pushed' = new /\ obj' = [obj EXCEPT ![new] = o] /\ LQ!PushTo(o, new)
    BY DEF LQ!push, LQInv, LQ!TypeOK
  <1>2. obj' \in [LQ!Nodes -> Objs \cup {nil}] /\ pushed' \in 0..MaxPushes /\ Filled'
    BY <1>1 DEF LQInv, LQ!TypeOK, Filled
  <1>3. CASE head = LQ!noNode
    <2>1. last = LQ!noNode /\ head' = new /\ size' = 1 /\ last' = last /\ next' = next
      BY <1>1, <1>3 DEF LQ!PushTo, LQInv, LQ!Linked
    <2> QED
      BY <1>1, <1>2, <2>1 DEF LQInv, LQ!TypeOK, LQ!Linked, Fresh
  <1>4. CASE head # LQ!noNode
    <2> DEFINE tail == IF last = LQ!noNode THEN head ELSE last
    <2>1. /\ tail = pushed /\ head' = head /\ last' = new /\ size' = size + 1
          /\ next' = [next EXCEPT ![tail] = new]
      <3>1. tail = pushed
        BY <1>4 DEF LQInv, LQ!Linked, LQ!TypeOK
      <3> QED
        BY <1>1, <1>4, <3>1 DEF LQ!PushTo
    <2>2. \A n \in LQ!Nodes : next'[n] = IF n = pushed THEN new ELSE next[n]
      BY <1>4, <2>1 DEF LQInv, LQ!TypeOK
    <2>3. next' \in [LQ!Nodes -> 0..MaxPushes]
      <3>1. new \in 0..MaxPushes /\ next \in [LQ!Nodes -> 0..MaxPushes]
        BY <1>1 DEF LQInv, LQ!TypeOK
      <3> HIDE DEF new, tail
      <3> QED
        BY <2>1, <3>1
    <2>4. head <= pushed /\ size = pushed + 1 - head
      BY <1>4 DEF LQInv, LQ!Linked
    <2>5. LQ!TypeOK'
      BY <1>1, <1>2, <1>4, <2>1, <2>3, <2>4 DEF LQInv, LQ!TypeOK
    <2>6. Fresh'
      BY <1>1, <2>2 DEF LQInv, LQ!TypeOK, Fresh
    <2>7. LQ!Linked'
      <3>1. \A n \in head'..pushed' : next'[n] = IF n < pushed' THEN n + 1 ELSE LQ!noNode
        BY <1>1, <1>4, <2>1, <2>2 DEF LQInv, LQ!TypeOK, LQ!Linked, Fresh
      <3> QED
        BY <1>1, <1>4, <2>1, <2>4, <3>1 DEF LQInv, LQ!TypeOK, LQ!Linked
    <2> QED
      BY <1>2, <2>5, <2>6, <2>7 DEF LQInv
  <1> QED
    BY <1>3, <1>4

(* A pop unlinks the first new.                                            *)
LEMMA PopInv ==
  ASSUME LQInv, LQ!pop
  PROVE LQInv'
  <1>1. CASE head = LQ!noNode
    BY <1>1 DEF LQ!pop, LQInv, LQ!TypeOK, LQ!Linked, Filled, Fresh
  <1>2. CASE head # LQ!noNode
    <2>1. /\ head' = next[head] /\ size' = size - 1 /\ UNCHANGED <<obj, next, pushed>>
          /\ last' = IF head' = LQ!noNode \/ next[head'] = LQ!noNode THEN LQ!noNode ELSE last
      BY <1>2 DEF LQ!pop
    <2>2. /\ head \in 1..pushed /\ pushed \in 1..MaxPushes /\ size = pushed + 1 - head
          /\ head' = IF head < pushed THEN head + 1 ELSE LQ!noNode
          /\ last = IF head < pushed THEN pushed ELSE LQ!noNode
      BY <1>2, <2>1 DEF LQInv, LQ!TypeOK, LQ!Linked
    <2>3. CASE head = pushed
      BY <2>1, <2>2, <2>3 DEF LQInv, LQ!TypeOK, LQ!Linked, Filled, Fresh
    <2>4. CASE head < pushed
      <3>1. head' = head + 1 /\ next[head'] = IF head' < pushed THEN head' + 1 ELSE LQ!noNode
        BY <1>2, <2>2, <2>4 DEF LQInv, LQ!Linked
      <3>2. last' = IF head' < pushed THEN pushed ELSE LQ!noNode
        BY <2>1, <2>2, <2>4, <3>1
      <3>3. LQ!Linked'
        BY <1>2, <2>1, <2>2, <2>4, <3>1, <3>2 DEF LQInv, LQ!Linked
      <3> QED
        BY <2>1, <2>2, <2>4, <3>1, <3>2, <3>3 DEF LQInv, LQ!TypeOK, Filled, Fresh
    <2> QED
      BY <2>2, <2>3, <2>4
  <1> QED
    BY <1>1, <1>2

(* Every step keeps the invariant.                                         *)
LEMMA LQStep == LQInv /\ [LQ!Next]_(LQ!vars) => LQInv'
  <1> SUFFICES ASSUME LQInv, [LQ!Next]_(LQ!vars) PROVE LQInv'
    OBVIOUS
  <1>1. ASSUME NEW o \in Objs, LQ!push(o) PROVE LQInv'
    BY <1>1, PushInv
  <1>2. CASE LQ!pop
    BY <1>2, PopInv
  <1>3. CASE LQ!rawGetHeadDate \/ LQ!sizeOf \/ UNCHANGED LQ!vars
    BY <1>3 DEF LQ!rawGetHeadDate, LQ!sizeOf, LQ!vars, LQInv, LQ!TypeOK, LQ!Linked, Filled, Fresh
  <1> QED
    BY <1>1, <1>2, <1>3 DEF LQ!Next

-----------------------------------------------------------------------------
(* The nodes from first to end hold a sequence of objects.                 *)
LEMMA HeldType ==
  ASSUME NEW first \in Nat, NEW end \in Nat, first # LQ!noNode => first <= end,
         NEW o, \A n \in 1..end : o[n] \in Objs
  PROVE /\ LQ!Held(first, end, o) \in Seq(Objs)
        /\ LQ!Held(first, end, o) = <<>> <=> first = LQ!noNode
        /\ Len(LQ!Held(first, end, o)) = IF first = LQ!noNode THEN 0 ELSE end + 1 - first
        /\ \A i \in 1..Len(LQ!Held(first, end, o)) : LQ!Held(first, end, o)[i] = o[first + i - 1]
  <1>1. CASE first = LQ!noNode
    BY <1>1 DEF LQ!Held
  <1>2. CASE first # LQ!noNode
    <2> DEFINE len == end + 1 - first
    <2>1. len \in Nat \ {0} /\ first \in 1..end
      BY <1>2
    <2>2. LQ!Held(first, end, o) = [i \in 1..len |-> o[first + i - 1]]
      BY <1>2 DEF LQ!Held
    <2>3. \A i \in 1..len : o[first + i - 1] \in Objs
      BY <2>1
    <2> HIDE DEF len
    <2>4. LQ!Held(first, end, o) \in Seq(Objs) /\ Len(LQ!Held(first, end, o)) = len
      BY <2>1, <2>2, <2>3, IsASeq, LenProperties
    <2>5. LQ!Held(first, end, o) # <<>>
      BY <2>1, <2>4, EmptySeq
    <2> QED
      BY <1>2, <2>2, <2>4, <2>5 DEF len
  <1> QED
    BY <1>1, <1>2

(* Items are such a sequence.                                              *)
LEMMA ItemsType ==
  LQInv => /\ LQ!Items \in Seq(Objs) /\ Len(LQ!Items) = size
           /\ LQ!Items = <<>> <=> head = LQ!noNode
           /\ \A i \in 1..size : LQ!Items[i] = obj[head + i - 1]
  <1> SUFFICES ASSUME LQInv
               PROVE /\ LQ!Items \in Seq(Objs) /\ Len(LQ!Items) = size
                     /\ LQ!Items = <<>> <=> head = LQ!noNode
                     /\ \A i \in 1..size : LQ!Items[i] = obj[head + i - 1]
    OBVIOUS
  <1>1. /\ head \in Nat /\ pushed \in Nat
        /\ head # LQ!noNode => head <= pushed
        /\ \A n \in 1..pushed : obj[n] \in Objs
        /\ size = IF head = LQ!noNode THEN 0 ELSE pushed + 1 - head
    BY DEF LQInv, LQ!TypeOK, LQ!Linked, Filled
  <1>2. /\ LQ!Held(head, pushed, obj) \in Seq(Objs)
        /\ LQ!Held(head, pushed, obj) = <<>> <=> head = LQ!noNode
        /\ Len(LQ!Held(head, pushed, obj)) = IF head = LQ!noNode THEN 0 ELSE pushed + 1 - head
        /\ \A i \in 1..Len(LQ!Held(head, pushed, obj)) :
             LQ!Held(head, pushed, obj)[i] = obj[head + i - 1]
    BY <1>1, HeldType
  <1> QED
    BY <1>1, <1>2 DEF LQ!Items

(* The same after a step.                                                  *)
LEMMA ItemsTypeAfter ==
  LQInv' => /\ LQ!Items' \in Seq(Objs) /\ Len(LQ!Items') = size'
            /\ LQ!Items' = <<>> <=> head' = LQ!noNode
            /\ \A i \in 1..size' : LQ!Items'[i] = obj'[head' + i - 1]
  <1> SUFFICES ASSUME LQInv'
               PROVE /\ LQ!Items' \in Seq(Objs) /\ Len(LQ!Items') = size'
                     /\ LQ!Items' = <<>> <=> head' = LQ!noNode
                     /\ \A i \in 1..size' : LQ!Items'[i] = obj'[head' + i - 1]
    OBVIOUS
  <1>1. /\ head' \in Nat /\ pushed' \in Nat
        /\ head' # LQ!noNode => head' <= pushed'
        /\ \A n \in 1..pushed' : obj'[n] \in Objs
        /\ size' = IF head' = LQ!noNode THEN 0 ELSE pushed' + 1 - head'
    <2>1. LQ!TypeOK' /\ LQ!Linked' /\ Filled'
      BY DEF LQInv
    <2>2. \A n \in 1..pushed' : obj'[n] \in Objs
      BY <2>1 DEF Filled
    <2>3. head' \in Nat /\ pushed' \in Nat
      BY <2>1 DEF LQ!TypeOK
    <2>4. /\ head' # LQ!noNode => head' <= pushed'
          /\ size' = IF head' = LQ!noNode THEN 0 ELSE pushed' + 1 - head'
      BY <2>1 DEF LQ!Linked
    <2> QED
      BY <2>2, <2>3, <2>4
  <1>2. PICK h, e, f : h = head' /\ e = pushed' /\ f = obj'
    OBVIOUS
  <1>3. h \in Nat /\ e \in Nat /\ (h # LQ!noNode => h <= e) /\ \A n \in 1..e : f[n] \in Objs
    BY <1>1, <1>2
  <1>4. /\ LQ!Held(h, e, f) \in Seq(Objs)
        /\ LQ!Held(h, e, f) = <<>> <=> h = LQ!noNode
        /\ Len(LQ!Held(h, e, f)) = IF h = LQ!noNode THEN 0 ELSE e + 1 - h
        /\ \A i \in 1..Len(LQ!Held(h, e, f)) : LQ!Held(h, e, f)[i] = f[h + i - 1]
    BY <1>3, HeldType
  <1>5. LQ!Items' = LQ!Held(h, e, f)
    BY <1>2 DEF LQ!Items
  <1> QED
    BY <1>1, <1>2, <1>4, <1>5

(* A push is a push of the FIFO.                                           *)
LEMMA PushRefines ==
  ASSUME LQInv, NEW o \in Objs, LQ!push(o)
  PROVE LQ!Queue!Push(o)
  <1>1. LQInv'
    BY PushInv
  <1>2. /\ pushed' = pushed + 1 /\ obj' = [obj EXCEPT ![pushed + 1] = o] /\ returned' = nil
        /\ pushed + 1 \in LQ!Nodes /\ LQ!PushTo(o, pushed + 1)
    BY DEF LQ!push, LQInv, LQ!TypeOK
  <1>3. /\ size \in Nat /\ size' = size + 1 /\ head' = IF head = LQ!noNode THEN pushed + 1 ELSE head
        /\ head' + size = pushed + 1
    <2>1. CASE head = LQ!noNode
      BY <1>2, <2>1 DEF LQ!PushTo, LQInv, LQ!Linked, LQ!TypeOK
    <2>2. CASE head # LQ!noNode
      <3>1. size \in Nat /\ size' = size + 1 /\ head' = head
        BY <1>2, <2>2 DEF LQ!PushTo, LQInv, LQ!TypeOK
      <3> QED
        BY <2>2, <3>1 DEF LQInv, LQ!Linked, LQ!TypeOK
    <2> QED
      BY <2>1, <2>2
  <1>4. \A n \in LQ!Nodes : obj'[n] = IF n = pushed + 1 THEN o ELSE obj[n]
    BY <1>2 DEF LQInv, LQ!TypeOK
  <1>5. \A i \in 1..size' : LQ!Items'[i] = IF i <= size THEN LQ!Items[i] ELSE o
    <2> SUFFICES ASSUME NEW i \in 1..size'
                 PROVE LQ!Items'[i] = IF i <= size THEN LQ!Items[i] ELSE o
      OBVIOUS
    <2>1. LQ!Items'[i] = obj'[head' + i - 1]
      BY <1>1, ItemsTypeAfter
    <2>2. CASE i <= size
      <3>1. head # LQ!noNode /\ head' = head /\ LQ!Items[i] = obj[head + i - 1]
        BY <1>3, <2>2, ItemsType DEF LQInv, LQ!Linked
      <3>2. head + i - 1 \in LQ!Nodes /\ head + i - 1 # pushed + 1
        BY <1>3, <2>2, <3>1 DEF LQInv, LQ!TypeOK
      <3> QED
        BY <1>4, <2>1, <2>2, <3>1, <3>2
    <2>3. CASE i = size + 1
      <3>1. head' + i - 1 = pushed + 1
        BY <1>3, <2>3 DEF LQInv, LQ!TypeOK
      <3> QED
        BY <1>2, <1>3, <1>4, <2>1, <2>3, <3>1
    <2> QED
      BY <1>3, <2>2, <2>3
  <1>6. LQ!Items' \in Seq(Objs) /\ Len(LQ!Items') = size' /\ LQ!Items \in Seq(Objs) /\ Len(LQ!Items) = size
    BY <1>1, ItemsType, ItemsTypeAfter
  <1>7. /\ Append(LQ!Items, o) \in Seq(Objs) /\ Len(Append(LQ!Items, o)) = size'
        /\ \A i \in 1..size' : Append(LQ!Items, o)[i] = IF i <= size THEN LQ!Items[i] ELSE o
    BY <1>3, <1>6, AppendProperties
  <1>8. LQ!Items' = Append(LQ!Items, o)
    BY <1>5, <1>6, <1>7, SeqEqual
  <1> QED
    BY <1>2, <1>8 DEF LQ!Queue!Push

(* A pop is a pop of the FIFO.                                             *)
LEMMA PopRefines ==
  ASSUME LQInv, LQ!pop
  PROVE LQ!Queue!Pop
  <1>1. LQInv'
    BY PopInv
  <1>2. CASE head = LQ!noNode
    <2>1. LQ!Items = <<>> /\ returned' = nil /\ LQ!Items' = LQ!Items
      BY <1>2, ItemsType DEF LQ!pop, LQ!Items
    <2> QED
      BY <2>1 DEF LQ!Queue!Pop
  <1>3. CASE head # LQ!noNode
    <2>1. returned' = obj[head] /\ head' = next[head] /\ size' = size - 1
          /\ UNCHANGED <<obj, next, pushed>>
      BY <1>3 DEF LQ!pop
    <2>2. /\ head \in 1..pushed /\ pushed \in Nat /\ size = pushed + 1 - head
          /\ head' = IF head < pushed THEN head + 1 ELSE LQ!noNode
      BY <1>3, <2>1 DEF LQInv, LQ!TypeOK, LQ!Linked
    <2>3. LQ!Items # <<>> /\ LQ!Items \in Seq(Objs) /\ Len(LQ!Items) = size
          /\ \A i \in 1..size : LQ!Items[i] = obj[head + i - 1]
      BY <1>3, ItemsType
    <2>4. Head(LQ!Items) = obj[head]
      <3>1. Head(LQ!Items) = LQ!Items[1] /\ LQ!Items[1] = obj[head + 1 - 1]
        BY <2>2, <2>3, HeadTailProperties
      <3> QED
        BY <2>2, <3>1
    <2>5. LQ!Items' \in Seq(Objs) /\ Len(LQ!Items') = size - 1
          /\ \A i \in 1..size - 1 : LQ!Items'[i] = obj[head' + i - 1]
      BY <1>1, <2>1, ItemsTypeAfter
    <2>6. /\ Tail(LQ!Items) \in Seq(Objs) /\ Len(Tail(LQ!Items)) = size - 1
          /\ \A i \in 1..size - 1 : Tail(LQ!Items)[i] = LQ!Items[i + 1]
      BY <2>2, <2>3, HeadTailProperties
    <2>7. \A i \in 1..size - 1 : LQ!Items'[i] = LQ!Items[i + 1]
      <3> SUFFICES ASSUME NEW i \in 1..size - 1 PROVE LQ!Items'[i] = LQ!Items[i + 1]
        OBVIOUS
      <3>1. head' = head + 1 /\ i + 1 \in 1..size
        BY <2>2
      <3>2. LQ!Items[i + 1] = obj[head + (i + 1) - 1] /\ LQ!Items'[i] = obj[head' + i - 1]
        BY <2>3, <2>5, <3>1
      <3>3. head' + i - 1 = head + (i + 1) - 1
        BY <2>2, <3>1
      <3> QED
        BY <3>2, <3>3
    <2>8. LQ!Items' = Tail(LQ!Items)
      BY <2>5, <2>6, <2>7, SeqEqual
    <2> QED
      BY <2>1, <2>3, <2>4, <2>8 DEF LQ!Queue!Pop
  <1> QED
    BY <1>2, <1>3

(* Looking at the first object, and asking for the size, are those calls.  *)
LEMMA PeekRefines ==
  ASSUME LQInv
  PROVE /\ LQ!rawGetHeadDate => LQ!Queue!Peek
        /\ LQ!sizeOf => LQ!Queue!Size
  <1>1. ASSUME LQ!rawGetHeadDate PROVE LQ!Queue!Peek
    <2>1. LQ!Items' = LQ!Items /\ returned' = IF head = LQ!noNode THEN nil ELSE obj[head]
      BY <1>1 DEF LQ!rawGetHeadDate, LQ!Items
    <2>2. head # LQ!noNode => Head(LQ!Items) = obj[head]
      <3> SUFFICES ASSUME head # LQ!noNode PROVE Head(LQ!Items) = obj[head]
        OBVIOUS
      <3>1. LQ!Items # <<>> /\ LQ!Items \in Seq(Objs) /\ LQ!Items[1] = obj[head + 1 - 1]
        BY ItemsType DEF LQInv, LQ!TypeOK, LQ!Linked
      <3> QED
        BY <3>1, HeadTailProperties DEF LQInv, LQ!TypeOK
    <2>3. LQ!Items = <<>> <=> head = LQ!noNode
      BY ItemsType
    <2> QED
      BY <2>1, <2>2, <2>3 DEF LQ!Queue!Peek
  <1>2. ASSUME LQ!sizeOf PROVE LQ!Queue!Size
    BY <1>2, ItemsType DEF LQ!sizeOf, LQ!Items, LQ!Queue!Size
  <1> QED
    BY <1>1, <1>2

-----------------------------------------------------------------------------
(* The pointers form one chain in the order of the pushes.                 *)
THEOREM LinkedCorrect == LQ!Spec => []LQ!Linked
  <1>1. LQInv => LQ!Linked
    BY DEF LQInv
  <1> QED
    BY LQInit, LQStep, <1>1, PTL DEF LQ!Spec

(* The nodes and pointers keep their types, and form that chain.           *)
THEOREM ChainCorrect == LQ!Spec => []LQ!ChainIsSound
  <1>1. LQInv => LQ!ChainIsSound
    BY DEF LQInv, LQ!ChainIsSound
  <1> QED
    BY LQInit, LQStep, <1>1, PTL DEF LQ!Spec

(* Every call of the linked queue is that call of a FIFO.                  *)
THEOREM QueueRefines == LQ!Spec => LQ!ImplementsFIFO
  <1>1. LQ!Init => LQ!Queue!Init
    BY DEF LQ!Init, LQ!Queue!Init, LQ!Items, LQ!Held
  <1>2. LQInv /\ [LQ!Next]_(LQ!vars) => [\/ \E o \in Objs : LQ!push(o) /\ LQ!Queue!Push(o)
                                         \/ LQ!pop /\ LQ!Queue!Pop
                                         \/ LQ!rawGetHeadDate /\ LQ!Queue!Peek
                                         \/ LQ!sizeOf /\ LQ!Queue!Size]_(LQ!vars)
    BY PushRefines, PopRefines, PeekRefines DEF LQ!Next
  <1> QED
    BY LQInit, LQStep, <1>1, <1>2, PTL DEF LQ!Spec, LQ!ImplementsFIFO

HIDE PushesAreBounded DEF LQ!noNode, LQ!Nodes

-----------------------------------------------------------------------------
(* In a behaviour of Tables each part does what it does alone, or nothing. *)
LEMMA Parts == TBSpec => LQ!Spec /\ DL!Spec /\ AV!Spec /\ RL!Spec
  <1> DEFINE TBNext == Entries \/ Queue \/ Records \/ Logs \/ Value
  <1> USE DEF Entries, Queue, Records, Logs, Value, tbVars
  <1>1. TBInit => LQ!Init /\ DL!Init /\ AV!Init /\ RL!Init
    BY DEF TBInit
  <1>2. [TBNext]_tbVars => [DL!Next]_(DL!vars)
    BY DEF dlVars, DL!vars, DL!clocks, DL!ids
  <1>3. [TBNext]_tbVars => [AV!Next]_(AV!vars)
    BY DEF avVars, AV!vars, AV!ownVars
  <1>4. [TBNext]_tbVars => [RL!Next]_(RL!vars)
    BY DEF rlVars, RL!vars
  <1>5. [TBNext]_tbVars => [LQ!Next]_(LQ!vars)
    BY DEF lqVars, LQ!vars
  <1> QED
    BY <1>1, <1>2, <1>3, <1>4, <1>5, PTL DEF TBSpec, LQ!Spec, DL!Spec, AV!Spec, RL!Spec

(* ChainCorrect, beside the other tables.                                  *)
THEOREM QueueCorrect == TBSpec => []ChainIsSound
  BY Parts, ChainCorrect, PTL DEF ChainIsSound

(* QueueRefines, beside the other tables.                                  *)
THEOREM QueueIsFIFO == TBSpec => ImplementsFIFO
  BY Parts, QueueRefines, PTL DEF ImplementsFIFO

(* LinesCorrect, beside the other tables.                                  *)
THEOREM LogsCorrect == TBSpec => []LinesAreRight
  <1>1. DLAssumption
    BY TablesAssumption DEF DLAssumption
  <1> QED
    BY <1>1, Parts, LinesCorrect, PTL DEF LinesAreRight

(* ValuesCorrect, beside the other tables.                                 *)
THEOREM ValueCorrect == TBSpec => []ValuesComeOnTime
  <1>1. AVAssumption
    BY TablesAssumption DEF AVAssumption, AT!TimerAssumption, AT!VariantsAssumption,
       AT!PeriodsAssumption, AV!DT!PeriodsAssumption, AT!BoundAssumption, AV!DT!BoundAssumption,
       AT!nilAssumption, AV!DT!nilAssumption, AT!Node, AV!DT!Node, AT!Timers, AV!DT!Timers
  <1> QED
    BY <1>1, Parts, ValuesCorrect, PTL DEF ValuesComeOnTime

(* RecordsCorrect, beside the other tables.                                *)
THEOREM ListsCorrect == TBSpec => []RecordsAreRight
  <1>1. RLAssumption
    BY TablesAssumption DEF RLAssumption
  <1> QED
    BY <1>1, Parts, RecordsCorrect, PTL DEF RecordsAreRight
=============================================================================
