-------------------------- MODULE StructuresProofs --------------------------
(***************************************************************************)
(* Proofs of what Structures says of the skip list, of the logger and of   *)
(* the timing wheel, for any number of objects and levels, for files and   *)
(* days of any size, and for wheels of any width.                          *)
(*                                                                         *)
(* The list: ShapeKept says that there is a sequence of the objects in     *)
(* order such that on each level a node's link leads to the next of the    *)
(* sequence that is so high, over a span of that many places.  Each loop   *)
(* of the code is shown to end where it should, then each operation to     *)
(* keep the shape and to do what it does to the sorted set.  The logger:   *)
(* LoggerInv says that an open file is the last of its level, and of the   *)
(* day the messages are written on.  The wheel: TimerInv says of every     *)
(* timer that it is in a slot that moves nearer no later than it must, and *)
(* of those being called back that they are of this tick.                  *)
(***************************************************************************)
EXTENDS Structures, FiniteSetTheorems, SequenceTheorems, WellFoundedInduction,
        NaturalsInduction, TLAPS

-----------------------------------------------------------------------------
(* The order of the naturals.                                              *)
Smaller == {p \in Nat \X Nat : p[1] < p[2]}

(* Every set of naturals that is not empty has a least element.            *)
LEMMA LeastOf ==
  ASSUME NEW S \in SUBSET Nat, S # {}
  PROVE  \E x \in S : \A y \in S : x <= y
  <1>1. IsWellFoundedOn(Smaller, Nat)
    BY NatLessThanWellFounded DEF OpToRel, Smaller
  <1>2. PICK x \in S : \A y \in S : ~ (<<y, x>> \in Smaller)
    BY <1>1, WFMin
  <1>3. x \in Nat /\ \A y \in S : y \in Nat /\ ~ (y < x)
    BY <1>2 DEF Smaller
  <1> QED
    BY <1>3

(* Induction, for a set of numbers.                                        *)
LEMMA Induct ==
  ASSUME NEW S \in SUBSET Nat, 0 \in S, \A n \in S : n + 1 \in S
  PROVE  \A n \in Nat : n \in S
  <1> SUFFICES ASSUME NEW n \in Nat, n \notin S PROVE FALSE
    OBVIOUS
  <1>1. PICK x \in Nat \ S : \A y \in Nat \ S : x <= y
    BY LeastOf
  <1>2. x # 0 /\ x - 1 \in Nat /\ (x - 1) + 1 = x /\ ~ (x <= x - 1)
    BY <1>1
  <1> QED
    BY <1>1, <1>2

-----------------------------------------------------------------------------
(* The turns of a loop are a function on the naturals: there is one, given *)
(* what a turn does to the states P the loop can be in.                    *)
Steps(first, link, n, g) == g = [i \in 0..n |-> IF i = 0 THEN first ELSE link[g[i - 1]]]

(* Two such functions agree where both are defined.                        *)
LEMMA StepsAgree ==
  ASSUME NEW first, NEW link, NEW m \in Nat, NEW n \in Nat, NEW g, NEW h,
         Steps(first, link, m, g), Steps(first, link, n, h)
  PROVE  \A i \in Nat : i <= m /\ i <= n => g[i] = h[i]
  <1> DEFINE S == {i \in Nat : i <= m /\ i <= n => g[i] = h[i]}
  <1>1. 0 \in S
    BY DEF Steps
  <1>2. ASSUME NEW i \in S PROVE i + 1 \in S
    <2> SUFFICES ASSUME i + 1 <= m, i + 1 <= n PROVE g[i + 1] = h[i + 1]
      OBVIOUS
    <2>1. i \in Nat /\ i <= m /\ i <= n /\ i + 1 \in 0..m /\ i + 1 \in 0..n /\ i + 1 # 0
          /\ (i + 1) - 1 = i
      OBVIOUS
    <2>2. g[i + 1] = link[g[i]] /\ h[i + 1] = link[h[i]]
      BY <2>1 DEF Steps
    <2> QED
      BY <2>1, <2>2
  <1> HIDE DEF S
  <1>3. \A i \in Nat : i \in S
    <2>1. S \in SUBSET Nat
      BY DEF S
    <2> QED
      BY <1>1, <1>2, <2>1, Induct
  <1> QED
    BY <1>3 DEF S

(* There is one for any number of turns.                                   *)
LEMMA StepsExist ==
  ASSUME NEW first, NEW link
  PROVE  \A n \in Nat : \E g : Steps(first, link, n, g)
  <1> DEFINE S == {i \in Nat : \E g : Steps(first, link, i, g)}
  <1>1. 0 \in S
    <2>1. Steps(first, link, 0, [j \in 0..0 |-> first])
      BY DEF Steps
    <2> QED
      BY <2>1
  <1>2. ASSUME NEW i \in S PROVE i + 1 \in S
    <2>1. PICK g : Steps(first, link, i, g)
      OBVIOUS
    <2> DEFINE h == [j \in 0..i + 1 |-> IF j = i + 1 THEN link[g[i]] ELSE g[j]]
    <2>2. ASSUME NEW j \in 0..i + 1 PROVE h[j] = IF j = 0 THEN first ELSE link[h[j - 1]]
      <3>1. i \in Nat
        OBVIOUS
      <3>2. CASE j = i + 1
        <4>1. j - 1 = i /\ i \in 0..i + 1 /\ i # i + 1 /\ j # 0
          BY <3>1, <3>2
        <4> QED
          BY <3>2, <4>1
      <3>3. CASE j # i + 1 /\ j # 0
        <4>1. j \in 0..i /\ j - 1 \in 0..i + 1 /\ j - 1 # i + 1
          BY <3>1, <3>3
        <4> QED
          BY <2>1, <3>3, <4>1 DEF Steps
      <3>4. CASE j # i + 1 /\ j = 0
        <4>1. j \in 0..i
          BY <3>1, <3>4
        <4> QED
          BY <2>1, <3>4, <4>1 DEF Steps
      <3> QED
        BY <3>2, <3>3, <3>4
    <2>3. h = [j \in 0..i + 1 |-> h[j]]
      OBVIOUS
    <2> HIDE DEF h
    <2>4. Steps(first, link, i + 1, h)
      BY <2>2, <2>3 DEF Steps
    <2> QED
      BY <2>4
  <1> HIDE DEF S
  <1>3. \A n \in Nat : n \in S
    <2>1. S \in SUBSET Nat
      BY DEF S
    <2> QED
      BY <1>1, <1>2, <2>1, Induct
  <1> QED
    BY <1>3 DEF S

Loops(first, link, f) == \A n \in Nat : f[n] = IF n = 0 THEN first ELSE link[f[n - 1]]

(* So there is one on all the naturals, and it stays in P.                 *)
LEMMA LoopExists ==
  ASSUME NEW P, NEW link \in [P -> P], NEW first \in P
  PROVE  \E f \in [Nat -> P] : Loops(first, link, f)
  <1> DEFINE G(n) == CHOOSE g : Steps(first, link, n, g)
  <1> DEFINE f == [n \in Nat |-> G(n)[n]]
  <1>1. \A n \in Nat : Steps(first, link, n, G(n))
    BY StepsExist
  <1> HIDE DEF G
  <1>2. ASSUME NEW n \in Nat PROVE f[n] = IF n = 0 THEN first ELSE link[f[n - 1]]
    <2>1. n \in 0..n /\ G(n) = [i \in 0..n |-> IF i = 0 THEN first ELSE link[G(n)[i - 1]]]
      BY <1>1 DEF Steps
    <2>2. f[n] = IF n = 0 THEN first ELSE link[G(n)[n - 1]]
      BY <2>1
    <2>3. n # 0 => n - 1 \in Nat /\ n - 1 <= n - 1 /\ n - 1 <= n
      OBVIOUS
    <2>4. n # 0 => G(n - 1)[n - 1] = G(n)[n - 1]
      BY <1>1, <2>3, StepsAgree
    <2>5. n # 0 => f[n - 1] = G(n - 1)[n - 1]
      BY <2>3
    <2> HIDE DEF f
    <2> QED
      BY <2>2, <2>4, <2>5
  <1> DEFINE S == {n \in Nat : f[n] \in P}
  <1>3. f = [n \in Nat |-> f[n]]
    OBVIOUS
  <1> HIDE DEF f
  <1>4. 0 \in S
    BY <1>2
  <1>5. ASSUME NEW n \in S PROVE n + 1 \in S
    <2>1. n + 1 \in Nat /\ n + 1 # 0 /\ (n + 1) - 1 = n
      OBVIOUS
    <2>2. f[n + 1] = link[f[n]]
      BY <1>2, <2>1
    <2> QED
      BY <2>1, <2>2
  <1>6. \A n \in Nat : f[n] \in P
    BY <1>4, <1>5, Induct
  <1>7. f \in [Nat -> P] /\ Loops(first, link, f)
    BY <1>2, <1>3, <1>6 DEF Loops
  <1> QED
    BY <1>7

-----------------------------------------------------------------------------
(* The order of the objects.                                               *)
LEMMA BeforeOrders ==
  ASSUME ListAssumption
  PROVE  /\ \A a \in Listable : ~ Before(a, a)
         /\ \A a, b \in Listable : a # b => Before(a, b) \/ Before(b, a)
         /\ \A a, b, c \in Listable : Before(a, b) /\ Before(b, c) => Before(a, c)
         /\ \A a, b \in Listable : Before(a, b) => ~ Before(b, a) /\ score[a] <= score[b]
         /\ \A a, b \in Listable : score[a] = score[b] /\ equalslObj(a, b) => a = b
  <1>1. /\ \A a \in Listable : score[a] \in Int /\ timestamp[a] \in Int /\ ptr[a] \in Int
        /\ \A a, b \in Listable :
             score[a] = score[b] /\ timestamp[a] = timestamp[b] /\ ptr[a] = ptr[b] => a = b
    BY DEF ListAssumption, Listable
  <1> QED
    BY <1>1 DEF Before, equalslObj, compareslObj

(* The objects q[1], ..., q[n] are in order; q[0] is the header.           *)
Ordered(q, n) ==
  /\ n \in Nat /\ q \in [0..n -> 0..N] /\ q[0] = header
  /\ \A p \in 1..n : q[p] \in Listable
  /\ \A a, b \in 1..n : a < b => Before(q[a], q[b])

Members(q, n) == {q[p] : p \in 1..n}

(* No object is in a list twice, and none of them is the header or NULL.   *)
LEMMA OneToOne ==
  ASSUME ListAssumption, NEW n, NEW q, Ordered(q, n)
  PROVE  /\ \A a, b \in 0..n : q[a] = q[b] => a = b
         /\ \A p \in 1..n : q[p] # header /\ q[p] # null
         /\ \A a, b \in 1..n : Before(q[a], q[b]) <=> a < b
  <1>1. n \in Nat /\ N \in Nat /\ q[0] = header
        /\ \A p \in 1..n : q[p] \in Listable
        /\ \A a, b \in 1..n : a < b => Before(q[a], q[b])
    BY DEF Ordered, ListAssumption
  <1>2. \A p \in 1..n : q[p] # header /\ q[p] # null
    BY <1>1 DEF Listable, header, null
  <1>3. \A a, b \in 1..n : a = b \/ a < b \/ b < a
    BY <1>1
  <1>4. \A a, b \in 1..n : Before(q[a], q[b]) <=> a < b
    <2> SUFFICES ASSUME NEW a \in 1..n, NEW b \in 1..n PROVE Before(q[a], q[b]) <=> a < b
      OBVIOUS
    <2>1. q[a] \in Listable /\ q[b] \in Listable
      BY <1>1
    <2> QED
      BY <1>1, <1>3, <2>1, BeforeOrders
  <1>5. \A a, b \in 1..n : q[a] = q[b] => a = b
    <2> SUFFICES ASSUME NEW a \in 1..n, NEW b \in 1..n, q[a] = q[b] PROVE a = b
      OBVIOUS
    <2>1. ~ (a < a) /\ q[a] \in Listable
      BY <1>1
    <2>2. ~ (a < b) /\ ~ (b < a)
      BY <1>4, <2>1, BeforeOrders
    <2> QED
      BY <1>3, <2>2
  <1>6. \A a \in 0..n : a = 0 \/ a \in 1..n
    BY <1>1
  <1> QED
    BY <1>1, <1>2, <1>4, <1>5, <1>6

(* The abstract set counts as this module does.                            *)
LEMMA SameCounts == \A S : List!Cardinality(S) = Cardinality(S)
  BY DEF List!Cardinality, Cardinality

(* Their number, and that of those up to one of them.                      *)
LEMMA Counted ==
  ASSUME ListAssumption, NEW n, NEW q, Ordered(q, n), NEW m \in 0..n
  PROVE  Cardinality(Members(q, m)) = m /\ IsFiniteSet(Members(q, m))
  <1>1. n \in Nat /\ m \in Nat /\ IsFiniteSet(1..m) /\ Cardinality(1..m) = m
    <2>1. n \in Nat /\ m \in Nat /\ 1 \in Int /\ m \in Int
      BY DEF Ordered
    <2> QED
      BY <2>1, FS_Interval
  <1> DEFINE f == [p \in 1..m |-> q[p]]
  <1>2. f \in Bijection(1..m, Members(q, m))
    <2>1. f \in [1..m -> Members(q, m)]
      BY DEF Members
    <2>2. \A a, b \in 1..m : f[a] = f[b] => a = b
      BY <1>1, OneToOne
    <2>3. \A x \in Members(q, m) : \E p \in 1..m : f[p] = x
      BY DEF Members
    <2> QED
      BY <2>1, <2>2, <2>3 DEF Bijection, Injection, Surjection, IsInjective
  <1>3. ExistsBijection(1..m, Members(q, m))
    BY <1>2 DEF ExistsBijection
  <1> QED
    BY <1>1, <1>3, FS_Bijection

(* There are no more objects in a list than there are objects.             *)
LEMMA Few ==
  ASSUME ListAssumption, NEW n, NEW q, Ordered(q, n)
  PROVE  n \in 0..N /\ Members(q, n) \subseteq Listable /\ header \notin Members(q, n)
  <1>1. n \in 0..n /\ N \in Nat /\ n \in Nat
    BY DEF Ordered, ListAssumption
  <1>2. Members(q, n) \subseteq Listable
    BY DEF Members, Ordered
  <1>3. IsFiniteSet(1..N) /\ Cardinality(1..N) = N
    BY <1>1, FS_Interval
  <1>4. Cardinality(Members(q, n)) <= N
    BY <1>2, <1>3, FS_Subset DEF Listable
  <1>5. n <= N
    BY <1>1, <1>4, Counted
  <1> QED
    BY <1>1, <1>2, <1>5, OneToOne DEF Members

(* The objects of a line, as a sequence.                                   *)
ObjectsOf(q, n) == [r \in 1..n |-> q[r]]

(* The members in the order of the abstract set.                           *)
LEMMA SortedIs ==
  ASSUME ListAssumption, NEW n, NEW q, Ordered(q, n)
  PROVE  List!Sorted(Members(q, n)) = ObjectsOf(q, n)
  <1> DEFINE S == Members(q, n)
  <1>1. n \in Nat /\ n \in 0..n /\ Cardinality(S) = n
    <2>1. n \in Nat /\ n \in 0..n
      BY DEF Ordered
    <2> QED
      BY <2>1, Counted
  <1>2. ASSUME NEW r \in 1..n PROVE Cardinality({m \in S : Before(m, q[r])}) = r - 1
    <2>1. {m \in S : Before(m, q[r])} = Members(q, r - 1)
      <3>1. \A a \in 1..n : Before(q[a], q[r]) <=> a \in 1..r - 1
        BY <1>1, OneToOne
      <3>2. \A a \in 1..r - 1 : a \in 1..n
        BY <1>1
      <3> QED
        BY <3>1, <3>2 DEF Members
    <2>2. r - 1 \in 0..n
      BY <1>1
    <2> QED
      BY <2>1, <2>2, Counted
  <1> HIDE DEF S
  <1>3. ASSUME NEW r \in 1..n
        PROVE  (CHOOSE e \in S : List!Cardinality({m \in S : Before(m, e)}) = r - 1) = q[r]
    <2>1. q[r] \in S
      BY DEF S, Members
    <2>2. List!Cardinality({m \in S : Before(m, q[r])}) = r - 1
      BY <1>2, SameCounts
    <2>3. \A e \in S : List!Cardinality({m \in S : Before(m, e)}) = r - 1 => e = q[r]
      <3> SUFFICES ASSUME NEW e \in S, List!Cardinality({m \in S : Before(m, e)}) = r - 1
                   PROVE  e = q[r]
        OBVIOUS
      <3>1. PICK t \in 1..n : e = q[t]
        BY DEF S, Members
      <3>2. t - 1 = r - 1
        BY <1>2, <3>1, SameCounts
      <3> QED
        BY <1>1, <3>1, <3>2
    <2> QED
      BY <2>1, <2>2, <2>3
  <1>4. List!Cardinality(S) = n
    BY <1>1, SameCounts
  <1>5. List!Sorted(S) =
          [r \in 1..n |-> CHOOSE e \in S : List!Cardinality({m \in S : Before(m, e)}) = r - 1]
    BY <1>4 DEF List!Sorted
  <1>6. [r \in 1..n |-> CHOOSE e \in S : List!Cardinality({m \in S : Before(m, e)}) = r - 1]
          = [r \in 1..n |-> q[r]]
    BY <1>3
  <1> QED
    BY <1>5, <1>6 DEF S, ObjectsOf

-----------------------------------------------------------------------------
(* What a list looks like.                                                 *)
Links == UNION {[1..h -> Int] : h \in 1..SKIPLIST_MAXLEVEL}
ListNodes == [forward : Links, span : Links, backward : Int]
Lists == [level : 1..SKIPLIST_MAXLEVEL, length : Nat, tail : Int,
          at : UNION {[S -> ListNodes] : S \in SUBSET (0..N)}]

(* hi says how high the node at a place is.  On level i the node at p is   *)
(* followed by the one at r, or by none when r is n + 1; and u is the last *)
(* place up to k that is as high as i.                                     *)
Leads(hi, n, p, i, r) ==
  r \in p + 1..n + 1 /\ (r <= n => hi[r] >= i) /\ \A t \in p + 1..r - 1 : hi[t] < i
LastAt(hi, k, i, u) == u \in 0..k /\ hi[u] >= i /\ \A t \in u + 1..k : hi[t] < i

NodeAt(q, n, r) == IF r = n + 1 THEN null ELSE q[r]
Upto(n, r) == IF r = n + 1 THEN n ELSE r

NodeIs(node, level, q, hi, n, p) ==
  /\ node \in ListNodes
  /\ DOMAIN node.forward = 1..hi[p] /\ DOMAIN node.span = 1..hi[p]
  /\ node.backward = IF p <= 1 THEN null ELSE q[p - 1]
  /\ \A i \in 1..hi[p] : i <= level =>
       \E r \in 1..n + 1 : /\ Leads(hi, n, p, i, r)
                           /\ node.forward[i] = NodeAt(q, n, r)
                           /\ node.span[i] = Upto(n, r) - p
  /\ \A i \in 1..hi[p] : i > level => node.forward[i] = null

Heights(hi, n, level) ==
  /\ hi \in [0..n -> 1..SKIPLIST_MAXLEVEL] /\ hi[0] = SKIPLIST_MAXLEVEL
  /\ \A p \in 1..n : hi[p] <= level

All(q, n) == {q[p] : p \in 0..n}

Shape(s, q, hi, n) ==
  /\ Ordered(q, n) /\ Heights(hi, n, s.level)
  /\ s \in Lists /\ s.length = n /\ s.tail = (IF n = 0 THEN null ELSE q[n])
  /\ DOMAIN s.at = All(q, n)
  /\ \A p \in 0..n : NodeIs(s.at[q[p]], s.level, q, hi, n, p)

(* What the way down has to leave, for the first k.                        *)
Path(q, hi, n, level, k, path) ==
  /\ path \in [1..level -> [node : 0..N, rank : 0..n]]
  /\ \A i \in 1..level : LastAt(hi, k, i, path[i].rank) /\ path[i].node = q[path[i].rank]

(* The state p of the loop on the way down, below the levels it has done.  *)
Going(q, hi, n, level, k, p) ==
  /\ p = [i |-> p.i, node |-> q[p.rank], rank |-> p.rank, path |-> p.path]
  /\ p.i \in 0..level /\ p.rank \in 0..k /\ (p.i > 0 => hi[p.rank] >= p.i)
  /\ p.path \in [1..level -> [node : 0..N, rank : 0..n]]
  /\ \A j \in p.i + 1..level :
       LastAt(hi, k, j, p.path[j].rank) /\ p.path[j].node = q[p.path[j].rank]

-----------------------------------------------------------------------------
(* One turn on the way down gets further or lower.                         *)
LEMMA TurnIs ==
  ASSUME ListAssumption, NEW s, NEW q, NEW hi, NEW n, Shape(s, q, hi, n), NEW k \in 0..n,
         NEW ahead, \A p \in 1..n : ahead[<<q[p], p>>] <=> p <= k,
         NEW p, Going(q, hi, n, s.level, k, p)
  PROVE  /\ Going(q, hi, n, s.level, k, Turn(s, ahead, p))
         /\ p.i > 0 => Turn(s, ahead, p).rank - Turn(s, ahead, p).i >= p.rank - p.i + 1
  <1>1. /\ n \in Nat /\ s.level \in Nat /\ q \in [0..n -> 0..N] /\ hi \in [0..n -> Nat]
        /\ Ordered(q, n)
        /\ \A t \in 1..n : hi[t] <= s.level
    BY DEF Shape, Ordered, Lists, Heights
  <1>2. /\ p = [i |-> p.i, node |-> q[p.rank], rank |-> p.rank, path |-> p.path]
        /\ p.i \in 0..s.level /\ p.rank \in 0..k /\ (p.i > 0 => hi[p.rank] >= p.i)
        /\ p.path \in [1..s.level -> [node : 0..N, rank : 0..n]]
        /\ \A j \in p.i + 1..s.level :
             LastAt(hi, k, j, p.path[j].rank) /\ p.path[j].node = q[p.path[j].rank]
    BY DEF Going
  <1>3. p.node = q[p.rank] /\ p.rank \in 0..n /\ p.rank \in Nat /\ p.i \in Nat
    BY <1>1, <1>2
  <1>4. CASE p.i = 0
    <2>1. Turn(s, ahead, p) = p
      BY <1>4 DEF Turn
    <2> QED
      BY <1>4, <2>1
  <1>5. CASE p.i > 0
    <2>1. p.i \in 1..hi[p.rank] /\ p.i <= s.level /\ p.i \in 1..s.level
      BY <1>1, <1>2, <1>3, <1>5
    <2>2. NodeIs(s.at[q[p.rank]], s.level, q, hi, n, p.rank)
      BY <1>3 DEF Shape
    <2>3. PICK r \in 1..n + 1 : /\ Leads(hi, n, p.rank, p.i, r)
                                /\ s.at[p.node].forward[p.i] = NodeAt(q, n, r)
                                /\ s.at[p.node].span[p.i] = Upto(n, r) - p.rank
      BY <1>3, <2>1, <2>2 DEF NodeIs
    <2>4. CASE r <= k
      <3>1. r \in 1..n /\ r # n + 1 /\ r \in p.rank + 1..n /\ hi[r] >= p.i /\ r \in 0..k
        BY <1>1, <1>3, <2>3, <2>4 DEF Leads
      <3>2. q[r] # null
        BY <1>1, <3>1, OneToOne
      <3>3. s.at[p.node].forward[p.i] = q[r] /\ p.rank + s.at[p.node].span[p.i] = r
        BY <1>1, <1>3, <2>3, <3>1 DEF NodeAt, Upto
      <3>4. ahead[<<q[r], r>>]
        BY <2>4, <3>1
      <3>5. /\ s.at[p.node].forward[p.i] # null
            /\ ahead[<<s.at[p.node].forward[p.i], p.rank + s.at[p.node].span[p.i]>>]
        BY <3>2, <3>3, <3>4
      <3>6. Turn(s, ahead, p) = [i |-> p.i, node |-> q[r], rank |-> r, path |-> p.path]
        <4>1. Turn(s, ahead, p) = [p EXCEPT !.node = s.at[p.node].forward[p.i],
                                            !.rank = p.rank + s.at[p.node].span[p.i]]
          <5>1. p.i # 0
            BY <1>5
          <5> QED
            BY <5>1, <3>5, Zenon DEF Turn
        <4>2. Turn(s, ahead, p) = [p EXCEPT !.node = q[r], !.rank = r]
          BY <3>3, <4>1
        <4> QED
          BY <1>2, <4>2
      <3>7. r - p.i >= p.rank - p.i + 1
        <4>1. r \in Int /\ p.rank \in Int /\ p.i \in Int /\ p.rank + 1 <= r
          BY <1>3, <3>1
        <4> QED
          BY <4>1
      <3> QED
        BY <1>2, <3>1, <3>6, <3>7 DEF Going
    <2>5. CASE ~ (r <= k)
      <3> DEFINE path2 == [p.path EXCEPT ![p.i] = [node |-> p.node, rank |-> p.rank]]
      <3>1. ~ (/\ s.at[p.node].forward[p.i] # null
               /\ ahead[<<s.at[p.node].forward[p.i], p.rank + s.at[p.node].span[p.i]>>])
        <4>1. CASE r = n + 1
          BY <2>3, <4>1 DEF NodeAt
        <4>2. CASE r # n + 1
          <5>1. r \in 1..n /\ ~ (r <= k)
            BY <1>1, <2>3, <2>5, <4>2
          <5>2. s.at[p.node].forward[p.i] = q[r] /\ p.rank + s.at[p.node].span[p.i] = r
            BY <1>1, <1>3, <2>3, <4>2, <5>1 DEF NodeAt, Upto
          <5> QED
            BY <5>1, <5>2
        <4> QED
          BY <4>1, <4>2
      <3>2. Turn(s, ahead, p) = [p EXCEPT !.i = @ - 1, !.path[p.i] = [node |-> p.node, rank |-> p.rank]]
        BY <1>5, <3>1 DEF Turn
      <3>3. Turn(s, ahead, p) = [i |-> p.i - 1, node |-> q[p.rank], rank |-> p.rank, path |-> path2]
        BY <1>2, <1>3, <3>2
      <3>4. path2 \in [1..s.level -> [node : 0..N, rank : 0..n]]
        BY <1>1, <1>2, <1>3, <2>1
      <3>5. LastAt(hi, k, p.i, p.rank)
        BY <1>1, <1>2, <1>3, <1>5, <2>3, <2>5 DEF LastAt, Leads
      <3>6. \A j \in (p.i - 1) + 1..s.level :
              LastAt(hi, k, j, path2[j].rank) /\ path2[j].node = q[path2[j].rank]
        <4> SUFFICES ASSUME NEW j \in (p.i - 1) + 1..s.level
                     PROVE  LastAt(hi, k, j, path2[j].rank) /\ path2[j].node = q[path2[j].rank]
          OBVIOUS
        <4>1. CASE j = p.i
          <5>1. path2[j] = [node |-> p.node, rank |-> p.rank]
            BY <1>2, <2>1, <4>1
          <5> HIDE DEF path2
          <5> QED
            BY <1>3, <3>5, <4>1, <5>1
        <4>2. CASE j # p.i
          <5>1. j \in p.i + 1..s.level /\ j \in 1..s.level
            BY <1>1, <1>3, <1>5, <4>2
          <5>2. path2[j] = p.path[j]
            BY <1>2, <4>2, <5>1
          <5> HIDE DEF path2
          <5> QED
            BY <1>2, <5>1, <5>2
        <4> QED
          BY <4>1, <4>2
      <3>7. p.i - 1 \in 0..s.level /\ (p.i - 1 > 0 => hi[p.rank] >= p.i - 1)
            /\ p.rank - (p.i - 1) >= p.rank - p.i + 1
        <4>1. hi[p.rank] \in Nat
          BY <1>1, <1>3
        <4> QED
          BY <1>1, <1>2, <1>3, <1>5, <4>1
      <3> HIDE DEF path2
      <3> QED
        BY <1>2, <3>3, <3>4, <3>6, <3>7 DEF Going
    <2> QED
      BY <2>4, <2>5
  <1> QED
    BY <1>3, <1>4, <1>5

(* There is a last place as high as a level.                               *)
LEMMA LastAtExists ==
  ASSUME NEW n \in Nat, NEW level \in Nat, NEW hi, Heights(hi, n, level), NEW k \in 0..n,
         NEW i \in 1..SKIPLIST_MAXLEVEL, ListAssumption
  PROVE  \E u \in 0..k : LastAt(hi, k, i, u)
  <1>1. hi \in [0..n -> Nat] /\ hi[0] >= i
    BY DEF Heights, ListAssumption
  <1> DEFINE S == {d \in 0..k : hi[k - d] >= i}
  <1>2. k \in S /\ S \in SUBSET Nat
    BY <1>1
  <1>3. PICK d \in S : \A x \in S : d <= x
    BY <1>2, LeastOf
  <1>4. k - d \in 0..k /\ hi[k - d] >= i
    BY <1>3
  <1>5. \A t \in (k - d) + 1..k : hi[t] < i
    <2> SUFFICES ASSUME NEW t \in (k - d) + 1..k PROVE hi[t] < i
      OBVIOUS
    <2>1. k - t \in 0..k /\ k - (k - t) = t /\ ~ (d <= k - t) /\ t \in 0..n
      BY <1>3
    <2>2. ~ (hi[t] >= i) /\ hi[t] \in Nat
      BY <1>1, <1>3, <2>1
    <2> QED
      BY <2>2
  <1> QED
    BY <1>4, <1>5 DEF LastAt

(* The way down ends at the last of the first k nodes on each level.       *)
LEMMA DescendIs ==
  ASSUME ListAssumption, NEW s, NEW q, NEW hi, NEW n, Shape(s, q, hi, n), NEW k \in 0..n,
         NEW ahead, \A p \in 1..n : ahead[<<q[p], p>>] <=> p <= k
  PROVE  Path(q, hi, n, s.level, k, Descend(s, ahead))
  <1> DEFINE top == [i |-> s.level, node |-> header, rank |-> 0,
                     path |-> [i \in 1..s.level |-> [node |-> header, rank |-> 0]]]
             States == [i : 0..s.level, node : 0..N, rank : 0..n,
                        path : [1..s.level -> [node : 0..N, rank : 0..n]]]
             P == {p \in States : Going(q, hi, n, s.level, k, p)}
             link == [p \in P |-> Turn(s, ahead, p)]
             turn == CHOOSE f : f = [m \in Nat |-> IF m = 0 THEN top
                                                   ELSE Turn(s, ahead, f[m - 1])]
  <1>1. /\ n \in Nat /\ s.level \in Nat /\ q \in [0..n -> 0..N] /\ q[0] = header
        /\ hi[0] >= s.level /\ n <= N /\ N \in Nat
    <2>1. Ordered(q, n) /\ s \in Lists /\ Heights(hi, n, s.level)
      BY DEF Shape
    <2>2. n <= N
      BY <2>1, Few
    <2> QED
      BY <2>1, <2>2 DEF Ordered, Lists, Heights, ListAssumption
  <1>2. \A p : p \in P <=> Going(q, hi, n, s.level, k, p)
    <2> SUFFICES ASSUME NEW p, Going(q, hi, n, s.level, k, p) PROVE p \in States
      OBVIOUS
    <2>1. p.rank \in 0..n /\ q[p.rank] \in 0..N
      BY <1>1 DEF Going
    <2> QED
      BY <2>1 DEF Going
  <1>3. top \in P
    <2>1. Going(q, hi, n, s.level, k, top)
      <3>1. header \in 0..N /\ 0 \in 0..n /\ 0 \in 0..k /\ s.level \in 0..s.level
        BY <1>1 DEF header
      <3>2. s.level + 1..s.level = {}
        BY <1>1
      <3> QED
        BY <1>1, <3>1, <3>2 DEF Going
    <2> QED
      BY <1>2, <2>1
  <1> HIDE DEF P, top
  <1>4. link \in [P -> P]
    BY <1>2, TurnIs
  <1>a. \A p \in P : link[p] = Turn(s, ahead, p)
    OBVIOUS
  <1> HIDE DEF link
  <1>5. \E f : f = [m \in Nat |-> IF m = 0 THEN top ELSE Turn(s, ahead, f[m - 1])]
    <2>1. PICK f \in [Nat -> P] : Loops(top, link, f)
      BY <1>3, <1>4, LoopExists
    <2>2. ASSUME NEW m \in Nat PROVE f[m] = IF m = 0 THEN top ELSE Turn(s, ahead, f[m - 1])
      <3>1. m # 0 => m - 1 \in Nat
        OBVIOUS
      <3>2. m # 0 => f[m - 1] \in P
        BY <2>1, <3>1
      <3> QED
        BY <1>a, <2>1, <3>2 DEF Loops
    <2>3. f = [m \in Nat |-> f[m]]
      BY <2>1
    <2> HIDE <2>1
    <2>4. [m \in Nat |-> f[m]] = [m \in Nat |-> IF m = 0 THEN top ELSE Turn(s, ahead, f[m - 1])]
      BY <2>2
    <2> QED
      BY <2>3, <2>4
  <1>6. turn = [m \in Nat |-> IF m = 0 THEN top ELSE Turn(s, ahead, turn[m - 1])]
    BY <1>5
  <1> HIDE DEF turn
  <1> DEFINE S == {m \in Nat : /\ Going(q, hi, n, s.level, k, turn[m])
                               /\ turn[m].i > 0 => turn[m].rank - turn[m].i >= m - s.level}
  <1>7. 0 \in S
    <2>1. turn[0] = top
      BY <1>6
    <2>2. top.i = s.level /\ top.rank = 0 /\ 0 - s.level >= 0 - s.level
      BY <1>1 DEF top
    <2> QED
      BY <1>2, <1>3, <2>1, <2>2
  <1>8. ASSUME NEW m \in S PROVE m + 1 \in S
    <2>1. m \in Nat /\ m + 1 \in Nat /\ m + 1 # 0 /\ (m + 1) - 1 = m
      OBVIOUS
    <2>2. turn[m + 1] = Turn(s, ahead, turn[m])
      BY <1>6, <2>1
    <2>3. /\ Going(q, hi, n, s.level, k, turn[m + 1])
          /\ turn[m].i > 0 => turn[m + 1].rank - turn[m + 1].i >= turn[m].rank - turn[m].i + 1
      BY <2>2, TurnIs
    <2>4. turn[m].i = 0 => turn[m + 1].i = 0
      BY <2>2 DEF Turn
    <2>5. turn[m + 1].i \in Nat /\ turn[m + 1].rank \in Nat /\ turn[m].i \in Nat /\ turn[m].rank \in Nat
      BY <1>1, <2>3 DEF Going
    <2>6. turn[m].i > 0 => turn[m].rank - turn[m].i >= m - s.level
      OBVIOUS
    <2>7. turn[m + 1].i > 0 => turn[m + 1].rank - turn[m + 1].i >= (m + 1) - s.level
      <3> DEFINE a == turn[m + 1].rank
                 b == turn[m + 1].i
                 c == turn[m].rank
                 d == turn[m].i
      <3>1. a \in Nat /\ b \in Nat /\ c \in Nat /\ d \in Nat /\ m \in Nat /\ s.level \in Nat
        BY <1>1, <2>5
      <3>2. /\ d > 0 => c - d >= m - s.level
            /\ d > 0 => a - b >= c - d + 1
            /\ d = 0 => b = 0
        BY <2>3, <2>4, <2>6
      <3> HIDE DEF a, b, c, d
      <3>3. b > 0 => a - b >= (m + 1) - s.level
        BY <3>1, <3>2
      <3> QED
        BY <3>3 DEF a, b
    <2> QED
      BY <2>1, <2>3, <2>7
  <1> HIDE DEF S
  <1>9. N + s.level \in S
    <2>1. S \in SUBSET Nat
      BY DEF S
    <2>2. \A m \in Nat : m \in S
      BY <1>7, <1>8, <2>1, Induct
    <2> QED
      BY <1>1, <2>2
  <1> DEFINE end == turn[N + s.level]
  <1>10. /\ Going(q, hi, n, s.level, k, end)
         /\ end.i > 0 => end.rank - end.i >= (N + s.level) - s.level
    BY <1>9 DEF S
  <1> HIDE DEF end
  <1>11. end.i = 0
    <2>1. end.i \in 0..s.level /\ end.rank \in 0..k
      BY <1>10 DEF Going
    <2> QED
      BY <1>1, <1>10, <2>1
  <1>12. Path(q, hi, n, s.level, k, end.path)
    BY <1>1, <1>10, <1>11 DEF Going, Path
  <1>13. Descend(s, ahead) = end.path
    BY DEF Descend, end, turn, top
  <1> QED
    BY <1>12, <1>13

-----------------------------------------------------------------------------
(* A new node behind the first k, and one node less.                       *)
PutAt(f, n, k, x) ==
  [p \in 0..n + 1 |-> IF p <= k THEN f[p] ELSE IF p = k + 1 THEN x ELSE f[p - 1]]
TakenOut(f, n, d) == [p \in 0..n - 1 |-> IF p < d THEN f[p] ELSE f[p + 1]]

(* Places that have every place before them are the first so many.         *)
LEMMA Threshold ==
  ASSUME NEW n \in Nat, NEW D \in SUBSET (1..n), \A a, b \in 1..n : b \in D /\ a < b => a \in D
  PROVE  \E k \in 0..n : \A p \in 1..n : p \in D <=> p <= k
  <1> DEFINE S == {m \in 0..n : m + 1 \notin D}
  <1>1. n \in S /\ S \in SUBSET Nat
    OBVIOUS
  <1>2. PICK k \in S : \A m \in S : k <= m
    BY <1>1, LeastOf
  <1>3. ASSUME NEW p \in 1..n, p <= k PROVE p \in D
    <2>1. p - 1 \in 0..n /\ ~ (k <= p - 1) /\ (p - 1) + 1 = p
      BY <1>2, <1>3
    <2> QED
      BY <1>2, <2>1
  <1>4. ASSUME NEW p \in 1..n, ~ (p <= k) PROVE p \notin D
    <2>1. k + 1 \in 1..n /\ k + 1 \notin D /\ (p = k + 1 \/ k + 1 < p)
      BY <1>2, <1>4
    <2> QED
      BY <2>1
  <1> QED
    BY <1>2, <1>3, <1>4

(* The first k are before the object, and the others after it.             *)
Splits(q, n, k, e) == \A p \in 1..n : (p <= k => Before(q[p], e)) /\ (p > k => Before(e, q[p]))

(* An object put in its place leaves the list in order.                    *)
LEMMA OrderedPut ==
  ASSUME ListAssumption, NEW q, NEW n, Ordered(q, n), NEW e \in Listable, NEW k \in 0..n,
         Splits(q, n, k, e)
  PROVE  /\ Ordered(PutAt(q, n, k, e), n + 1)
         /\ All(PutAt(q, n, k, e), n + 1) = All(q, n) \cup {e}
  <1> DEFINE r == PutAt(q, n, k, e)
  <1>1. /\ n \in Nat /\ k \in Nat /\ n + 1 \in Nat /\ q \in [0..n -> 0..N] /\ q[0] = header
        /\ \A p \in 1..n : q[p] \in Listable
        /\ \A a, b \in 1..n : a < b => Before(q[a], q[b])
        /\ Listable \subseteq 0..N
    BY DEF Ordered, Listable, ListAssumption
  <1>2. \A p \in 0..n + 1 : r[p] = IF p <= k THEN q[p] ELSE IF p = k + 1 THEN e ELSE q[p - 1]
    BY <1>1 DEF PutAt
  <1>3. r \in [0..n + 1 -> 0..N]
    <2>1. \A p \in 0..n + 1 : r[p] \in 0..N
      BY <1>1, <1>2
    <2> QED
      BY <2>1 DEF PutAt
  <1> HIDE DEF r
  <1>4. r[0] = header
    BY <1>1, <1>2
  <1>5. ASSUME NEW p \in 1..n + 1 PROVE r[p] \in Listable
    BY <1>1, <1>2
  <1>6. ASSUME NEW a \in 1..n + 1, NEW b \in 1..n + 1, a < b PROVE Before(r[a], r[b])
    <2>1. CASE b <= k
      <3>1. a \in 1..n /\ b \in 1..n /\ r[a] = q[a] /\ r[b] = q[b]
        BY <1>1, <1>2, <1>6, <2>1
      <3> QED
        BY <1>1, <1>6, <3>1
    <2>2. CASE b = k + 1
      <3>1. a \in 1..n /\ a <= k /\ r[a] = q[a] /\ r[b] = e
        BY <1>1, <1>2, <1>6, <2>2
      <3> QED
        BY <3>1 DEF Splits
    <2>3. CASE b > k + 1 /\ a <= k
      <3>1. a \in 1..n /\ b - 1 \in 1..n /\ r[a] = q[a] /\ r[b] = q[b - 1] /\ a < b - 1
        BY <1>1, <1>2, <1>6, <2>3
      <3> QED
        BY <1>1, <3>1
    <2>4. CASE b > k + 1 /\ a = k + 1
      <3>1. b - 1 \in 1..n /\ b - 1 > k /\ r[a] = e /\ r[b] = q[b - 1]
        BY <1>1, <1>2, <1>6, <2>4
      <3> QED
        BY <3>1 DEF Splits
    <2>5. CASE b > k + 1 /\ a > k + 1
      <3>1. a - 1 \in 1..n /\ b - 1 \in 1..n /\ r[a] = q[a - 1] /\ r[b] = q[b - 1] /\ a - 1 < b - 1
        BY <1>1, <1>2, <1>6, <2>5
      <3> QED
        BY <1>1, <3>1
    <2> QED
      BY <1>1, <2>1, <2>2, <2>3, <2>4, <2>5
  <1>7. All(r, n + 1) = All(q, n) \cup {e}
    <2>1. ASSUME NEW p \in 0..n + 1 PROVE r[p] = e \/ \E t \in 0..n : r[p] = q[t]
      <3>1. p <= k => p \in 0..n
        BY <1>1
      <3>2. ~ (p <= k) /\ p # k + 1 => p - 1 \in 0..n
        BY <1>1
      <3> QED
        BY <1>2, <3>1, <3>2
    <2>2. ASSUME NEW t \in 0..n PROVE \E p \in 0..n + 1 : q[t] = r[p]
      <3>1. CASE t <= k
        <4>1. t \in 0..n + 1 /\ r[t] = q[t]
          BY <1>1, <1>2, <3>1
        <4> QED
          BY <4>1
      <3>2. CASE ~ (t <= k)
        <4>1. t + 1 \in 0..n + 1 /\ r[t + 1] = q[t]
          <5>1. t + 1 \in 0..n + 1 /\ ~ (t + 1 <= k) /\ t + 1 # k + 1 /\ (t + 1) - 1 = t
            BY <1>1, <3>2
          <5> QED
            BY <1>2, <5>1
        <4> QED
          BY <4>1
      <3> QED
        BY <3>1, <3>2
    <2>3. k + 1 \in 0..n + 1 /\ r[k + 1] = e
      BY <1>1, <1>2
    <2> QED
      BY <2>1, <2>2, <2>3 DEF All
  <1> QED
    BY <1>1, <1>3, <1>4, <1>5, <1>6, <1>7 DEF Ordered, r

(* What comes next after an insertion.                                     *)
LEMMA LeadsPut ==
  ASSUME ListAssumption, NEW n \in Nat, NEW hi \in [0..n -> Nat], NEW k \in 0..n, NEW h \in Nat,
         NEW p \in 0..n, NEW i \in Nat, NEW r \in 1..n + 1, Leads(hi, n, p, i, r)
  PROVE  LET hi2 == PutAt(hi, n, k, h) IN
         /\ p <= k /\ r <= k => Leads(hi2, n + 1, p, i, r)
         /\ p <= k /\ r > k /\ i <= h => Leads(hi2, n + 1, p, i, k + 1)
         /\ p <= k /\ r > k /\ i > h => Leads(hi2, n + 1, p, i, r + 1)
         /\ p > k => Leads(hi2, n + 1, p + 1, i, r + 1)
         /\ p <= k /\ r > k => Leads(hi2, n + 1, k + 1, i, r + 1)
  <1> DEFINE hi2 == PutAt(hi, n, k, h)
  <1>1. \A t \in 0..n + 1 : /\ t <= k => hi2[t] = hi[t]
                            /\ t = k + 1 => hi2[t] = h
                            /\ t > k + 1 => hi2[t] = hi[t - 1]
    BY DEF PutAt
  <1>2. r \in p + 1..n + 1 /\ (r <= n => hi[r] >= i) /\ \A t \in p + 1..r - 1 : hi[t] < i
    BY DEF Leads
  <1> HIDE DEF hi2
  <1>3. p <= k /\ r <= k => Leads(hi2, n + 1, p, i, r)
    BY <1>1, <1>2 DEF Leads
  <1>4. ASSUME p <= k, r > k PROVE \A t \in p + 1..k : hi2[t] < i
    BY <1>1, <1>2, <1>4
  <1>5. ASSUME r > k PROVE /\ \A t \in k + 2..r : p + 1 < t => hi2[t] < i
                           /\ r + 1 <= n + 1 => hi2[r + 1] >= i
    <2>1. \A t \in k + 2..r : p + 1 < t => t - 1 \in p + 1..r - 1 /\ hi2[t] = hi[t - 1]
      BY <1>1, <1>2, <1>5
    <2>2. r + 1 <= n + 1 => hi2[r + 1] = hi[r]
      BY <1>1, <1>2, <1>5
    <2> QED
      BY <1>2, <2>1, <2>2
  <1>6. p <= k /\ r > k /\ i <= h => Leads(hi2, n + 1, p, i, k + 1)
    <2> SUFFICES ASSUME p <= k, r > k, i <= h PROVE Leads(hi2, n + 1, p, i, k + 1)
      OBVIOUS
    <2>1. k + 1 \in p + 1..(n + 1) + 1 /\ hi2[k + 1] = h /\ (k + 1) - 1 = k
      BY <1>1
    <2> QED
      BY <1>4, <2>1 DEF Leads
  <1>7. p <= k /\ r > k /\ i > h => Leads(hi2, n + 1, p, i, r + 1)
    <2> SUFFICES ASSUME p <= k, r > k, i > h PROVE Leads(hi2, n + 1, p, i, r + 1)
      OBVIOUS
    <2>1. hi2[k + 1] = h /\ r + 1 \in p + 1..(n + 1) + 1 /\ (r + 1) - 1 = r
      BY <1>1, <1>2
    <2>2. ASSUME NEW t \in p + 1..r PROVE hi2[t] < i
      <3>1. t \in p + 1..k \/ t = k + 1 \/ (t \in k + 2..r /\ p + 1 < t)
        BY <1>2
      <3> QED
        BY <1>4, <1>5, <2>1, <3>1
    <2> QED
      BY <1>5, <2>1, <2>2 DEF Leads
  <1>8. p > k => Leads(hi2, n + 1, p + 1, i, r + 1)
    <2> SUFFICES ASSUME p > k PROVE Leads(hi2, n + 1, p + 1, i, r + 1)
      OBVIOUS
    <2>1. r > k /\ r + 1 \in (p + 1) + 1..(n + 1) + 1 /\ (r + 1) - 1 = r
      BY <1>2
    <2>2. \A t \in (p + 1) + 1..r : t \in k + 2..r /\ p + 1 < t
      BY <1>2
    <2> QED
      BY <1>5, <2>1, <2>2 DEF Leads
  <1>9. p <= k /\ r > k => Leads(hi2, n + 1, k + 1, i, r + 1)
    <2> SUFFICES ASSUME p <= k, r > k PROVE Leads(hi2, n + 1, k + 1, i, r + 1)
      OBVIOUS
    <2>1. r + 1 \in (k + 1) + 1..(n + 1) + 1 /\ (r + 1) - 1 = r
      BY <1>2
    <2>2. \A t \in (k + 1) + 1..r : t \in k + 2..r /\ p + 1 < t
      BY <1>2
    <2> QED
      BY <1>5, <2>1, <2>2 DEF Leads
  <1> QED
    BY <1>3, <1>6, <1>7, <1>8, <1>9 DEF hi2

-----------------------------------------------------------------------------
(* slInsert.  The nodes that were there, after the last of the first k on  *)
(* each level, u[i], was linked to the new one at height h.                *)
Highest(level, h) == IF h > level THEN h ELSE level

NodeLinked(o, u, level, k, h, e, p) ==
  [forward |-> [i \in DOMAIN o.forward |-> IF i <= h /\ u[i] = p THEN e ELSE o.forward[i]],
   span |-> [i \in DOMAIN o.span |-> IF i <= h /\ u[i] = p THEN k - u[i] + 1
                                     ELSE IF i <= level /\ i > h /\ u[i] = p THEN o.span[i] + 1
                                     ELSE o.span[i]],
   backward |-> IF p = k + 1 THEN e ELSE o.backward]

(* The links and spans of the nodes that were there, after an insertion.   *)
LEMMA InsertOld ==
  ASSUME ListAssumption, NEW q, NEW hi, NEW n, NEW level \in 1..SKIPLIST_MAXLEVEL, Ordered(q, n),
         Heights(hi, n, level), NEW k \in 0..n, NEW h \in 1..SKIPLIST_MAXLEVEL, NEW e \in Listable,
         NEW u, \A i \in 1..SKIPLIST_MAXLEVEL : LastAt(hi, k, i, u[i]),
         NEW p \in 0..n, NEW o, NodeIs(o, level, q, hi, n, p), NEW node,
         node = NodeLinked(o, u, level, k, h, e, p)
  PROVE  NodeIs(node, Highest(level, h), PutAt(q, n, k, e), PutAt(hi, n, k, h), n + 1,
                IF p <= k THEN p ELSE p + 1)
  <1> DEFINE q2 == PutAt(q, n, k, e)
             hi2 == PutAt(hi, n, k, h)
             p2 == IF p <= k THEN p ELSE p + 1
             M == SKIPLIST_MAXLEVEL
  <1>1. /\ n \in Nat /\ k \in Nat /\ M \in Nat /\ q \in [0..n -> 0..N] /\ hi \in [0..n -> 1..M]
        /\ hi[0] = M /\ e \in 0..N /\ p \in Nat /\ N \in Nat
        /\ \A t \in 1..n : hi[t] <= level
    <2>1. n \in Nat /\ q \in [0..n -> 0..N] /\ N \in Nat /\ M \in Nat /\ e \in 0..N
      BY DEF Ordered, ListAssumption, Listable
    <2> QED
      BY <2>1 DEF Heights
  <1>2. /\ \A t \in 0..n + 1 : q2[t] = IF t <= k THEN q[t] ELSE IF t = k + 1 THEN e ELSE q[t - 1]
        /\ \A t \in 0..n + 1 : hi2[t] = IF t <= k THEN hi[t] ELSE IF t = k + 1 THEN h ELSE hi[t - 1]
    BY DEF PutAt
  <1>0. \A t \in 0..n : hi[t] \in Nat
    <2>1. hi \in [0..n -> 1..M] /\ M \in Nat
      BY <1>1
    <2>2. \A t \in 0..n : hi[t] \in 1..M
      BY <2>1
    <2> QED
      BY <2>1, <2>2
  <1>3. p2 \in 0..n + 1 /\ hi2[p2] = hi[p] /\ (p > k => (p + 1) - 1 = p)
    BY <1>1, <1>2
  <1>4. /\ DOMAIN o.forward = 1..hi[p] /\ DOMAIN o.span = 1..hi[p]
        /\ o \in ListNodes
        /\ o.backward = IF p <= 1 THEN null ELSE q[p - 1]
        /\ \A i \in 1..hi[p] : i <= level =>
             \E r \in 1..n + 1 : /\ Leads(hi, n, p, i, r)
                                 /\ o.forward[i] = NodeAt(q, n, r)
                                 /\ o.span[i] = Upto(n, r) - p
        /\ \A i \in 1..hi[p] : i > level => o.forward[i] = null
    BY DEF NodeIs
  <1>5. o.forward \in [1..hi[p] -> Int] /\ o.span \in [1..hi[p] -> Int] /\ o.backward \in Int
    BY <1>4 DEF ListNodes, Links
  <1>6. \A i \in 1..hi[p] : i \in 1..M /\ u[i] \in 0..k /\ u[i] \in Int
    <2>1. hi[p] \in 1..M
      BY <1>1
    <2>a. M \in Nat
      BY <1>1
    <2> HIDE DEF M
    <2>2. \A i \in 1..hi[p] : i \in 1..M
      BY <2>a, <2>1
    <2>3. \A i \in 1..M : u[i] \in 0..k /\ u[i] \in Int
      BY DEF LastAt, M
    <2> QED
      BY <2>2, <2>3
  <1>7. /\ DOMAIN node.forward = 1..hi[p] /\ DOMAIN node.span = 1..hi[p]
        /\ node.backward = IF p = k + 1 THEN e ELSE o.backward
        /\ \A i \in 1..hi[p] :
             /\ node.forward[i] = IF i <= h /\ u[i] = p THEN e ELSE o.forward[i]
             /\ node.span[i] = IF i <= h /\ u[i] = p THEN k - u[i] + 1
                               ELSE IF i <= level /\ i > h /\ u[i] = p THEN o.span[i] + 1
                               ELSE o.span[i]
    BY <1>4 DEF NodeLinked
  <1>8. node \in ListNodes
    <2>1. node.forward \in [1..hi[p] -> Int]
      <3>1. e \in Int /\ h \in Int
        BY <1>1
      <3> QED
        BY <1>4, <1>5, <3>1 DEF NodeLinked
    <2>2. node.span \in [1..hi[p] -> Int]
      <3>1. \A i \in 1..hi[p] : node.span[i] \in Int
        <4> SUFFICES ASSUME NEW i \in 1..hi[p] PROVE node.span[i] \in Int
          OBVIOUS
        <4>1. k - u[i] + 1 \in Int /\ o.span[i] \in Int /\ o.span[i] + 1 \in Int
          <5>1. u[i] \in Int /\ k \in Int
            BY <1>6
          <5>2. o.span[i] \in Int
            BY <1>5
          <5> QED
            BY <5>1, <5>2
        <4> QED
          BY <1>7, <4>1
      <3> QED
        BY <1>4, <3>1 DEF NodeLinked
    <2>3. node.backward \in Int
      BY <1>1, <1>5, <1>7
    <2>4. node = [forward |-> node.forward, span |-> node.span, backward |-> node.backward]
      BY DEF NodeLinked
    <2>5. hi[p] \in 1..M
      BY <1>1
    <2> QED
      BY <2>1, <2>2, <2>3, <2>4, <2>5 DEF ListNodes, Links
  <1>b. n \in Nat /\ k \in Nat /\ p \in Nat /\ k <= n /\ p <= n
    BY <1>1
  <1>9. node.backward = IF p2 <= 1 THEN null ELSE q2[p2 - 1]
    <2>a. /\ p <= k => p2 = p
          /\ ~ (p <= k) => p2 = p + 1
      OBVIOUS
    <2> HIDE DEF p2, q2
    <2>b. \A t \in 0..n + 1 : q2[t] = IF t <= k THEN q[t] ELSE IF t = k + 1 THEN e ELSE q[t - 1]
      BY <1>2
    <2>c. /\ node.backward = IF p = k + 1 THEN e ELSE o.backward
          /\ o.backward = IF p <= 1 THEN null ELSE q[p - 1]
      BY <1>4, <1>7
    <2>1. CASE p <= k
      <3>1. p2 = p /\ p # k + 1 /\ (~ (p <= 1) => p - 1 <= k /\ p - 1 \in 0..n + 1)
        BY <1>b, <2>a, <2>1
      <3>2. ~ (p <= 1) => q2[p - 1] = q[p - 1]
        BY <2>b, <3>1
      <3> QED
        BY <2>c, <3>1, <3>2
    <2>2. CASE p = k + 1
      <3>1. p2 = k + 2 /\ ~ (p2 <= 1) /\ p2 - 1 = k + 1 /\ k + 1 \in 0..n + 1 /\ ~ (k + 1 <= k)
        BY <1>b, <2>a, <2>2
      <3>2. q2[k + 1] = e
        BY <2>b, <3>1
      <3> QED
        BY <2>c, <2>2, <3>1, <3>2
    <2>3. CASE p > k + 1
      <3>1. /\ p2 = p + 1 /\ ~ (p2 <= 1) /\ p2 - 1 = p /\ p \in 0..n + 1 /\ ~ (p <= 1)
            /\ p # k + 1 /\ ~ (p <= k)
        BY <1>b, <2>a, <2>3
      <3>2. q2[p] = q[p - 1]
        BY <2>b, <3>1
      <3> QED
        BY <2>c, <3>1, <3>2
    <2> QED
      BY <1>b, <2>1, <2>2, <2>3
  <1>10. ASSUME NEW i \in 1..hi[p], i <= Highest(level, h)
         PROVE  \E r \in 1..(n + 1) + 1 : /\ Leads(hi2, n + 1, p2, i, r)
                                          /\ node.forward[i] = NodeAt(q2, n + 1, r)
                                          /\ node.span[i] = Upto(n + 1, r) - p2
    <2>0. /\ n \in Nat /\ k \in Nat /\ p \in Nat /\ h \in Nat /\ level \in Nat /\ k <= n /\ p <= n
          /\ 1 <= level
      BY <1>1
    <2>a. \A t \in 0..n : hi[t] \in Nat
      BY <1>0
    <2>1. i \in 1..M /\ i \in Nat /\ h \in Nat /\ LastAt(hi, k, i, u[i]) /\ hi \in [0..n -> Nat]
      <3>1. i \in 1..M /\ i \in Nat
        BY <1>6
      <3>2. hi \in [0..n -> Nat]
        BY <1>1, <2>a
      <3> QED
        BY <2>0, <3>1, <3>2
    <2>2. PICK r \in 1..n + 1 : /\ Leads(hi, n, p, i, r)
                                /\ o.forward[i] = NodeAt(q, n, r)
                                /\ i <= level => o.span[i] = Upto(n, r) - p
                                /\ i > level => p = 0 /\ r = n + 1
      <3>1. CASE i <= level
        <4>1. level \in Int
          BY <1>1
        <4> QED
          BY <1>4, <2>1, <3>1, <4>1
      <3>2. CASE i > level
        <4>a. \A t \in 1..n : hi[t] \in Nat /\ hi[t] < i
          <5>0. \A t \in 1..n : hi[t] <= level /\ t \in 0..n
            BY <1>1
          <5>1. \A t \in 1..n : hi[t] \in Nat /\ hi[t] <= level
            BY <2>a, <5>0
          <5> HIDE DEF M
          <5> QED
            BY <2>0, <2>1, <3>2, <5>1
        <4>1. p = 0
          <5>1. p = 0 \/ p \in 1..n
            BY <2>0
          <5>2. hi[p] \in Nat /\ i <= hi[p]
            BY <2>a
          <5> QED
            BY <2>1, <4>a, <5>1, <5>2
        <4>2. Leads(hi, n, 0, i, n + 1)
          <5>1. n + 1 \in 0 + 1..n + 1 /\ ~ (n + 1 <= n) /\ \A t \in 0 + 1..(n + 1) - 1 : t \in 1..n
            BY <2>0
          <5> QED
            BY <4>a, <5>1 DEF Leads
        <4>3. o.forward[i] = NodeAt(q, n, n + 1)
          BY <1>4, <3>2 DEF NodeAt
        <4>4. n + 1 \in 1..n + 1 /\ ~ (i <= level)
          BY <2>0, <2>1, <3>2
        <4> QED
          BY <3>2, <4>1, <4>2, <4>3, <4>4
      <3> QED
        BY <1>1, <2>1, <3>1, <3>2
    <2>3. r \in Nat /\ p + 1 <= r
      BY <1>1, <2>2 DEF Leads
    <2>4. /\ p <= k /\ r <= k => Leads(hi2, n + 1, p, i, r)
          /\ p <= k /\ r > k /\ i <= h => Leads(hi2, n + 1, p, i, k + 1)
          /\ p <= k /\ r > k /\ i > h => Leads(hi2, n + 1, p, i, r + 1)
          /\ p > k => Leads(hi2, n + 1, p + 1, i, r + 1)
      BY <1>1, <2>1, <2>2, LeadsPut
    <2>5. p <= k /\ r > k => u[i] = p
      <3>1. p <= k /\ r > k => /\ hi[p] >= i
                               /\ \A t \in p + 1..k : hi[t] < i
        <4>1. hi[p] >= i
          BY <2>a
        <4>2. ASSUME r > k, NEW t \in p + 1..k PROVE t \in p + 1..r - 1
          <5>1. k \in Nat /\ p \in Nat /\ r \in Nat
            BY <2>0, <2>3
          <5> QED
            BY <4>2, <5>1
        <4>3. \A t \in p + 1..r - 1 : hi[t] < i
          BY <2>2 DEF Leads
        <4> QED
          BY <4>1, <4>2, <4>3
      <3>2. u[i] \in 0..k /\ hi[u[i]] >= i /\ \A t \in u[i] + 1..k : hi[t] < i
        BY <2>1 DEF LastAt
      <3>3. u[i] \in 0..n /\ hi[u[i]] \in Nat /\ hi[p] \in Nat
        <4>1. u[i] \in 0..n
          BY <2>0, <3>2
        <4> QED
          BY <2>a, <4>1
      <3>4. p <= k /\ u[i] < p => p \in u[i] + 1..k
        BY <2>0, <3>2
      <3>5. p < u[i] => u[i] \in p + 1..k
        BY <2>0, <3>2
      <3>6. u[i] \in Nat /\ i \in Nat
        BY <2>1, <3>2
      <3>7. p <= k /\ r > k => ~ (u[i] < p)
        BY <3>1, <3>2, <3>3, <3>4, <3>6
      <3>8. p <= k /\ r > k => ~ (p < u[i])
        BY <3>1, <3>2, <3>3, <3>5, <3>6
      <3> QED
        BY <2>0, <3>6, <3>7, <3>8
    <2>6. (p <= k /\ r <= k) \/ p > k => u[i] # p
      <3>1. p <= k /\ r <= k => r \in p + 1..k /\ r <= n /\ hi[r] >= i
        BY <1>1, <2>2, <2>3 DEF Leads
      <3>2. u[i] \in 0..k /\ \A t \in u[i] + 1..k : hi[t] < i
        BY <2>1 DEF LastAt
      <3>3. p <= k /\ r <= k => r \in 0..n /\ hi[r] \in Nat
        BY <2>0, <2>3, <2>a
      <3>4. p <= k /\ r <= k => u[i] # p
        BY <2>1, <3>1, <3>2, <3>3
      <3>5. p > k => u[i] # p
        BY <2>0, <3>2
      <3> QED
        BY <3>4, <3>5
    <2>7. /\ node.forward[i] = IF i <= h /\ u[i] = p THEN e ELSE o.forward[i]
          /\ node.span[i] = IF i <= h /\ u[i] = p THEN k - u[i] + 1
                            ELSE IF i <= level /\ i > h /\ u[i] = p THEN o.span[i] + 1
                            ELSE o.span[i]
      BY <1>7
    <2>8. /\ r <= k => NodeAt(q2, n + 1, r) = NodeAt(q, n, r) /\ Upto(n + 1, r) = Upto(n, r)
          /\ r > k => /\ NodeAt(q2, n + 1, r + 1) = NodeAt(q, n, r)
                      /\ Upto(n + 1, r + 1) = Upto(n, r) + 1
          /\ NodeAt(q2, n + 1, k + 1) = e /\ Upto(n + 1, k + 1) = k + 1
      <3>1. r <= k => r \in 0..n + 1 /\ r # n + 1 /\ r # (n + 1) + 1
        BY <1>b, <2>3
      <3>2. r > k => /\ r + 1 = (n + 1) + 1 <=> r = n + 1
                     /\ r # n + 1 => r + 1 \in 0..n + 1 /\ ~ (r + 1 <= k) /\ r + 1 # k + 1
                     /\ (r + 1) - 1 = r
        <4>1. r <= n + 1
          BY <1>b
        <4> QED
          BY <1>b, <2>3, <4>1
      <3>3. k + 1 \in 0..n + 1 /\ k + 1 # (n + 1) + 1 /\ ~ (k + 1 <= k)
        BY <1>b
      <3> QED
        BY <1>2, <3>1, <3>2, <3>3 DEF NodeAt, Upto
    <2>9. Upto(n, r) \in Int
      BY <1>1, <2>3 DEF Upto
    <2> HIDE DEF hi2, q2
    <2>10. CASE p <= k /\ r <= k
      <3>1. i <= level /\ r \in 1..(n + 1) + 1 /\ p2 = p
        BY <2>0, <2>1, <2>2, <2>3, <2>10
      <3> QED
        BY <2>2, <2>4, <2>6, <2>7, <2>8, <2>10, <3>1
    <2>11. CASE p <= k /\ r > k /\ i <= h
      <3>1. k + 1 \in 1..(n + 1) + 1 /\ p2 = p
        BY <1>1, <2>11
      <3>2. node.forward[i] = e /\ node.span[i] = (k + 1) - p
        <4>1. u[i] = p /\ i <= h
          BY <2>5, <2>11
        <4>2. node.forward[i] = e /\ node.span[i] = k - p + 1
          BY <2>7, <4>1
        <4>3. k - p + 1 = (k + 1) - p
          BY <2>0
        <4> QED
          BY <4>2, <4>3
      <3> QED
        BY <2>4, <2>8, <2>11, <3>1, <3>2
    <2>12. CASE p <= k /\ r > k /\ i > h
      <3>1. i <= level /\ r + 1 \in 1..(n + 1) + 1 /\ p2 = p /\ ~ (i <= h)
        <4>1. i <= level /\ ~ (i <= h)
          BY <1>1, <1>10, <2>1, <2>12 DEF Highest
        <4>2. r + 1 \in 1..(n + 1) + 1
          BY <1>1, <2>2, <2>3
        <4> QED
          BY <2>12, <4>1, <4>2
      <3>2. node.forward[i] = o.forward[i] /\ node.span[i] = (Upto(n, r) + 1) - p
        <4>1. u[i] = p /\ o.span[i] = Upto(n, r) - p /\ i > h
          BY <2>2, <2>5, <2>12, <3>1
        <4>2. node.forward[i] = o.forward[i] /\ node.span[i] = o.span[i] + 1
          BY <2>7, <3>1, <4>1
        <4> QED
          BY <1>1, <2>9, <4>1, <4>2
      <3> QED
        BY <2>2, <2>4, <2>8, <2>12, <3>1, <3>2
    <2>13. CASE p > k
      <3>1. i <= level /\ r + 1 \in 1..(n + 1) + 1 /\ p2 = p + 1 /\ r > k
        <4>1. i <= level
          <5>1. p # 0
            BY <2>0, <2>13
          <5> QED
            BY <2>0, <2>1, <2>2, <5>1
        <4>2. r + 1 \in 1..(n + 1) + 1 /\ r > k /\ ~ (p <= k)
          BY <2>0, <2>2, <2>3, <2>13
        <4> QED
          BY <4>1, <4>2
      <3>2. node.forward[i] = o.forward[i] /\ node.span[i] = (Upto(n, r) + 1) - (p + 1)
        <4>1. u[i] # p /\ o.span[i] = Upto(n, r) - p
          BY <2>2, <2>6, <2>13, <3>1
        <4>2. node.forward[i] = o.forward[i] /\ node.span[i] = o.span[i]
          BY <2>7, <4>1
        <4> QED
          BY <1>1, <2>9, <4>1, <4>2
      <3> QED
        BY <2>2, <2>4, <2>8, <2>13, <3>1, <3>2
    <2>14. \/ p <= k /\ r <= k
           \/ p <= k /\ r > k /\ i <= h
           \/ p <= k /\ r > k /\ i > h
           \/ p > k
      BY <2>0, <2>1, <2>3
    <2> QED
      BY <2>10, <2>11, <2>12, <2>13, <2>14
  <1>11. ASSUME NEW i \in 1..hi[p], i > Highest(level, h) PROVE node.forward[i] = null
    <2>1. hi[p] \in Nat
      BY <1>0
    <2>0. level \in Nat /\ h \in Nat /\ i \in Nat
      BY <2>1
    <2>2. i > level /\ ~ (i <= h)
      BY <1>11, <2>0 DEF Highest
    <2> QED
      BY <1>4, <1>7, <2>2
  <1> HIDE DEF q2, hi2, p2
  <1> QED
    BY <1>3, <1>7, <1>8, <1>9, <1>10, <1>11 DEF NodeIs, q2, hi2, p2

(* The new node, with what the last of the first k had on each level.      *)
NewNode(forward, span, u, k, h, backward) ==
  [forward |-> [i \in 1..h |-> forward[i]], span |-> [i \in 1..h |-> span[i] - (k - u[i])],
   backward |-> backward]

(* Those of the node inserted.                                             *)
LEMMA InsertNew ==
  ASSUME ListAssumption, NEW q, NEW hi, NEW n, NEW level \in 1..SKIPLIST_MAXLEVEL, Ordered(q, n),
         Heights(hi, n, level), NEW k \in 0..n, NEW h \in 1..SKIPLIST_MAXLEVEL, NEW e \in Listable,
         NEW u, \A i \in 1..SKIPLIST_MAXLEVEL : LastAt(hi, k, i, u[i]),
         NEW forward, NEW span,
         \A i \in 1..h : \E r \in 1..n + 1 : /\ Leads(hi, n, u[i], i, r)
                                             /\ forward[i] = NodeAt(q, n, r)
                                             /\ span[i] = Upto(n, r) - u[i]
  PROVE  NodeIs(NewNode(forward, span, u, k, h, IF k = 0 THEN null ELSE q[k]), Highest(level, h),
                PutAt(q, n, k, e), PutAt(hi, n, k, h), n + 1, k + 1)
  <1> DEFINE q2 == PutAt(q, n, k, e)
             hi2 == PutAt(hi, n, k, h)
             back == IF k = 0 THEN null ELSE q[k]
             node == NewNode(forward, span, u, k, h, back)
  <1>1. /\ n \in Nat /\ k \in Nat /\ h \in Nat /\ q \in [0..n -> 0..N] /\ hi \in [0..n -> Nat]
        /\ N \in Nat /\ SKIPLIST_MAXLEVEL \in Nat
    <2>1. n \in Nat /\ q \in [0..n -> 0..N] /\ N \in Nat /\ SKIPLIST_MAXLEVEL \in Nat
      BY DEF Ordered, ListAssumption
    <2> QED
      BY <2>1 DEF Heights
  <1>2. /\ \A t \in 0..n + 1 : q2[t] = IF t <= k THEN q[t] ELSE IF t = k + 1 THEN e ELSE q[t - 1]
        /\ \A t \in 0..n + 1 : hi2[t] = IF t <= k THEN hi[t] ELSE IF t = k + 1 THEN h ELSE hi[t - 1]
    BY DEF PutAt
  <1>3. k + 1 \in 0..n + 1 /\ hi2[k + 1] = h /\ back \in Int
    <2>1. k + 1 \in 0..n + 1 /\ ~ (k + 1 <= k) /\ k \in 0..n
      BY <1>1
    <2>2. q[k] \in Int
      BY <1>1, <2>1
    <2> QED
      BY <1>2, <2>1, <2>2 DEF null
  <1>4. \A i \in 1..h : i \in 1..SKIPLIST_MAXLEVEL /\ u[i] \in 0..k /\ u[i] \in 0..n
    <2> SUFFICES ASSUME NEW i \in 1..h PROVE i \in 1..SKIPLIST_MAXLEVEL /\ u[i] \in 0..k /\ u[i] \in 0..n
      OBVIOUS
    <2>1. i \in 1..SKIPLIST_MAXLEVEL
      BY <1>1
    <2>2. u[i] \in 0..k
      BY <2>1 DEF LastAt
    <2> QED
      BY <1>1, <2>1, <2>2
  <1>5. ASSUME NEW i \in 1..h
        PROVE  \E r \in 1..n + 1 : /\ Leads(hi2, n + 1, k + 1, i, r + 1)
                                   /\ forward[i] = NodeAt(q, n, r) /\ r > k
                                   /\ span[i] = Upto(n, r) - u[i]
    <2>1. PICK r \in 1..n + 1 : /\ Leads(hi, n, u[i], i, r)
                                /\ forward[i] = NodeAt(q, n, r)
                                /\ span[i] = Upto(n, r) - u[i]
      OBVIOUS
    <2>2. i \in Nat /\ u[i] \in 0..n /\ u[i] <= k /\ LastAt(hi, k, i, u[i])
      BY <1>1, <1>4
    <2>3. r > k
      <3> SUFFICES ASSUME ~ (r > k) PROVE FALSE
        OBVIOUS
      <3>1. r \in u[i] + 1..k /\ r <= n /\ r \in 0..n
        BY <1>1, <2>1, <2>2 DEF Leads
      <3>2. hi[r] >= i /\ hi[r] < i
        BY <2>1, <2>2, <3>1 DEF Leads, LastAt
      <3>3. hi[r] \in Nat
        BY <1>1, <3>1
      <3> QED
        BY <2>2, <3>2, <3>3
    <2>4. Leads(hi2, n + 1, k + 1, i, r + 1)
      BY <1>1, <2>1, <2>2, <2>3, LeadsPut
    <2> QED
      BY <2>1, <2>3, <2>4
  <1>6. /\ node.forward = [i \in 1..h |-> forward[i]]
        /\ node.span = [i \in 1..h |-> span[i] - (k - u[i])]
        /\ node.backward = back
        /\ node = [forward |-> node.forward, span |-> node.span, backward |-> node.backward]
    BY DEF NewNode
  <1> HIDE DEF node, back
  <1>7. ASSUME NEW i \in 1..h
        PROVE  /\ node.forward[i] \in Int /\ node.span[i] \in Int
               /\ \E r \in 1..(n + 1) + 1 : /\ Leads(hi2, n + 1, k + 1, i, r)
                                            /\ node.forward[i] = NodeAt(q2, n + 1, r)
                                            /\ node.span[i] = Upto(n + 1, r) - (k + 1)
    <2>1. PICK r \in 1..n + 1 : /\ Leads(hi2, n + 1, k + 1, i, r + 1)
                                /\ forward[i] = NodeAt(q, n, r) /\ r > k
                                /\ span[i] = Upto(n, r) - u[i]
      BY <1>5
    <2> HIDE DEF hi2, q2
    <2>2. /\ (r + 1 = (n + 1) + 1 <=> r = n + 1) /\ r \in Nat /\ (r + 1) - 1 = r
          /\ r # n + 1 => r \in 0..n /\ r + 1 \in 0..n + 1 /\ ~ (r + 1 <= k) /\ r + 1 # k + 1
          /\ r + 1 \in 1..(n + 1) + 1
      BY <1>1, <2>1
    <2>3. NodeAt(q2, n + 1, r + 1) = NodeAt(q, n, r) /\ NodeAt(q, n, r) \in Int
      BY <1>1, <1>2, <2>2 DEF NodeAt, null
    <2>4. Upto(n + 1, r + 1) = Upto(n, r) + 1 /\ Upto(n, r) \in Int
      BY <1>1, <2>2 DEF Upto
    <2>5. u[i] \in Int
      BY <1>1, <1>4
    <2>6. node.forward[i] = NodeAt(q2, n + 1, r + 1) /\ node.forward[i] \in Int
      BY <1>6, <2>1, <2>3
    <2>7. node.span[i] = span[i] - (k - u[i])
      BY <1>6
    <2>8. node.span[i] = Upto(n + 1, r + 1) - (k + 1) /\ node.span[i] \in Int
      <3> DEFINE x == Upto(n, r)
                 y == u[i]
      <3>1. x \in Int /\ y \in Int /\ k \in Int
        BY <1>1, <2>4, <2>5
      <3>2. node.span[i] = (x - y) - (k - y) /\ Upto(n + 1, r + 1) = x + 1
        BY <2>1, <2>4, <2>7
      <3> HIDE DEF x, y
      <3>3. (x - y) - (k - y) = (x + 1) - (k + 1) /\ (x - y) - (k - y) \in Int
        BY <3>1
      <3> QED
        BY <3>2, <3>3
    <2> QED
      BY <2>1, <2>2, <2>6, <2>8
  <1>8. node \in ListNodes
    <2>1. node.forward \in [1..h -> Int] /\ node.span \in [1..h -> Int]
      BY <1>6, <1>7
    <2> QED
      BY <1>3, <1>6, <2>1 DEF ListNodes, Links
  <1>9. DOMAIN node.forward = 1..h /\ DOMAIN node.span = 1..h
    BY <1>6
  <1>10. node.backward = IF k + 1 <= 1 THEN null ELSE q2[(k + 1) - 1]
    <2>1. (k + 1) - 1 = k /\ k \in 0..n + 1 /\ (k + 1 <= 1 <=> k = 0)
      BY <1>1
    <2> QED
      BY <1>2, <1>6, <2>1 DEF back
  <1>11. ~ \E i \in 1..h : i > Highest(level, h)
    BY <1>1 DEF Highest
  <1> HIDE DEF q2, hi2
  <1>12. NodeIs(node, Highest(level, h), q2, hi2, n + 1, k + 1)
    BY <1>3, <1>7, <1>8, <1>9, <1>10, <1>11 DEF NodeIs
  <1> QED
    BY <1>12 DEF node, back, q2, hi2

(* slInsert puts a node behind those that are before it, for any height.   *)
LEMMA InsertIs ==
  ASSUME ListAssumption, NEW s, NEW q, NEW hi, NEW n, Shape(s, q, hi, n), NEW k \in 0..n,
         NEW h \in 1..SKIPLIST_MAXLEVEL, NEW e \in Listable,
         Splits(q, n, k, e)
  PROVE  /\ Shape(slInsert(s, e, h), PutAt(q, n, k, e), PutAt(hi, n, k, h), n + 1)
         /\ DOMAIN slInsert(s, e, h).at = DOMAIN s.at \cup {e}
  <1> DEFINE q2 == PutAt(q, n, k, e)
             hi2 == PutAt(hi, n, k, h)
             M == SKIPLIST_MAXLEVEL
             path == Descend(s, Lower(e))
             update(i) == IF i <= s.level THEN path[i] ELSE [node |-> header, rank |-> 0]
             u == [i \in 1..M |-> update(i).rank]
             skipped(i) == update(1).rank - update(i).rank
             next == s.at[update(1).node].forward[1]
             forward == [i \in 1..h |-> s.at[update(i).node].forward[i]]
             span == [i \in 1..h |-> SpanOf(s, update(i).node, i)]
             node == slCreateNode(h, forward,
                                  [i \in 1..h |-> SpanOf(s, update(i).node, i) - skipped(i)],
                                  IF update(1).node = header THEN null ELSE update(1).node)
             Linked(x, m) ==
               [forward |-> [i \in DOMAIN m.forward |->
                               IF i <= h /\ update(i).node = x THEN e ELSE m.forward[i]],
                span |-> [i \in DOMAIN m.span |->
                            IF i <= h /\ update(i).node = x THEN skipped(i) + 1
                            ELSE IF i <= s.level /\ i > h /\ update(i).node = x THEN m.span[i] + 1
                            ELSE m.span[i]],
                backward |-> IF x = next THEN e ELSE m.backward]
             at2 == [x \in DOMAIN s.at \cup {e} |-> IF x = e THEN node ELSE Linked(x, s.at[x])]
             t2 == slInsert(s, e, h)
  <1>1. /\ Ordered(q, n) /\ Heights(hi, n, s.level) /\ s.level \in 1..M /\ s.length = n
        /\ s.tail = (IF n = 0 THEN null ELSE q[n]) /\ DOMAIN s.at = {q[p] : p \in 0..n}
        /\ \A p \in 0..n : NodeIs(s.at[q[p]], s.level, q, hi, n, p)
    BY DEF Shape, Lists, All
  <1>2. /\ n \in Nat /\ k \in Nat /\ h \in Nat /\ M \in Nat /\ N \in Nat /\ s.level \in Nat
        /\ q \in [0..n -> 0..N] /\ hi \in [0..n -> 1..M] /\ q[0] = header /\ hi[0] = M
        /\ e \in 0..N /\ e # header
        /\ \A p \in 1..n : hi[p] <= s.level
        /\ \A p \in 1..n : q[p] \in Listable
    <2>1. n \in Nat /\ q \in [0..n -> 0..N] /\ N \in Nat /\ M \in Nat /\ e \in 0..N /\ e # header
          /\ q[0] = header /\ \A p \in 1..n : q[p] \in Listable
      <3>1. n \in Nat /\ q \in [0..n -> 0..N] /\ q[0] = header /\ \A p \in 1..n : q[p] \in Listable
        BY <1>1 DEF Ordered
      <3>2. N \in Nat /\ M \in Nat
        BY DEF ListAssumption
      <3>3. e \in 0..N /\ e # header
        BY <3>2 DEF Listable, header
      <3> QED
        BY <3>1, <3>2, <3>3
    <2> QED
      BY <1>1, <2>1 DEF Heights
  <1>3. t2 = [level |-> Highest(s.level, h), length |-> n + 1,
              tail |-> IF next = null THEN e ELSE s.tail, at |-> at2]
    BY <1>1 DEF slInsert, Highest
  <1> HIDE DEF t2, at2, Linked, node, next, forward, span, skipped, q2, hi2
  <1>4. Path(q, hi, n, s.level, k, path)
    <2>1. ASSUME NEW p \in 1..n PROVE Lower(e)[<<q[p], p>>] <=> p <= k
      <3>1. q[p] \in Listable /\ p \in Int /\ (p <= k \/ p > k)
        BY <1>2
      <3>2. Lower(e)[<<q[p], p>>] = Before(q[p], e)
        BY <3>1 DEF Lower, Places
      <3>3. (p <= k => Before(q[p], e)) /\ (p > k => Before(e, q[p]))
        BY DEF Splits
      <3>4. p > k => ~ Before(q[p], e)
        BY <3>1, <3>3, BeforeOrders
      <3> QED
        BY <1>2, <3>1, <3>2, <3>3, <3>4
    <2> QED
      BY <2>1, DescendIs
  <1> HIDE DEF path
  <1>5. ASSUME NEW i \in 1..M
        PROVE  LastAt(hi, k, i, u[i]) /\ update(i).node = q[u[i]] /\ u[i] = update(i).rank
    <2>1. CASE i <= s.level
      <3>1. i \in 1..s.level
        BY <1>2, <2>1
      <3>2. update(i) = path[i]
        BY <2>1
      <3> QED
        BY <1>4, <3>1, <3>2 DEF Path
    <2>2. CASE ~ (i <= s.level)
      <3>1. update(i).node = q[0] /\ u[i] = 0 /\ u[i] = update(i).rank
        BY <1>2, <2>2
      <3>2. LastAt(hi, k, i, 0)
        BY <1>2, <2>2 DEF LastAt
      <3> QED
        BY <3>1, <3>2
    <2> QED
      BY <2>1, <2>2
  <1> HIDE DEF u, update
  <1>6. u[1] = k /\ 1 \in 1..M /\ update(1).node = q[k] /\ update(1).rank = k
    <2>1. LastAt(hi, k, 1, u[1]) /\ 1 \in 1..M
      BY <1>2, <1>5
    <2>2. \A p \in 0..n : hi[p] >= 1
      BY <1>2
    <2>3. u[1] = k
      <3>1. u[1] \in 0..k /\ \A t \in u[1] + 1..k : hi[t] < 1
        BY <2>1 DEF LastAt
      <3>2. u[1] # k => k \in u[1] + 1..k /\ k \in 0..n
        BY <1>2, <3>1
      <3>3. hi[k] \in Nat /\ hi[k] >= 1
        BY <1>2
      <3> QED
        BY <3>1, <3>2, <3>3
    <2> QED
      BY <1>5, <2>1, <2>3
  <1>7. \A i \in 1..M, p \in 0..n : u[i] \in 0..n /\ (update(i).node = q[p] <=> u[i] = p)
    <2> SUFFICES ASSUME NEW i \in 1..M, NEW p \in 0..n
                 PROVE  u[i] \in 0..n /\ (update(i).node = q[p] <=> u[i] = p)
      OBVIOUS
    <2>1. u[i] \in 0..n /\ update(i).node = q[u[i]]
      BY <1>2, <1>5 DEF LastAt
    <2> QED
      BY <1>1, <2>1, OneToOne
  <1>8. \A i \in 1..M : skipped(i) = k - u[i]
    BY <1>5, <1>6 DEF skipped
  <1>9. next = NodeAt(q, n, k + 1)
    <2>1. 1 \in 1..hi[k] /\ 1 <= s.level
      BY <1>1, <1>2
    <2>2. PICK r \in 1..n + 1 : Leads(hi, n, k, 1, r) /\ s.at[q[k]].forward[1] = NodeAt(q, n, r)
      BY <1>1, <2>1 DEF NodeIs
    <2>3. r = k + 1
      <3>1. r \in k + 1..n + 1 /\ \A t \in k + 1..r - 1 : hi[t] < 1
        BY <2>2 DEF Leads
      <3>2. r # k + 1 => k + 1 \in k + 1..r - 1 /\ k + 1 \in 0..n
        BY <1>2, <3>1
      <3>3. \A p \in 0..n : hi[p] >= 1 /\ hi[p] \in Nat
        BY <1>2
      <3> QED
        BY <3>1, <3>2, <3>3
    <2> QED
      BY <1>6, <2>2, <2>3 DEF next
  <1>10. \A p \in 0..n : q[p] = next <=> p = k + 1
    <2> SUFFICES ASSUME NEW p \in 0..n PROVE q[p] = next <=> p = k + 1
      OBVIOUS
    <2>1. k + 1 # n + 1 => k + 1 \in 0..n
      BY <1>2
    <2>2. q[p] # null
      BY <1>2 DEF null
    <2> QED
      <3>1. CASE k + 1 = n + 1
        BY <1>2, <1>9, <2>2, <3>1 DEF NodeAt
      <3>2. CASE k + 1 # n + 1
        <4>1. next = q[k + 1]
          BY <1>9, <3>2 DEF NodeAt
        <4> QED
          BY <1>1, <2>1, <3>2, <4>1, OneToOne
      <3> QED
        BY <3>1, <3>2
  <1>11. e \notin DOMAIN s.at
    <2> SUFFICES ASSUME NEW p \in 0..n, q[p] = e PROVE FALSE
      BY <1>1
    <2>1. p \in 1..n
      BY <1>2
    <2>2. Before(e, e)
      BY <1>2, <2>1 DEF Splits
    <2> QED
      BY <2>2, BeforeOrders
  <1>12. Ordered(q2, n + 1) /\ {q2[p] : p \in 0..n + 1} = DOMAIN s.at \cup {e}
    <2>1. Ordered(q, n)
      BY <1>1
    <2>2. Ordered(q2, n + 1) /\ All(q2, n + 1) = All(q, n) \cup {e}
      BY <2>1, OrderedPut DEF q2
    <2> QED
      BY <1>1, <2>2 DEF All
  <1>13. s.at = [x \in DOMAIN s.at |-> s.at[x]]
    BY DEF Shape, Lists
  <1>14. ASSUME NEW p \in 0..n
         PROVE  at2[q[p]] = NodeLinked(s.at[q[p]], u, s.level, k, h, e, p)
    <2>1. q[p] \in DOMAIN s.at /\ q[p] # e
      BY <1>1, <1>11
    <2>2. at2[q[p]] = Linked(q[p], s.at[q[p]])
      BY <2>1 DEF at2
    <2>3. DOMAIN s.at[q[p]].forward = 1..hi[p] /\ DOMAIN s.at[q[p]].span = 1..hi[p]
          /\ \A i \in 1..hi[p] : i \in 1..M
      <3>1. hi[p] \in 1..M /\ NodeIs(s.at[q[p]], s.level, q, hi, n, p)
        BY <1>1, <1>2
      <3> QED
        BY <1>2, <3>1 DEF NodeIs
    <2> DEFINE o == s.at[q[p]]
    <2> HIDE DEF o
    <2>4. Linked(q[p], o).forward = NodeLinked(o, u, s.level, k, h, e, p).forward
      BY <1>7, <2>3 DEF Linked, NodeLinked, o
    <2>5. Linked(q[p], o).span = NodeLinked(o, u, s.level, k, h, e, p).span
      BY <1>7, <1>8, <2>3 DEF Linked, NodeLinked, o
    <2>6. Linked(q[p], o).backward = NodeLinked(o, u, s.level, k, h, e, p).backward
      BY <1>10 DEF Linked, NodeLinked
    <2>7. Linked(q[p], o) = NodeLinked(o, u, s.level, k, h, e, p)
      BY <2>4, <2>5, <2>6 DEF Linked, NodeLinked
    <2> QED
      BY <2>2, <2>7 DEF o
  <1>15. at2[e] = NewNode(forward, span, u, k, h, IF k = 0 THEN null ELSE q[k])
    <2>1. at2[e] = node
      BY DEF at2
    <2>2. update(1).node = header <=> k = 0
      <3>1. 0 \in 0..n /\ k \in 0..n
        BY <1>2
      <3> QED
        <4>1. Ordered(q, n) /\ (q[k] = q[0] <=> k = 0)
          BY <1>1, <3>1, OneToOne
        <4> QED
          BY <1>2, <1>6, <4>1
    <2>3. \A i \in 1..h : i \in 1..M
      BY <1>2
    <2>4. [i \in 1..h |-> SpanOf(s, update(i).node, i) - skipped(i)]
            = [i \in 1..h |-> span[i] - (k - u[i])]
      BY <1>8, <2>3 DEF span
    <2>5. \A x, y, z : slCreateNode(h, x, y, z) =
            [forward |-> [i \in 1..h |-> x[i]], span |-> [i \in 1..h |-> y[i]], backward |-> z]
      BY DEF slCreateNode
    <2> DEFINE skip == [i \in 1..h |-> span[i] - (k - u[i])]
    <2>6. skip = [i \in 1..h |-> skip[i]]
      OBVIOUS
    <2>7. node = slCreateNode(h, forward, skip, IF k = 0 THEN null ELSE q[k])
      BY <1>6, <2>2, <2>4 DEF node
    <2>8. node = [forward |-> [i \in 1..h |-> forward[i]], span |-> [i \in 1..h |-> skip[i]],
                  backward |-> IF k = 0 THEN null ELSE q[k]]
      BY <2>5, <2>7
    <2> QED
      BY <2>1, <2>6, <2>8 DEF NewNode
  <1>16. ASSUME NEW i \in 1..h
         PROVE  \E r \in 1..n + 1 : /\ Leads(hi, n, u[i], i, r)
                                    /\ forward[i] = NodeAt(q, n, r)
                                    /\ span[i] = Upto(n, r) - u[i]
    <2>1. i \in 1..M /\ u[i] \in 0..n /\ update(i).node = q[u[i]] /\ LastAt(hi, k, i, u[i])
          /\ i \in Nat
      BY <1>2, <1>5, <1>7
    <2>2. forward[i] = s.at[q[u[i]]].forward[i] /\ span[i] = SpanOf(s, q[u[i]], i)
      BY <2>1 DEF forward, span
    <2>3. i \in 1..hi[u[i]]
      BY <1>2, <2>1 DEF LastAt
    <2>4. NodeIs(s.at[q[u[i]]], s.level, q, hi, n, u[i])
      BY <1>1, <2>1
    <2>5. CASE i <= s.level
      BY <2>2, <2>3, <2>4, <2>5 DEF NodeIs, SpanOf
    <2>6. CASE ~ (i <= s.level)
      <3> HIDE DEF forward, span
      <3>a. n \in Nat /\ s.level \in Nat
        BY <1>2
      <3>c. \A t \in 0..n : hi[t] \in Nat
        <4>1. hi \in [0..n -> 1..M] /\ M \in Nat
          BY <1>2
        <4>2. \A t \in 0..n : hi[t] \in 1..M
          BY <4>1
        <4> QED
          BY <4>1, <4>2
      <3>b. \A t \in 1..n : hi[t] < i
        <4>1. \A t \in 1..n : hi[t] \in Nat /\ hi[t] <= s.level
          BY <1>2
        <4> QED
          BY <2>1, <2>6, <3>a, <4>1
      <3>1. u[i] = 0
        <4>1. hi[u[i]] >= i
          BY <2>1 DEF LastAt
        <4>2. u[i] # 0 => u[i] \in 1..n
          BY <2>1, <3>a
        <4>3. hi[u[i]] \in Nat
          BY <2>1, <3>c
        <4> QED
          BY <2>1, <3>b, <4>1, <4>2, <4>3
      <3>2. Leads(hi, n, 0, i, n + 1)
        <4>1. n + 1 \in 0 + 1..n + 1 /\ ~ (n + 1 <= n) /\ \A t \in 0 + 1..(n + 1) - 1 : t \in 1..n
          BY <3>a
        <4> QED
          BY <3>b, <4>1 DEF Leads
      <3>3. forward[i] = null
        <4>1. i > s.level
          BY <2>1, <2>6, <3>a
        <4>2. s.at[q[u[i]]].forward[i] = null
          BY <2>3, <2>4, <4>1 DEF NodeIs
        <4> QED
          BY <2>2, <4>2
      <3>4. span[i] = n /\ n + 1 \in 1..n + 1 /\ n - 0 = n
        <4>1. n + 1 \in 1..n + 1 /\ n - 0 = n
          BY <3>a
        <4>2. SpanOf(s, q[u[i]], i) = s.length
          BY <2>6 DEF SpanOf
        <4> QED
          BY <1>1, <2>2, <4>1, <4>2
      <3> QED
        BY <3>1, <3>2, <3>3, <3>4 DEF NodeAt, Upto
    <2> QED
      BY <2>5, <2>6
  <1>17. ASSUME NEW p \in 0..n
         PROVE  NodeIs(at2[q[p]], Highest(s.level, h), q2, hi2, n + 1, IF p <= k THEN p ELSE p + 1)
    BY <1>1, <1>5, <1>14, <1>17, InsertOld DEF q2, hi2
  <1>18. NodeIs(at2[e], Highest(s.level, h), q2, hi2, n + 1, k + 1)
    <2>1. Ordered(q, n) /\ Heights(hi, n, s.level) /\ s.level \in 1..M
          /\ \A i \in 1..M : LastAt(hi, k, i, u[i])
      BY <1>1, <1>5
    <2>2. NodeIs(NewNode(forward, span, u, k, h, IF k = 0 THEN null ELSE q[k]),
                 Highest(s.level, h), q2, hi2, n + 1, k + 1)
      BY <1>16, <2>1, InsertNew DEF q2, hi2
    <2> QED
      BY <1>15, <2>2
  <1>19. /\ \A p \in 0..n + 1 : q2[p] = IF p <= k THEN q[p] ELSE IF p = k + 1 THEN e ELSE q[p - 1]
         /\ \A p \in 0..n + 1 : hi2[p] = IF p <= k THEN hi[p] ELSE IF p = k + 1 THEN h ELSE hi[p - 1]
    BY DEF PutAt, q2, hi2
  <1>20. ASSUME NEW p \in 0..n + 1 PROVE NodeIs(at2[q2[p]], Highest(s.level, h), q2, hi2, n + 1, p)
    <2>1. CASE p <= k
      <3>1. p \in 0..n /\ q2[p] = q[p]
        BY <1>2, <1>19, <2>1
      <3> QED
        BY <1>17, <2>1, <3>1
    <2>2. CASE p = k + 1
      <3>1. q2[p] = e
        BY <1>2, <1>19, <2>2
      <3> QED
        BY <1>18, <2>2, <3>1
    <2>3. CASE p > k + 1
      <3>1. p - 1 \in 0..n /\ q2[p] = q[p - 1] /\ ~ (p - 1 <= k) /\ (p - 1) + 1 = p
        BY <1>2, <1>19, <2>3
      <3> QED
        BY <1>17, <3>1
    <2> QED
      BY <1>2, <2>1, <2>2, <2>3
  <1>21. Heights(hi2, n + 1, Highest(s.level, h)) /\ Highest(s.level, h) \in 1..M
    <2>1. \A p \in 1..n : hi[p] <= Highest(s.level, h) /\ hi[p] \in Nat
      <3>1. h \in Nat /\ s.level \in Nat /\ \A p \in 1..n : hi[p] <= s.level /\ hi[p] \in Nat
        BY <1>2
      <3>2. s.level <= Highest(s.level, h) /\ Highest(s.level, h) \in Nat
        BY <3>1 DEF Highest
      <3> QED
        BY <3>1, <3>2
    <2>2. h <= Highest(s.level, h) /\ Highest(s.level, h) \in 1..M
      BY <1>1, <1>2 DEF Highest
    <2>3. ASSUME NEW p \in 0..n + 1
          PROVE  hi2[p] \in 1..M /\ (p > 0 => hi2[p] <= Highest(s.level, h)) /\ (p = 0 => hi2[p] = M)
      <3>1. CASE p <= k
        <4>1. p \in 0..n /\ hi2[p] = hi[p]
          BY <1>2, <1>19, <3>1
        <4> QED
          BY <1>2, <2>1, <4>1
      <3>2. CASE p = k + 1
        <4>1. hi2[p] = h /\ p # 0
          BY <1>2, <1>19, <3>2
        <4> QED
          BY <2>2, <4>1
      <3>3. CASE p > k + 1
        <4>1. p - 1 \in 1..n /\ hi2[p] = hi[p - 1] /\ p # 0
          BY <1>2, <1>19, <3>3
        <4> QED
          BY <1>2, <2>1, <4>1
      <3> QED
        BY <1>2, <3>1, <3>2, <3>3
    <2>4. hi2 \in [0..n + 1 -> 1..M]
      BY <2>3 DEF hi2, PutAt
    <2>5. hi2[0] = M /\ \A p \in 1..n + 1 : hi2[p] <= Highest(s.level, h)
      <3>1. 0 \in 0..n + 1 /\ \A p \in 1..n + 1 : p \in 0..n + 1 /\ p > 0
        BY <1>2
      <3> QED
        BY <2>3, <3>1
    <2> QED
      BY <2>2, <2>4, <2>5 DEF Heights
  <1>22. DOMAIN at2 = {q2[p] : p \in 0..n + 1} /\ at2 \in [DOMAIN at2 -> ListNodes]
         /\ DOMAIN at2 \in SUBSET (0..N)
    <2>1. DOMAIN at2 = {q2[p] : p \in 0..n + 1} /\ at2 = [x \in DOMAIN at2 |-> at2[x]]
      BY <1>12 DEF at2
    <2>2. \A x \in DOMAIN at2 : at2[x] \in ListNodes
      BY <1>20, <2>1 DEF NodeIs
    <2>3. DOMAIN at2 \in SUBSET (0..N)
      BY <1>12, <2>1 DEF Ordered
    <2> QED
      BY <2>1, <2>2, <2>3
  <1>23. t2.tail = q2[n + 1] /\ q2[n + 1] \in Int /\ n + 1 # 0
    <2>1. n + 1 \in 0..n + 1 /\ (n + 1) - 1 = n /\ ~ (n + 1 <= k)
      BY <1>2
    <2>2. CASE k = n
      <3>1. next = null
        BY <1>9, <2>2 DEF NodeAt
      <3> QED
        BY <1>2, <1>3, <1>19, <2>1, <2>2, <3>1
    <2>3. CASE k # n
      <3>1. next # null
        <4>1. k + 1 \in 1..n /\ k + 1 # n + 1
          BY <1>2, <2>3
        <4> QED
          BY <1>1, <1>9, <4>1, OneToOne DEF NodeAt
      <3>2. n \in 0..n /\ n # 0 /\ n + 1 # k + 1
        BY <1>2, <2>3
      <3> QED
        BY <1>1, <1>2, <1>3, <1>19, <2>1, <3>1, <3>2
    <2> QED
      BY <2>2, <2>3
  <1>24. t2 \in Lists
    <2>1. t2.tail \in Int /\ n + 1 \in Nat
      BY <1>2, <1>23
    <2>2. at2 \in UNION {[S -> ListNodes] : S \in SUBSET (0..N)}
      BY <1>22
    <2> QED
      BY <1>3, <1>21, <2>1, <2>2 DEF Lists
  <1>25. Shape(t2, q2, hi2, n + 1)
    BY <1>3, <1>12, <1>20, <1>21, <1>22, <1>23, <1>24 DEF Shape, All
  <1>26. DOMAIN t2.at = DOMAIN s.at \cup {e}
    BY <1>3, <1>12, <1>22
  <1> QED
    BY <1>25, <1>26 DEF t2, q2, hi2

-----------------------------------------------------------------------------
(* slDeleteNode.  One object less in the order.                            *)
LEMMA OrderedOut ==
  ASSUME ListAssumption, NEW q, NEW n, Ordered(q, n), NEW d \in 1..n
  PROVE  /\ Ordered(TakenOut(q, n, d), n - 1)
         /\ All(TakenOut(q, n, d), n - 1) = All(q, n) \ {q[d]}
  <1> DEFINE r == TakenOut(q, n, d)
  <1>1. /\ n \in Nat /\ d \in Nat /\ n - 1 \in Nat /\ q \in [0..n -> 0..N] /\ q[0] = header
        /\ \A p \in 1..n : q[p] \in Listable
        /\ \A a, b \in 1..n : a < b => Before(q[a], q[b])
    BY DEF Ordered
  <1>2. \A p \in 0..n - 1 : r[p] = IF p < d THEN q[p] ELSE q[p + 1]
    BY DEF TakenOut
  <1>3. r \in [0..n - 1 -> 0..N]
    <2>1. \A p \in 0..n - 1 : r[p] \in 0..N
      BY <1>1, <1>2
    <2> QED
      BY <2>1 DEF TakenOut
  <1> HIDE DEF r
  <1>4. r[0] = header
    BY <1>1, <1>2
  <1>5. ASSUME NEW p \in 1..n - 1 PROVE r[p] \in Listable
    BY <1>1, <1>2
  <1>6. ASSUME NEW a \in 1..n - 1, NEW b \in 1..n - 1, a < b PROVE Before(r[a], r[b])
    <2>1. /\ a < d => r[a] = q[a]
          /\ ~ (a < d) => r[a] = q[a + 1]
          /\ b < d => r[b] = q[b]
          /\ ~ (b < d) => r[b] = q[b + 1]
          /\ a \in 1..n /\ b \in 1..n /\ a + 1 \in 1..n /\ b + 1 \in 1..n
          /\ a < b + 1 /\ a + 1 < b + 1 /\ (~ (a < d) => ~ (b < d))
      BY <1>1, <1>2, <1>6
    <2> QED
      BY <1>1, <1>6, <2>1
  <1>7. All(r, n - 1) = All(q, n) \ {q[d]}
    <2>1. ASSUME NEW p \in 0..n - 1 PROVE \E t \in 0..n : r[p] = q[t] /\ q[t] # q[d]
      <3>1. CASE p < d
        <4>1. p \in 0..n /\ d \in 0..n /\ p # d /\ r[p] = q[p]
          BY <1>1, <1>2, <3>1
        <4> QED
          BY <4>1, OneToOne
      <3>2. CASE ~ (p < d)
        <4>1. p + 1 \in 0..n /\ d \in 0..n /\ p + 1 # d /\ r[p] = q[p + 1]
          BY <1>1, <1>2, <3>2
        <4> QED
          BY <4>1, OneToOne
      <3> QED
        BY <3>1, <3>2
    <2>2. ASSUME NEW t \in 0..n, q[t] # q[d] PROVE \E p \in 0..n - 1 : q[t] = r[p]
      <3>1. t # d
        BY <2>2
      <3>2. CASE t < d
        <4>1. t \in 0..n - 1 /\ r[t] = q[t]
          BY <1>1, <1>2, <3>2
        <4> QED
          BY <4>1
      <3>3. CASE t > d
        <4>1. t - 1 \in 0..n - 1 /\ r[t - 1] = q[t]
          <5>1. t - 1 \in 0..n - 1 /\ ~ (t - 1 < d) /\ (t - 1) + 1 = t
            BY <1>1, <3>3
          <5> QED
            BY <1>2, <5>1
        <4> QED
          BY <4>1
      <3> QED
        BY <1>1, <3>1, <3>2, <3>3
    <2> QED
      BY <2>1, <2>2 DEF All
  <1> QED
    BY <1>1, <1>3, <1>4, <1>5, <1>6, <1>7 DEF Ordered, r

(* What a link leads to when a node has been taken out of the list.        *)
LEMMA LeadsOut ==
  ASSUME ListAssumption, NEW n \in Nat, NEW hi \in [0..n -> Nat], NEW d \in 1..n,
         NEW p \in 0..n, p # d, NEW i \in Nat, NEW r \in 1..n + 1, Leads(hi, n, p, i, r)
  PROVE  LET hi2 == TakenOut(hi, n, d) IN
         /\ p < d /\ r < d => Leads(hi2, n - 1, p, i, r)
         /\ p < d /\ r > d => Leads(hi2, n - 1, p, i, r - 1)
         /\ p < d /\ r = d => \A r2 \in 1..n + 1 : Leads(hi, n, d, i, r2) => Leads(hi2, n - 1, p, i, r2 - 1)
         /\ p > d => Leads(hi2, n - 1, p - 1, i, r - 1)
  <1> DEFINE hi2 == TakenOut(hi, n, d)
  <1>1. \A t \in 0..n - 1 : /\ t < d => hi2[t] = hi[t]
                            /\ t >= d => hi2[t] = hi[t + 1]
    BY DEF TakenOut
  <1>2. r \in p + 1..n + 1 /\ (r <= n => hi[r] >= i) /\ \A t \in p + 1..r - 1 : hi[t] < i
    BY DEF Leads
  <1> HIDE DEF hi2
  <1>3. p < d /\ r < d => Leads(hi2, n - 1, p, i, r)
    BY <1>1, <1>2 DEF Leads
  <1>4. ASSUME p < d, r > d PROVE Leads(hi2, n - 1, p, i, r - 1)
    <2>1. r - 1 \in p + 1..(n - 1) + 1 /\ (r - 1 <= n - 1 => hi2[r - 1] = hi[r])
      <3>1. r - 1 \in p + 1..(n - 1) + 1 /\ (r - 1) + 1 = r
        BY <1>2, <1>4
      <3>2. r - 1 <= n - 1 => r - 1 \in 0..n - 1 /\ r - 1 >= d
        BY <1>2, <1>4
      <3> QED
        BY <1>1, <3>1, <3>2
    <2>2. ASSUME NEW t \in p + 1..(r - 1) - 1 PROVE hi2[t] < i
      <3>1. t \in 0..n - 1 /\ t \in p + 1..r - 1 /\ t + 1 \in p + 1..r - 1
        BY <1>2
      <3> QED
        BY <1>1, <1>2, <3>1
    <2> QED
      BY <1>2, <2>1, <2>2 DEF Leads
  <1>5. ASSUME p < d, r = d, NEW r2 \in 1..n + 1, Leads(hi, n, d, i, r2)
        PROVE  Leads(hi2, n - 1, p, i, r2 - 1)
    <2>1. r2 \in d + 1..n + 1 /\ (r2 <= n => hi[r2] >= i) /\ \A t \in d + 1..r2 - 1 : hi[t] < i
      BY <1>5 DEF Leads
    <2>2. r2 - 1 \in p + 1..(n - 1) + 1 /\ (r2 - 1 <= n - 1 => hi2[r2 - 1] = hi[r2])
      <3>1. r2 - 1 \in p + 1..(n - 1) + 1 /\ (r2 - 1) + 1 = r2
        BY <1>5, <2>1
      <3>2. r2 - 1 <= n - 1 => r2 - 1 \in 0..n - 1 /\ r2 - 1 >= d
        BY <2>1
      <3> QED
        BY <1>1, <3>1, <3>2
    <2>3. ASSUME NEW t \in p + 1..(r2 - 1) - 1 PROVE hi2[t] < i
      <3>1. CASE t < d
        <4>1. t \in 0..n - 1 /\ t \in p + 1..r - 1
          BY <1>5, <2>1, <3>1
        <4> QED
          BY <1>1, <1>2, <3>1, <4>1
      <3>2. CASE t >= d
        <4>1. t \in 0..n - 1 /\ t + 1 \in d + 1..r2 - 1
          BY <2>1, <3>2
        <4> QED
          BY <1>1, <2>1, <3>2, <4>1
      <3> QED
        BY <3>1, <3>2
    <2> QED
      BY <2>1, <2>2, <2>3 DEF Leads
  <1>6. ASSUME p > d PROVE Leads(hi2, n - 1, p - 1, i, r - 1)
    <2>1. r - 1 \in (p - 1) + 1..(n - 1) + 1 /\ (r - 1 <= n - 1 => hi2[r - 1] = hi[r])
      <3>1. r - 1 \in (p - 1) + 1..(n - 1) + 1 /\ (r - 1) + 1 = r
        BY <1>2, <1>6
      <3>2. r - 1 <= n - 1 => r - 1 \in 0..n - 1 /\ r - 1 >= d
        BY <1>2, <1>6
      <3> QED
        BY <1>1, <3>1, <3>2
    <2>2. ASSUME NEW t \in (p - 1) + 1..(r - 1) - 1 PROVE hi2[t] < i
      <3>1. t \in 0..n - 1 /\ t >= d /\ t + 1 \in p + 1..r - 1
        BY <1>2, <1>6
      <3> QED
        BY <1>1, <1>2, <3>1
    <2> QED
      BY <1>2, <2>1, <2>2 DEF Leads
  <1> QED
    BY <1>3, <1>4, <1>5, <1>6 DEF hi2

(* The nodes that stay, after the one at d was unlinked from the last of   *)
(* those before it on each level, u[i].                                    *)
NodeUnlinked(o, gone, x, u, level, d, p) ==
  [forward |-> [i \in DOMAIN o.forward |-> IF i <= level /\ u[i] = p /\ o.forward[i] = x
                                           THEN gone.forward[i] ELSE o.forward[i]],
   span |-> [i \in DOMAIN o.span |-> IF i > level \/ u[i] # p THEN o.span[i]
                                     ELSE IF o.forward[i] = x THEN o.span[i] + gone.span[i] - 1
                                     ELSE o.span[i] - 1],
   backward |-> IF p = d + 1 THEN gone.backward ELSE o.backward]

(* The links and spans of the nodes that stay, after a deletion.           *)
LEMMA DeleteOld ==
  ASSUME ListAssumption, NEW q, NEW hi, NEW n, NEW level \in 1..SKIPLIST_MAXLEVEL, Ordered(q, n),
         Heights(hi, n, level), NEW d \in 1..n,
         NEW u, \A i \in 1..level : LastAt(hi, d - 1, i, u[i]),
         NEW gone, NodeIs(gone, level, q, hi, n, d),
         NEW p \in 0..n, p # d, NEW o, NodeIs(o, level, q, hi, n, p), NEW node,
         node = NodeUnlinked(o, gone, q[d], u, level, d, p)
  PROVE  NodeIs(node, level, TakenOut(q, n, d), TakenOut(hi, n, d), n - 1,
                IF p < d THEN p ELSE p - 1)
  <1> DEFINE q2 == TakenOut(q, n, d)
             hi2 == TakenOut(hi, n, d)
             p2 == IF p < d THEN p ELSE p - 1
             M == SKIPLIST_MAXLEVEL
  <1>1. /\ n \in Nat /\ d \in Nat /\ M \in Nat /\ q \in [0..n -> 0..N] /\ hi \in [0..n -> 1..M]
        /\ hi[0] = M /\ p \in Nat /\ N \in Nat /\ level \in Nat /\ n - 1 \in Nat
        /\ \A t \in 1..n : hi[t] <= level
    <2>1. n \in Nat /\ q \in [0..n -> 0..N] /\ N \in Nat /\ M \in Nat
      BY DEF Ordered, ListAssumption
    <2>2. hi \in [0..n -> 1..M] /\ hi[0] = M /\ \A t \in 1..n : hi[t] <= level
      BY DEF Heights
    <2>3. p \in Nat /\ d \in Nat /\ level \in Nat /\ n - 1 \in Nat
      BY <2>1
    <2> QED
      BY <2>1, <2>2, <2>3
  <1>2. /\ \A t \in 0..n - 1 : q2[t] = IF t < d THEN q[t] ELSE q[t + 1]
        /\ \A t \in 0..n - 1 : hi2[t] = IF t < d THEN hi[t] ELSE hi[t + 1]
    BY DEF TakenOut
  <1>a. /\ n \in Nat /\ d \in Nat /\ p \in Nat /\ 1 <= d /\ d <= n /\ p <= n
        /\ (p > d \/ p < d)
    BY <1>1
  <1>b. (p < d => p2 = p) /\ (p > d => p2 = p - 1)
    BY <1>a
  <1> HIDE DEF p2
  <1>3. p2 \in 0..n - 1 /\ p2 \in Nat /\ hi2[p2] = hi[p] /\ (p > d => (p - 1) + 1 = p)
    <2>1. p2 \in 0..n - 1 /\ p2 \in Nat /\ (p > d => (p - 1) + 1 = p /\ ~ (p - 1 < d))
      BY <1>a, <1>b
    <2> QED
      BY <1>2, <1>a, <1>b, <2>1
  <1>4. /\ DOMAIN o.forward = 1..hi[p] /\ DOMAIN o.span = 1..hi[p]
        /\ o \in ListNodes
        /\ o.backward = IF p <= 1 THEN null ELSE q[p - 1]
        /\ \A i \in 1..hi[p] : i <= level =>
             \E r \in 1..n + 1 : /\ Leads(hi, n, p, i, r)
                                 /\ o.forward[i] = NodeAt(q, n, r)
                                 /\ o.span[i] = Upto(n, r) - p
        /\ \A i \in 1..hi[p] : i > level => o.forward[i] = null
    BY DEF NodeIs
  <1>5. /\ DOMAIN gone.forward = 1..hi[d] /\ DOMAIN gone.span = 1..hi[d]
        /\ gone \in ListNodes
        /\ gone.backward = IF d <= 1 THEN null ELSE q[d - 1]
        /\ \A i \in 1..hi[d] : i <= level =>
             \E r \in 1..n + 1 : /\ Leads(hi, n, d, i, r)
                                 /\ gone.forward[i] = NodeAt(q, n, r)
                                 /\ gone.span[i] = Upto(n, r) - d
    BY DEF NodeIs
  <1>6. /\ o.forward \in [1..hi[p] -> Int] /\ o.span \in [1..hi[p] -> Int] /\ o.backward \in Int
        /\ gone.backward \in Int /\ hi[p] \in 1..M /\ hi[d] \in Nat
    <2>1. hi[p] \in 1..M /\ hi[d] \in Nat
      BY <1>1
    <2> QED
      BY <1>4, <1>5, <2>1 DEF ListNodes, Links
  <1>7. /\ DOMAIN node.forward = 1..hi[p] /\ DOMAIN node.span = 1..hi[p]
        /\ node.backward = IF p = d + 1 THEN gone.backward ELSE o.backward
        /\ \A i \in 1..hi[p] :
             /\ node.forward[i] = IF i <= level /\ u[i] = p /\ o.forward[i] = q[d]
                                  THEN gone.forward[i] ELSE o.forward[i]
             /\ node.span[i] = IF i > level \/ u[i] # p THEN o.span[i]
                               ELSE IF o.forward[i] = q[d] THEN o.span[i] + gone.span[i] - 1
                               ELSE o.span[i] - 1
        /\ node.forward = [i \in 1..hi[p] |-> node.forward[i]]
        /\ node.span = [i \in 1..hi[p] |-> node.span[i]]
        /\ node = [forward |-> node.forward, span |-> node.span, backward |-> node.backward]
    BY <1>4 DEF NodeUnlinked
  <1>8. node.backward = (IF p2 <= 1 THEN null ELSE q2[p2 - 1]) /\ node.backward \in Int
    <2> HIDE DEF q2
    <2>a. \A t \in 0..n - 1 : q2[t] = IF t < d THEN q[t] ELSE q[t + 1]
      BY <1>2
    <2>b. /\ node.backward = IF p = d + 1 THEN gone.backward ELSE o.backward
          /\ o.backward = IF p <= 1 THEN null ELSE q[p - 1]
          /\ gone.backward = IF d <= 1 THEN null ELSE q[d - 1]
          /\ o.backward \in Int /\ gone.backward \in Int
      BY <1>4, <1>5, <1>6, <1>7
    <2>1. CASE p < d
      <3>1. p2 = p /\ p # d + 1 /\ (~ (p <= 1) => p - 1 \in 0..n - 1 /\ p - 1 < d)
        BY <1>a, <1>b, <2>1
      <3>2. ~ (p <= 1) => q2[p - 1] = q[p - 1]
        BY <2>a, <3>1
      <3> QED
        BY <2>b, <3>1, <3>2
    <2>2. CASE p = d + 1
      <3>1. p2 = d /\ (~ (d <= 1) => d - 1 \in 0..n - 1 /\ d - 1 < d)
        BY <1>a, <1>b, <2>2
      <3>2. ~ (d <= 1) => q2[d - 1] = q[d - 1]
        BY <2>a, <3>1
      <3> QED
        BY <2>b, <2>2, <3>1, <3>2
    <2>3. CASE p > d + 1
      <3>1. /\ p2 = p - 1 /\ ~ (p2 <= 1) /\ p2 - 1 \in 0..n - 1 /\ (p2 - 1) + 1 = p - 1
            /\ ~ (p2 - 1 < d) /\ ~ (p <= 1) /\ p # d + 1
        BY <1>a, <1>b, <2>3
      <3>2. q2[p2 - 1] = q[p - 1]
        BY <2>a, <3>1
      <3> QED
        BY <2>b, <3>1, <3>2
    <2> QED
      BY <1>a, <2>1, <2>2, <2>3
  <1>9. ASSUME NEW i \in 1..hi[p], i <= level
        PROVE  /\ node.forward[i] \in Int /\ node.span[i] \in Int
               /\ \E r \in 1..(n - 1) + 1 : /\ Leads(hi2, n - 1, p2, i, r)
                                            /\ node.forward[i] = NodeAt(q2, n - 1, r)
                                            /\ node.span[i] = Upto(n - 1, r) - p2
    <2>1. i \in 1..level /\ i \in Nat /\ LastAt(hi, d - 1, i, u[i]) /\ hi \in [0..n -> Nat]
      <3>1. i \in 1..level /\ i \in Nat
        BY <1>1, <1>6, <1>9
      <3>2. hi \in [0..n -> Nat]
        <4>1. hi \in [0..n -> 1..M] /\ M \in Nat
          BY <1>1
        <4> HIDE DEF M
        <4>2. \A x \in 1..M : x \in Nat
          BY <4>1
        <4> QED
          BY <4>1, <4>2
      <3> QED
        BY <3>1, <3>2
    <2>2. PICK r \in 1..n + 1 : /\ Leads(hi, n, p, i, r)
                                /\ o.forward[i] = NodeAt(q, n, r)
                                /\ o.span[i] = Upto(n, r) - p
      BY <1>4, <1>9
    <2>3. r \in Nat /\ p + 1 <= r /\ r <= n + 1
      BY <1>a, <2>2 DEF Leads
    <2>4. /\ p < d /\ r < d => Leads(hi2, n - 1, p, i, r)
          /\ p < d /\ r > d => Leads(hi2, n - 1, p, i, r - 1)
          /\ p < d /\ r = d => \A r2 \in 1..n + 1 :
                                 Leads(hi, n, d, i, r2) => Leads(hi2, n - 1, p, i, r2 - 1)
          /\ p > d => Leads(hi2, n - 1, p - 1, i, r - 1)
      BY <1>1, <2>1, <2>2, LeadsOut
    <2>5. u[i] \in 0..d - 1 /\ hi[u[i]] >= i /\ \A t \in u[i] + 1..d - 1 : hi[t] < i
      BY <2>1 DEF LastAt
    <2>6. u[i] \in 0..n /\ hi[u[i]] \in Nat /\ hi[p] \in Nat /\ u[i] \in Nat
      <3>1. u[i] \in 0..n /\ p \in 0..n
        BY <1>a, <2>5
      <3> QED
        BY <2>1, <3>1
    <2>7. p < d /\ r >= d => u[i] = p
      <3>1. p < d /\ u[i] < p => p \in u[i] + 1..d - 1
        BY <1>a, <2>6
      <3>2. p < u[i] /\ r >= d => u[i] \in p + 1..r - 1
        BY <1>a, <2>3, <2>5, <2>6
      <3>3. hi[p] >= i
        BY <1>6
      <3>4. p < d => ~ (u[i] < p)
        BY <2>1, <2>5, <2>6, <3>1, <3>3
      <3>5. r >= d => ~ (p < u[i])
        BY <2>1, <2>2, <2>5, <2>6, <3>2 DEF Leads
      <3> QED
        BY <1>a, <2>6, <3>4, <3>5
    <2>8. (p < d /\ r < d) \/ p > d => u[i] # p
      <3>1. p < d /\ r < d => r \in p + 1..d - 1 /\ r <= n /\ r \in 0..n
        BY <1>a, <2>3
      <3>2. r <= n => hi[r] >= i
        BY <2>2 DEF Leads
      <3>3. r \in 0..n => hi[r] \in Nat
        BY <2>1
      <3>4. p < d /\ r < d => u[i] # p
        BY <2>1, <2>5, <3>1, <3>2, <3>3
      <3> QED
        BY <1>a, <2>5, <2>6, <3>4
    <2>9. r = n + 1 => o.forward[i] # q[d]
      <3>1. q[d] # null
        BY OneToOne
      <3> QED
        BY <2>2, <3>1 DEF NodeAt
    <2>10. r # n + 1 => (o.forward[i] = q[d] <=> r = d)
      <3>1. r # n + 1 => r \in 0..n /\ d \in 0..n
        BY <1>a, <2>3
      <3> QED
        BY <2>2, <3>1, OneToOne DEF NodeAt
    <2>11. /\ node.forward[i] = IF u[i] = p /\ o.forward[i] = q[d]
                                THEN gone.forward[i] ELSE o.forward[i]
           /\ node.span[i] = IF u[i] # p THEN o.span[i]
                             ELSE IF o.forward[i] = q[d] THEN o.span[i] + gone.span[i] - 1
                             ELSE o.span[i] - 1
      <3>1. ~ (i > level)
        BY <1>1, <2>1
      <3> QED
        BY <1>7, <1>9, <3>1
    <2>12. \A x \in 1..n + 1 :
             /\ x < d => NodeAt(q2, n - 1, x) = NodeAt(q, n, x) /\ Upto(n - 1, x) = Upto(n, x)
             /\ x > d => /\ NodeAt(q2, n - 1, x - 1) = NodeAt(q, n, x)
                         /\ Upto(n - 1, x - 1) = Upto(n, x) - 1
             /\ Upto(n, x) \in Int /\ NodeAt(q, n, x) \in Int
      <3> SUFFICES ASSUME NEW x \in 1..n + 1
                   PROVE  /\ x < d => /\ NodeAt(q2, n - 1, x) = NodeAt(q, n, x)
                                      /\ Upto(n - 1, x) = Upto(n, x)
                          /\ x > d => /\ NodeAt(q2, n - 1, x - 1) = NodeAt(q, n, x)
                                      /\ Upto(n - 1, x - 1) = Upto(n, x) - 1
                          /\ Upto(n, x) \in Int /\ NodeAt(q, n, x) \in Int
        OBVIOUS
      <3>1. x < d => x \in 0..n - 1 /\ x # n + 1 /\ x # (n - 1) + 1
        BY <1>1
      <3>2. x > d => /\ (x - 1 = (n - 1) + 1 <=> x = n + 1)
                     /\ x # n + 1 => x - 1 \in 0..n - 1 /\ ~ (x - 1 < d) /\ (x - 1) + 1 = x
        BY <1>1
      <3>3. Upto(n, x) \in Int /\ NodeAt(q, n, x) \in Int
        BY <1>1 DEF Upto, NodeAt, null
      <3>4. x > d => Upto(n - 1, x - 1) = Upto(n, x) - 1
        BY <1>1, <3>2 DEF Upto
      <3> HIDE DEF q2
      <3> QED
        BY <1>2, <3>1, <3>2, <3>3, <3>4 DEF NodeAt, Upto
    <2> HIDE DEF hi2, q2
    <2>13. CASE p < d /\ r < d
      <3>1. r \in 1..(n - 1) + 1 /\ p2 = p /\ Upto(n, r) - p \in Int
        <4>1. Upto(n, r) \in Int
          BY <2>2, <2>12
        <4> QED
          BY <1>a, <1>b, <2>3, <2>13, <4>1
      <3>2. node.forward[i] = NodeAt(q2, n - 1, r) /\ node.span[i] = Upto(n - 1, r) - p2
        BY <2>2, <2>8, <2>11, <2>12, <2>13, <3>1
      <3>3. node.forward[i] \in Int /\ node.span[i] \in Int
        BY <2>2, <2>12, <2>13, <3>1, <3>2
      <3> QED
        BY <2>4, <2>13, <3>1, <3>2, <3>3
    <2>14. CASE p < d /\ r > d
      <3>1. r - 1 \in 1..(n - 1) + 1 /\ p2 = p
        BY <1>a, <1>b, <2>3, <2>14
      <3>2. u[i] = p /\ o.forward[i] # q[d]
        BY <1>a, <2>3, <2>7, <2>9, <2>10, <2>14
      <3>3. node.forward[i] = NodeAt(q2, n - 1, r - 1)
        BY <2>2, <2>11, <2>12, <2>14, <3>2
      <3>4. node.span[i] = (Upto(n, r) - p) - 1
        BY <2>2, <2>11, <3>2
      <3>5. node.span[i] = Upto(n - 1, r - 1) - p2 /\ node.span[i] \in Int
        <4>1. Upto(n - 1, r - 1) = Upto(n, r) - 1 /\ Upto(n, r) \in Int
          BY <2>12, <2>14
        <4> QED
          BY <1>a, <3>1, <3>4, <4>1
      <3>6. node.forward[i] \in Int
        BY <2>2, <2>12, <2>14, <3>3
      <3> QED
        BY <2>4, <2>14, <3>1, <3>3, <3>5, <3>6
    <2>15. CASE p < d /\ r = d
      <3>1. u[i] = p /\ o.forward[i] = q[d] /\ o.span[i] = d - p
        <4>1. r # n + 1 /\ r >= d
          BY <1>a, <2>15
        <4> QED
          BY <2>2, <2>7, <2>10, <2>15, <4>1 DEF Upto
      <3>2. i \in 1..hi[d]
        <4>1. r <= n /\ hi[d] >= i
          BY <1>a, <2>2, <2>15 DEF Leads
        <4> QED
          BY <1>6, <2>1, <4>1
      <3>3. PICK r2 \in 1..n + 1 : /\ Leads(hi, n, d, i, r2)
                                   /\ gone.forward[i] = NodeAt(q, n, r2)
                                   /\ gone.span[i] = Upto(n, r2) - d
        BY <1>5, <1>9, <3>2
      <3>4. r2 > d /\ r2 - 1 \in 1..(n - 1) + 1 /\ p2 = p
        BY <1>a, <1>b, <2>15, <3>3 DEF Leads
      <3>5. node.forward[i] = NodeAt(q2, n - 1, r2 - 1) /\ node.forward[i] \in Int
        BY <2>11, <2>12, <3>1, <3>3, <3>4
      <3>6. node.span[i] = (d - p) + (Upto(n, r2) - d) - 1
        BY <2>11, <3>1, <3>3
      <3>7. node.span[i] = Upto(n - 1, r2 - 1) - p2 /\ node.span[i] \in Int
        <4>1. Upto(n - 1, r2 - 1) = Upto(n, r2) - 1 /\ Upto(n, r2) \in Int
          BY <2>12, <3>4
        <4> QED
          BY <1>a, <3>4, <3>6, <4>1
      <3>8. Leads(hi2, n - 1, p2, i, r2 - 1)
        BY <2>4, <2>15, <3>3, <3>4
      <3> QED
        BY <3>4, <3>5, <3>7, <3>8
    <2>16. CASE p > d
      <3>1. r - 1 \in 1..(n - 1) + 1 /\ p2 = p - 1 /\ r > d /\ u[i] # p
        BY <1>a, <1>b, <2>3, <2>8, <2>16
      <3>2. node.forward[i] = NodeAt(q2, n - 1, r - 1) /\ node.forward[i] \in Int
        BY <2>2, <2>11, <2>12, <3>1
      <3>3. node.span[i] = Upto(n, r) - p
        BY <2>2, <2>11, <3>1
      <3>4. node.span[i] = Upto(n - 1, r - 1) - p2 /\ node.span[i] \in Int
        <4>1. Upto(n - 1, r - 1) = Upto(n, r) - 1 /\ Upto(n, r) \in Int
          BY <2>12, <3>1
        <4> QED
          BY <1>a, <1>b, <2>16, <3>1, <3>3, <4>1
      <3> QED
        BY <2>4, <2>16, <3>1, <3>2, <3>4
    <2> QED
      BY <1>a, <2>3, <2>13, <2>14, <2>15, <2>16
  <1>10. ASSUME NEW i \in 1..hi[p], i > level
         PROVE  node.forward[i] = null /\ node.forward[i] \in Int /\ node.span[i] \in Int
    <2>1. ~ (i <= level)
      BY <1>1, <1>6, <1>10
    <2>2. node.forward[i] = o.forward[i] /\ node.span[i] = o.span[i]
      BY <1>7, <1>10, <2>1
    <2> QED
      BY <1>4, <1>6, <1>10, <2>2
  <1>11. node \in ListNodes
    <2>1. \A i \in 1..hi[p] : i <= level \/ i > level
      BY <1>1, <1>6
    <2>2. node.forward \in [1..hi[p] -> Int]
      <3>1. \A i \in 1..hi[p] : node.forward[i] \in Int
        BY <1>9, <1>10, <2>1
      <3> QED
        BY <1>7, <3>1
    <2>3. node.span \in [1..hi[p] -> Int]
      <3>1. \A i \in 1..hi[p] : node.span[i] \in Int
        BY <1>9, <1>10, <2>1
      <3> QED
        BY <1>7, <3>1
    <2> QED
      BY <1>6, <1>7, <1>8, <2>2, <2>3 DEF ListNodes, Links
  <1> HIDE DEF q2, hi2
  <1>12. NodeIs(node, level, q2, hi2, n - 1, p2)
    BY <1>3, <1>7, <1>8, <1>9, <1>10, <1>11 DEF NodeIs
  <1> QED
    BY <1>12 DEF q2, hi2, p2

(* The node after one, on the lowest level.                                *)
LEMMA NextIs ==
  ASSUME ListAssumption, NEW s, NEW q, NEW hi, NEW n, Shape(s, q, hi, n), NEW p \in 0..n
  PROVE  s.at[q[p]].forward[1] = NodeAt(q, n, p + 1)
  <1>1. n \in Nat /\ hi \in [0..n -> 1..SKIPLIST_MAXLEVEL] /\ SKIPLIST_MAXLEVEL \in Nat /\ s.level \in Nat /\ 1 <= s.level
    BY DEF Shape, Ordered, Heights, ListAssumption, Lists
  <1>2. \A t \in 0..n : hi[t] >= 1 /\ hi[t] \in Nat
    BY <1>1
  <1>3. 1 \in 1..hi[p]
    BY <1>2
  <1>4. PICK r \in 1..n + 1 : Leads(hi, n, p, 1, r) /\ s.at[q[p]].forward[1] = NodeAt(q, n, r)
    BY <1>1, <1>3 DEF Shape, NodeIs
  <1>5. r = p + 1
    <2>1. r \in p + 1..n + 1 /\ \A t \in p + 1..r - 1 : hi[t] < 1
      BY <1>4 DEF Leads
    <2>2. r # p + 1 => p + 1 \in p + 1..r - 1 /\ p + 1 \in 0..n
      BY <1>1, <2>1
    <2>3. \A t \in 0..n : ~ (hi[t] < 1)
      BY <1>2
    <2> QED
      BY <2>1, <2>2, <2>3
  <1> QED
    BY <1>4, <1>5

(* The levels in use, and the highest of them.                             *)
Used(at, level) == {i \in 2..level : at[header].forward[i] # null} \cup {1}
TopOf(levels) == CHOOSE i \in levels : \A j \in levels : j <= i

(* The levels that are given up are empty.                                 *)
LEMMA LevelsGivenUp ==
  ASSUME ListAssumption, NEW q, NEW hi, NEW n, NEW at, NEW level \in 1..SKIPLIST_MAXLEVEL,
         Ordered(q, n), Heights(hi, n, level),
         \A p \in 0..n : NodeIs(at[q[p]], level, q, hi, n, p),
         NEW l, l = TopOf(Used(at, level))
  PROVE  /\ l \in 1..level /\ Heights(hi, n, l)
         /\ \A p \in 0..n : NodeIs(at[q[p]], l, q, hi, n, p)
  <1> DEFINE M == SKIPLIST_MAXLEVEL
             used == Used(at, level)
             down == {x \in 0..level : level - x \in used}
  <1>1. /\ n \in Nat /\ M \in Nat /\ level \in Nat /\ 1 <= level /\ level <= M
        /\ hi \in [0..n -> 1..M] /\ hi[0] = M
        /\ q[0] = header /\ \A p \in 1..n : hi[p] <= level
    BY DEF Ordered, Heights, ListAssumption
  <1>2. \A t \in 0..n : hi[t] \in Nat
    BY <1>1
  <1>3. used \subseteq 1..level /\ 1 \in used
    BY <1>1 DEF Used
  <1>4. \E i \in used : \A j \in used : j <= i
    <2> HIDE DEF used
    <2>1. level - 1 \in down /\ down \in SUBSET Nat
      BY <1>1, <1>3
    <2>2. PICK x \in down : \A y \in down : x <= y
      BY <2>1, LeastOf
    <2>3. level - x \in used
      BY <2>2
    <2>4. ASSUME NEW j \in used PROVE j <= level - x
      <3>1. j \in 1..level
        BY <1>3
      <3>2. level - j \in 0..level /\ level - (level - j) = j
        BY <1>1, <3>1
      <3>3. level - j \in down
        BY <3>2
      <3>4. x <= level - j /\ x \in Nat /\ j \in Nat
        BY <2>1, <2>2, <3>1, <3>3
      <3> QED
        BY <1>1, <3>4
    <2> QED
      BY <2>3, <2>4
  <1>5. l \in used /\ \A j \in used : j <= l
    <2> HIDE DEF used
    <2>1. l = TopOf(used)
      BY DEF used
    <2> QED
      BY <1>4, <2>1 DEF TopOf
  <1>6. l \in 1..level
    BY <1>3, <1>5
  <1>7. ASSUME NEW i \in 1..level, i > l PROVE at[header].forward[i] = null
    <2>1. i \in 2..level /\ ~ (i <= l)
      BY <1>1, <1>6, <1>7
    <2> QED
      BY <1>5, <2>1 DEF Used
  <1> HIDE DEF used
  <1>8. ASSUME NEW p \in 1..n PROVE hi[p] <= l
    <2> SUFFICES ASSUME ~ (hi[p] <= l) PROVE FALSE
      OBVIOUS
    <2>1. p \in 0..n /\ hi[p] \in Nat /\ hi[p] <= level /\ p \in Nat /\ 1 <= p
      BY <1>1, <1>2
    <2>2. hi[p] \in 1..level /\ hi[p] > l /\ hi[p] \in 1..M
      BY <1>1, <1>6, <2>1
    <2>3. at[header].forward[hi[p]] = null
      BY <1>7, <2>2
    <2>4. 0 \in 0..n /\ hi[p] \in 1..hi[0]
      BY <1>1, <2>2
    <2>5. PICK r \in 1..n + 1 : /\ Leads(hi, n, 0, hi[p], r)
                                /\ at[header].forward[hi[p]] = NodeAt(q, n, r)
      BY <1>1, <2>2, <2>4 DEF NodeIs
    <2>6. r \in 0 + 1..n + 1 /\ \A t \in 0 + 1..r - 1 : hi[t] < hi[p]
      BY <2>5 DEF Leads
    <2>7. p \notin 0 + 1..r - 1
      BY <2>1, <2>6
    <2>8. r \in 1..n
      BY <1>1, <2>1, <2>6, <2>7
    <2>9. at[header].forward[hi[p]] = q[r] /\ r \in 0..n
      BY <1>1, <2>5, <2>8 DEF NodeAt
    <2>10. q[r] # null
      BY <2>9, OneToOne
    <2> QED
      BY <2>3, <2>9, <2>10
  <1>9. Heights(hi, n, l)
    BY <1>1, <1>8 DEF Heights
  <1>10. ASSUME NEW p \in 0..n PROVE NodeIs(at[q[p]], l, q, hi, n, p)
    <2>1. NodeIs(at[q[p]], level, q, hi, n, p)
      OBVIOUS
    <2>2. l \in Nat /\ l <= level
      BY <1>1, <1>6
    <2>3. ASSUME NEW i \in 1..hi[p], i <= l PROVE i <= level
      BY <1>1, <1>2, <2>2, <2>3
    <2>4. ASSUME NEW i \in 1..hi[p], i > l PROVE at[q[p]].forward[i] = null
      <3>1. i \in Nat /\ hi[p] \in Nat /\ 1 <= i /\ i <= hi[p]
        BY <1>2
      <3>2. CASE i > level
        BY <2>1, <3>2 DEF NodeIs
      <3>3. CASE ~ (i > level)
        <4>1. i \in 1..level
          BY <1>1, <3>1, <3>3
        <4>2. p = 0
          <5>1. p \in 1..n => hi[p] <= l
            BY <1>8
          <5>2. ~ (p \in 1..n)
            BY <2>2, <2>4, <3>1, <5>1
          <5> QED
            BY <1>1, <5>2
        <4> QED
          BY <1>1, <1>7, <2>4, <4>1, <4>2
      <3> QED
        BY <3>2, <3>3
    <2> QED
      BY <2>1, <2>3, <2>4 DEF NodeIs
  <1> QED
    BY <1>6, <1>9, <1>10

(* slDeleteNode takes a node out, given the last nodes before it on each   *)
(* level.                                                                  *)
LEMMA DeleteIs ==
  ASSUME ListAssumption, NEW s, NEW q, NEW hi, NEW n, Shape(s, q, hi, n), NEW d \in 1..n,
         NEW u, NEW update,
         \A i \in 1..s.level : LastAt(hi, d - 1, i, u[i]) /\ update[i] = q[u[i]]
  PROVE  /\ Shape(slDeleteNode(s, q[d], update), TakenOut(q, n, d), TakenOut(hi, n, d), n - 1)
         /\ DOMAIN slDeleteNode(s, q[d], update).at = DOMAIN s.at \ {q[d]}
         /\ slDeleteNode(s, q[d], update).level \in 1..s.level
  <1> DEFINE q2 == TakenOut(q, n, d)
             hi2 == TakenOut(hi, n, d)
             M == SKIPLIST_MAXLEVEL
             x == q[d]
             gone == s.at[x]
             Unlinked(y, o) ==
               [forward |-> [i \in DOMAIN o.forward |->
                               IF i <= s.level /\ update[i] = y /\ o.forward[i] = x THEN gone.forward[i]
                               ELSE o.forward[i]],
                span |-> [i \in DOMAIN o.span |->
                            IF i > s.level \/ update[i] # y THEN o.span[i]
                            ELSE IF o.forward[i] = x THEN o.span[i] + gone.span[i] - 1
                            ELSE o.span[i] - 1],
                backward |-> IF y = gone.forward[1] THEN gone.backward ELSE o.backward]
             at == [y \in DOMAIN s.at \ {x} |-> Unlinked(y, s.at[y])]
             l == TopOf(Used(at, s.level))
             t2 == slDeleteNode(s, x, update)
  <1>1. /\ Ordered(q, n) /\ Heights(hi, n, s.level) /\ s.level \in 1..M /\ s.length = n
        /\ s.tail = (IF n = 0 THEN null ELSE q[n]) /\ DOMAIN s.at = All(q, n)
        /\ \A p \in 0..n : NodeIs(s.at[q[p]], s.level, q, hi, n, p)
    BY DEF Shape, Lists
  <1>2. /\ n \in Nat /\ d \in Nat /\ 1 <= d /\ d <= n /\ M \in Nat /\ N \in Nat /\ s.level \in Nat
        /\ 1 <= s.level /\ q \in [0..n -> 0..N] /\ hi \in [0..n -> 1..M]
        /\ q[0] = header /\ hi[0] = M /\ \A p \in 1..n : hi[p] <= s.level
    <2>1. n \in Nat /\ q \in [0..n -> 0..N] /\ N \in Nat /\ M \in Nat /\ q[0] = header
      BY <1>1 DEF Ordered, ListAssumption
    <2>2. hi \in [0..n -> 1..M] /\ hi[0] = M /\ \A p \in 1..n : hi[p] <= s.level
      BY <1>1 DEF Heights
    <2>3. d \in Nat /\ 1 <= d /\ d <= n
      BY <2>1
    <2>4. s.level \in Nat /\ 1 <= s.level
      BY <1>1, <2>1
    <2> QED
      BY <2>1, <2>2, <2>3, <2>4
  <1>3. t2 = [level |-> l, length |-> n - 1,
              tail |-> IF gone.forward[1] = null THEN gone.backward ELSE s.tail, at |-> at]
    BY <1>1 DEF slDeleteNode, TopOf, Used
  <1> HIDE DEF t2, l, at, q2, hi2
  <1>4. /\ Ordered(q2, n - 1) /\ All(q2, n - 1) = All(q, n) \ {x} /\ DOMAIN at = All(q2, n - 1)
    BY <1>1, OrderedOut DEF q2, at
  <1>5. \A p \in 0..n - 1 : /\ q2[p] = IF p < d THEN q[p] ELSE q[p + 1]
                            /\ hi2[p] = IF p < d THEN hi[p] ELSE hi[p + 1]
    BY DEF TakenOut, q2, hi2
  <1>6. Heights(hi2, n - 1, s.level)
    <2>1. hi2 \in [0..n - 1 -> 1..M]
      <3>1. hi2 = [p \in 0..n - 1 |-> hi2[p]]
        BY DEF hi2, TakenOut
      <3>2. \A p \in 0..n - 1 : p \in 0..n /\ p + 1 \in 0..n
        BY <1>2
      <3> QED
        BY <1>2, <1>5, <3>1, <3>2
    <2>2. hi2[0] = M
      BY <1>2, <1>5
    <2>3. ASSUME NEW p \in 1..n - 1 PROVE hi2[p] <= s.level
      <3>1. p \in 1..n /\ p + 1 \in 1..n /\ p \in 0..n - 1
        BY <1>2
      <3> QED
        BY <1>2, <1>5, <3>1
    <2> QED
      BY <2>1, <2>2, <2>3 DEF Heights
  <1>7. d \in 0..n /\ gone.forward[1] = NodeAt(q, n, d + 1) /\ gone.backward = (IF d <= 1 THEN null ELSE q[d - 1])
    <2>1. d \in 0..n
      BY <1>2
    <2>2. gone.forward[1] = NodeAt(q, n, d + 1)
      BY <2>1, NextIs
    <2> QED
      BY <1>1, <2>1, <2>2 DEF NodeIs
  <1>8. ASSUME NEW i \in 1..s.level, NEW p \in 0..n PROVE update[i] = q[p] <=> u[i] = p
    <2>1. update[i] = q[u[i]] /\ u[i] \in 0..d - 1
      BY DEF LastAt
    <2>2. u[i] \in 0..n
      BY <1>2, <2>1
    <2> QED
      BY <1>1, <2>1, <2>2, OneToOne
  <1>9. ASSUME NEW p \in 0..n PROVE q[p] = gone.forward[1] <=> p = d + 1
    <2>1. CASE d = n
      <3>1. gone.forward[1] = null /\ p # d + 1
        BY <1>2, <1>7, <2>1 DEF NodeAt
      <3>2. q[p] # null
        <4>1. p = 0 \/ p \in 1..n
          BY <1>2
        <4>2. p = 0 => q[p] # null
          BY <1>2 DEF header, null
        <4> QED
          BY <1>1, <4>1, <4>2, OneToOne
      <3> QED
        BY <3>1, <3>2
    <2>2. CASE d # n
      <3>1. d + 1 \in 0..n /\ gone.forward[1] = q[d + 1]
        BY <1>2, <1>7, <2>2 DEF NodeAt
      <3> QED
        BY <1>1, <3>1, OneToOne
    <2> QED
      BY <2>1, <2>2
  <1>10. ASSUME NEW p \in 0..n, p # d
         PROVE  /\ NodeIs(at[q[p]], s.level, q2, hi2, n - 1, IF p < d THEN p ELSE p - 1)
    <2>1. q[p] \in DOMAIN s.at \ {x}
      BY <1>1, <1>7, <1>10, OneToOne DEF All
    <2> DEFINE o == s.at[q[p]]
    <2>2. at[q[p]] = Unlinked(q[p], o)
      BY <2>1 DEF at
    <2>3. NodeIs(o, s.level, q, hi, n, p) /\ NodeIs(gone, s.level, q, hi, n, d)
      BY <1>1, <1>7
    <2>4. DOMAIN o.forward = 1..hi[p] /\ DOMAIN o.span = 1..hi[p] /\ hi[p] \in Nat
      BY <1>2, <2>3 DEF NodeIs
    <2> HIDE DEF o, gone, x
    <2>5. ASSUME NEW i \in 1..hi[p] PROVE i <= s.level => (update[i] = q[p] <=> u[i] = p)
      <3>1. i <= s.level => i \in 1..s.level
        BY <1>2, <2>4
      <3> QED
        BY <1>8, <3>1
    <2>6. ASSUME NEW i \in 1..hi[p] PROVE ~ (i > s.level) <=> i <= s.level
      <3>1. i \in Int /\ s.level \in Int
        BY <1>2, <2>4
      <3> QED
        BY <3>1
    <2>7. [i \in DOMAIN o.forward |->
              IF i <= s.level /\ update[i] = q[p] /\ o.forward[i] = x THEN gone.forward[i]
              ELSE o.forward[i]]
          = [i \in DOMAIN o.forward |->
              IF i <= s.level /\ u[i] = p /\ o.forward[i] = x THEN gone.forward[i]
              ELSE o.forward[i]]
      BY <2>4, <2>5
    <2>8. [i \in DOMAIN o.span |->
              IF i > s.level \/ update[i] # q[p] THEN o.span[i]
              ELSE IF o.forward[i] = x THEN o.span[i] + gone.span[i] - 1
              ELSE o.span[i] - 1]
          = [i \in DOMAIN o.span |->
              IF i > s.level \/ u[i] # p THEN o.span[i]
              ELSE IF o.forward[i] = x THEN o.span[i] + gone.span[i] - 1
              ELSE o.span[i] - 1]
      <3>1. \A i \in DOMAIN o.span : i > s.level \/ update[i] # q[p] <=> i > s.level \/ u[i] # p
        BY <2>4, <2>5, <2>6
      <3> QED
        BY <3>1, Zenon
    <2>9. at[q[p]] = NodeUnlinked(o, gone, x, u, s.level, d, p)
      BY <1>9, <2>2, <2>7, <2>8 DEF NodeUnlinked
    <2>10. NodeIs(at[q[p]], s.level, TakenOut(q, n, d), TakenOut(hi, n, d), n - 1, IF p < d THEN p ELSE p - 1)
      <3>1. \A i \in 1..s.level : LastAt(hi, d - 1, i, u[i])
        OBVIOUS
      <3>2. at[q[p]] = NodeUnlinked(o, gone, q[d], u, s.level, d, p)
        BY <2>9 DEF x
      <3> QED
        BY <1>1, <1>10, <2>3, <3>1, <3>2, DeleteOld
    <2> QED
      BY <2>10 DEF q2, hi2
  <1>11. ASSUME NEW p \in 0..n - 1 PROVE NodeIs(at[q2[p]], s.level, q2, hi2, n - 1, p)
    <2>1. CASE p < d
      <3>1. p \in 0..n /\ p # d /\ q2[p] = q[p] /\ (IF p < d THEN p ELSE p - 1) = p
        BY <1>2, <1>5, <2>1
      <3> QED
        BY <1>10, <3>1
    <2>2. CASE ~ (p < d)
      <3>1. p + 1 \in 0..n /\ p + 1 # d /\ q2[p] = q[p + 1] /\ (IF p + 1 < d THEN p + 1 ELSE (p + 1) - 1) = p
        BY <1>2, <1>5, <2>2
      <3> QED
        BY <1>10, <3>1
    <2> QED
      BY <2>1, <2>2
  <1>12. /\ l \in 1..s.level /\ Heights(hi2, n - 1, l)
         /\ \A p \in 0..n - 1 : NodeIs(at[q2[p]], l, q2, hi2, n - 1, p)
    <2>1. l = TopOf(Used(at, s.level))
      BY DEF l
    <2>2. /\ s.level \in 1..SKIPLIST_MAXLEVEL /\ Ordered(q2, n - 1) /\ Heights(hi2, n - 1, s.level)
          /\ \A p \in 0..n - 1 : NodeIs(at[q2[p]], s.level, q2, hi2, n - 1, p)
      BY <1>1, <1>4, <1>6, <1>11
    <2>3. Heights(hi2, n - 1, s.level)
      BY <2>2
    <2> HIDE DEF x, gone
    <2> QED
      BY <2>1, <2>2, <2>3, LevelsGivenUp
  <1>13. t2.tail = (IF n - 1 = 0 THEN null ELSE q2[n - 1])
    <2>1. t2.tail = IF gone.forward[1] = null THEN gone.backward ELSE s.tail
      BY <1>3
    <2>2. CASE d = n
      <3>1. gone.forward[1] = null
        BY <1>2, <1>7, <2>2 DEF NodeAt
      <3>2. t2.tail = (IF d <= 1 THEN null ELSE q[d - 1])
        BY <1>7, <2>1, <3>1
      <3>3. n - 1 # 0 => n - 1 \in 0..n - 1 /\ n - 1 < d
        BY <1>2, <2>2
      <3>4. n - 1 # 0 => q2[n - 1] = q[n - 1]
        BY <1>5, <3>3
      <3> QED
        BY <1>2, <2>2, <3>2, <3>4
    <2>3. CASE d # n
      <3>1. d + 1 \in 0..n /\ gone.forward[1] = q[d + 1] /\ n - 1 \in 0..n - 1 /\ ~ (n - 1 < d) /\ n - 1 # 0 /\ n # 0 /\ (n - 1) + 1 = n
        BY <1>2, <1>7, <2>3 DEF NodeAt
      <3>2. gone.forward[1] # null
        BY <1>1, <3>1, OneToOne
      <3>3. q2[n - 1] = q[n]
        BY <1>5, <3>1
      <3> QED
        BY <1>1, <2>1, <3>1, <3>2, <3>3
    <2> QED
      BY <2>2, <2>3
  <1>14. t2 \in Lists
    <2>1. n - 1 \in Nat /\ l \in 1..M
      <3>1. l \in 1..s.level /\ s.level \in 1..M
        BY <1>1, <1>12
      <3> HIDE DEF M
      <3> QED
        BY <1>2, <3>1
    <2>2. t2.tail \in Int
      <3>1. n - 1 # 0 => q2[n - 1] \in Int
        BY <1>2, <1>4 DEF Ordered
      <3> QED
        BY <1>13, <3>1 DEF null
    <2>3. at \in [All(q2, n - 1) -> ListNodes]
      <3>1. \A y \in All(q2, n - 1) : at[y] \in ListNodes
        BY <1>11 DEF NodeIs, All
      <3> QED
        BY <1>4, <3>1 DEF at
    <2>4. All(q2, n - 1) \in SUBSET (0..N)
      BY <1>4 DEF Ordered, All
    <2>5. at \in UNION {[S -> ListNodes] : S \in SUBSET (0..N)}
      BY <2>3, <2>4
    <2> HIDE DEF gone, x
    <2> QED
      BY <1>3, <2>1, <2>2, <2>5 DEF Lists
  <1>15. Shape(t2, q2, hi2, n - 1)
    BY <1>3, <1>4, <1>11, <1>12, <1>13, <1>14 DEF Shape
  <1> QED
    BY <1>1, <1>3, <1>4, <1>12, <1>15 DEF t2, q2, hi2, x

-----------------------------------------------------------------------------
(* Every list the calls can make.                                          *)
ShapeKept(s) == \E q, hi : Shape(s, q, hi, s.length)

(* A list of the right shape has just the objects in its order.            *)
LEMMA MembersAre ==
  ASSUME ListAssumption, NEW s, NEW q, NEW hi, NEW n, Shape(s, q, hi, n)
  PROVE  /\ DOMAIN s.at \ {header} = Members(q, n) /\ s.length = n /\ Ordered(q, n)
         /\ header \in DOMAIN s.at
  <1>1. Ordered(q, n) /\ DOMAIN s.at = All(q, n) /\ n \in Nat /\ q[0] = header /\ s.length = n
    BY DEF Shape, Ordered
  <1>2. \A p \in 0..n : p = 0 \/ p \in 1..n
    BY <1>1
  <1>3. \A p \in 1..n : q[p] # header /\ p \in 0..n
    BY <1>1, OneToOne
  <1>4. 0 \in 0..n
    BY <1>1
  <1> QED
    BY <1>1, <1>2, <1>3, <1>4 DEF All, Members

(* The new list is empty.                                                  *)
LEMMA CreateIs ==
  ASSUME ListAssumption
  PROVE  Shape(slCreate, [p \in 0..0 |-> header], [p \in 0..0 |-> SKIPLIST_MAXLEVEL], 0)
  <1> DEFINE q == [p \in 0..0 |-> header]
             hi == [p \in 0..0 |-> SKIPLIST_MAXLEVEL]
             M == SKIPLIST_MAXLEVEL
             node == slCreateNode(M, [i \in 1..M |-> null], [i \in 1..M |-> 0], null)
  <1>1. M \in Nat /\ 1 <= M /\ N \in Nat
    BY DEF ListAssumption
  <1>2. node = [forward |-> [i \in 1..M |-> null], span |-> [i \in 1..M |-> 0], backward |-> null]
    BY DEF slCreateNode
  <1>3. slCreate = [level |-> 1, length |-> 0, tail |-> null, at |-> [x \in {header} |-> node]]
    BY DEF slCreate
  <1>4. q[0] = header /\ hi[0] = M /\ 1..0 = {} /\ q \in [0..0 -> 0..N] /\ hi \in [0..0 -> 1..M]
    BY <1>1 DEF header
  <1>5. Ordered(q, 0) /\ Heights(hi, 0, 1) /\ All(q, 0) = {header}
    <2>1. All(q, 0) = {header}
      BY <1>4 DEF All
    <2> HIDE DEF q, hi
    <2> QED
      BY <1>4, <2>1 DEF Ordered, Heights
  <1>6. node \in ListNodes
    <2>1. [i \in 1..M |-> null] \in [1..M -> Int] /\ [i \in 1..M |-> 0] \in [1..M -> Int] /\ M \in 1..M
      BY <1>1 DEF null
    <2>2. [1..M -> Int] \in {[1..h -> Int] : h \in 1..SKIPLIST_MAXLEVEL}
      BY <2>1
    <2>3. [i \in 1..M |-> null] \in Links /\ [i \in 1..M |-> 0] \in Links
      BY <2>1, <2>2 DEF Links
    <2>4. null \in Int
      BY DEF null
    <2> DEFINE f == [i \in 1..M |-> null]
               g == [i \in 1..M |-> 0]
    <2>5. node = [forward |-> f, span |-> g, backward |-> null] /\ f \in Links /\ g \in Links
      BY <1>2, <2>3
    <2> HIDE DEF f, g, node
    <2> QED
      BY <2>4, <2>5 DEF ListNodes
  <1> HIDE DEF node
  <1>7. NodeIs(node, 1, q, hi, 0, 0)
    <2>1. DOMAIN node.forward = 1..M /\ DOMAIN node.span = 1..M /\ node.backward = null
      BY <1>2
    <2>2. ASSUME NEW i \in 1..M PROVE node.forward[i] = null /\ node.span[i] = 0
      BY <1>2
    <2>3. ASSUME NEW i \in 1..M
          PROVE  \E r \in 1..1 : /\ Leads(hi, 0, 0, i, r) /\ node.forward[i] = NodeAt(q, 0, r)
                                 /\ node.span[i] = Upto(0, r) - 0
      <3>1. Leads(hi, 0, 0, i, 1)
        BY DEF Leads
      <3>2. NodeAt(q, 0, 1) = null /\ Upto(0, 1) = 0
        BY DEF NodeAt, Upto
      <3> QED
        BY <2>2, <3>1, <3>2
    <2> HIDE DEF hi, q
    <2> QED
      BY <1>4, <1>6, <2>1, <2>2, <2>3 DEF NodeIs
  <1>8. slCreate \in Lists
    <2>1. [x \in {header} |-> node] \in [{header} -> ListNodes] /\ {header} \in SUBSET (0..N)
      BY <1>1, <1>6 DEF header
    <2>2. 1 \in 1..M /\ null \in Int
      BY <1>1 DEF null
    <2> QED
      BY <1>3, <2>1, <2>2 DEF Lists
  <1>9. \A p \in 0..0 : NodeIs(slCreate.at[q[p]], slCreate.level, q, hi, 0, p)
    <2>1. slCreate.at[header] = node /\ slCreate.level = 1 /\ \A p \in 0..0 : p = 0
      BY <1>3
    <2> HIDE DEF q, hi
    <2> QED
      BY <1>4, <1>7, <2>1
  <1> HIDE DEF q, hi
  <1>10. Shape(slCreate, q, hi, 0)
    BY <1>3, <1>5, <1>8, <1>9 DEF Shape
  <1> QED
    BY <1>10 DEF q, hi

(* The objects before one are the first so many.                           *)
LEMMA FirstBefore ==
  ASSUME ListAssumption, NEW q, NEW n, Ordered(q, n), NEW e \in Listable
  PROVE  \E k \in 0..n : /\ \A p \in 1..n : Before(q[p], e) <=> p <= k
                         /\ e \notin Members(q, n) => Splits(q, n, k, e)
                         /\ e \in Members(q, n) => k + 1 \in 1..n /\ q[k + 1] = e
  <1>1. n \in Nat /\ \A p \in 1..n : q[p] \in Listable
    BY DEF Ordered
  <1> DEFINE D == {p \in 1..n : Before(q[p], e)}
  <1>2. \A a, b \in 1..n : b \in D /\ a < b => a \in D
    BY <1>1, BeforeOrders DEF Ordered
  <1>3. PICK k \in 0..n : \A p \in 1..n : p \in D <=> p <= k
    BY <1>1, <1>2, Threshold
  <1>4. \A p \in 1..n : Before(q[p], e) <=> p <= k
    BY <1>3
  <1>5. ASSUME e \notin Members(q, n) PROVE Splits(q, n, k, e)
    <2>1. \A p \in 1..n : q[p] # e /\ (p > k => ~ (p <= k))
      BY <1>1, <1>5 DEF Members
    <2> QED
      BY <1>1, <1>4, <2>1, BeforeOrders DEF Splits
  <1>6. ASSUME e \in Members(q, n) PROVE k + 1 \in 1..n /\ q[k + 1] = e
    <2>1. PICK d \in 1..n : q[d] = e
      BY <1>6 DEF Members
    <2>2. \A p \in 1..n : p < d <=> p <= k
      BY <1>4, <2>1, OneToOne
    <2>3. d = k + 1
      <3>1. d \in Nat /\ k \in Nat /\ 1 <= d /\ d <= n /\ k <= n
        BY <1>1
      <3>2. ~ (d <= k)
        BY <2>2, <3>1
      <3>3. d > 1 => d - 1 \in 1..n /\ d - 1 < d
        BY <1>1, <3>1
      <3>4. d > 1 => d - 1 <= k
        BY <2>2, <3>3
      <3> QED
        BY <3>1, <3>2, <3>4
    <2> QED
      BY <2>1, <2>3
  <1> QED
    BY <1>4, <1>5, <1>6

(* The way down ends, on the lowest level, at the last of the first k.     *)
LEMMA PathOne ==
  ASSUME ListAssumption, NEW s, NEW q, NEW hi, NEW n, Shape(s, q, hi, n), NEW k \in 0..n, NEW path,
         Path(q, hi, n, s.level, k, path)
  PROVE  /\ path[1].rank = k /\ path[1].node = q[k] /\ s.at[path[1].node].forward[1] = NodeAt(q, n, k + 1)
         /\ DOMAIN path = 1..s.level /\ 1 \in 1..s.level
  <1>1. n \in Nat /\ k \in 0..n /\ hi \in [0..n -> 1..SKIPLIST_MAXLEVEL] /\ SKIPLIST_MAXLEVEL \in Nat
        /\ s.level \in Nat /\ 1 <= s.level
    BY DEF Shape, Ordered, Heights, ListAssumption, Lists
  <1>2. \A t \in 0..n : hi[t] >= 1 /\ hi[t] \in Nat /\ ~ (hi[t] < 1)
    BY <1>1
  <1>3. 1 \in 1..s.level
    BY <1>1
  <1>4. LastAt(hi, k, 1, path[1].rank) /\ path[1].node = q[path[1].rank] /\ DOMAIN path = 1..s.level
    BY <1>3 DEF Path
  <1>5. path[1].rank = k
    <2> DEFINE u == path[1].rank
    <2>1. u \in 0..k /\ \A t \in u + 1..k : hi[t] < 1
      BY <1>4 DEF LastAt
    <2> HIDE DEF u
    <2>2. u # k => k \in u + 1..k /\ k \in 0..n
      BY <1>1, <2>1
    <2>3. u = k
      BY <1>2, <2>1, <2>2
    <2> QED
      BY <2>3 DEF u
  <1> QED
    BY <1>3, <1>4, <1>5, NextIs

(* Going down for an object ends at those that are before it.              *)
LEMMA LowerIs ==
  ASSUME ListAssumption, NEW q, NEW n, Ordered(q, n), NEW e \in Listable, NEW k,
         \A p \in 1..n : Before(q[p], e) <=> p <= k
  PROVE  \A p \in 1..n : Lower(e)[<<q[p], p>>] <=> p <= k
  <1> SUFFICES ASSUME NEW p \in 1..n PROVE Lower(e)[<<q[p], p>>] <=> p <= k
    OBVIOUS
  <1>1. q[p] \in Listable /\ p \in Int
    BY DEF Ordered
  <1>2. Lower(e)[<<q[p], p>>] = Before(q[p], e)
    BY <1>1 DEF Lower, Places
  <1> QED
    BY <1>2

(* What slDelete deletes.                                                  *)
LEMMA DeleteOne ==
  ASSUME ListAssumption, NEW s, NEW q, NEW hi, NEW n, Shape(s, q, hi, n), NEW e \in Listable
  PROVE  /\ ShapeKept(slDelete(s, e).list)
         /\ DOMAIN slDelete(s, e).list.at \ {header} = Members(q, n) \ {e}
         /\ slDelete(s, e).removed = IF e \in Members(q, n) THEN <<e>> ELSE <<>>
  <1> DEFINE path == Descend(s, Lower(e))
             x == s.at[path[1].node].forward[1]
             update == [i \in 1..s.level |-> path[i].node]
  <1>1. Ordered(q, n) /\ n \in Nat
    BY DEF Shape, Ordered
  <1>2. PICK k \in 0..n : /\ \A p \in 1..n : Before(q[p], e) <=> p <= k
                          /\ e \in Members(q, n) => k + 1 \in 1..n /\ q[k + 1] = e
    BY <1>1, FirstBefore
  <1>3. Path(q, hi, n, s.level, k, path)
    <2>1. \A p \in 1..n : Lower(e)[<<q[p], p>>] <=> p <= k
      BY <1>1, <1>2, LowerIs
    <2> QED
      BY <2>1, DescendIs
  <1>4. slDelete(s, e) = IF x # null /\ score[x] = score[e] /\ equalslObj(x, e)
                         THEN [list |-> slDeleteNode(s, x, update), removed |-> <<x>>]
                         ELSE [list |-> s, removed |-> <<>>]
    BY DEF slDelete
  <1> HIDE DEF path
  <1>5. x = NodeAt(q, n, k + 1)
    BY <1>3, PathOne
  <1> HIDE DEF x
  <1>6. (x # null /\ score[x] = score[e] /\ equalslObj(x, e)) <=> e \in Members(q, n)
    <2>1. ASSUME e \in Members(q, n) PROVE x # null /\ score[x] = score[e] /\ equalslObj(x, e)
      <3>1. x = e /\ x # null
        <4>1. k + 1 # n + 1 /\ k + 1 \in 1..n
          BY <1>1, <1>2, <2>1
        <4> QED
          BY <1>1, <1>2, <1>5, <2>1, <4>1, OneToOne DEF NodeAt
      <3>2. ptr[e] \in Int
        BY DEF ListAssumption, Listable
      <3> QED
        BY <3>1, <3>2 DEF equalslObj, compareslObj
    <2>2. ASSUME x # null, score[x] = score[e], equalslObj(x, e) PROVE e \in Members(q, n)
      <3>1. k + 1 \in 1..n /\ x = q[k + 1]
        BY <1>1, <1>5, <2>2 DEF NodeAt
      <3>2. q[k + 1] \in Listable
        BY <3>1 DEF Shape, Ordered
      <3>3. q[k + 1] = e
        BY <2>2, <3>1, <3>2, BeforeOrders
      <3> QED
        BY <3>1, <3>3 DEF Members
    <2> QED
      BY <2>1, <2>2
  <1>7. CASE e \in Members(q, n)
    <2>1. k + 1 \in 1..n /\ q[k + 1] = e /\ k + 1 # n + 1
      BY <1>1, <1>2, <1>7
    <2>2. x = q[k + 1] /\ x = e
      BY <1>5, <2>1 DEF NodeAt
    <2> DEFINE u == [i \in 1..s.level |-> path[i].rank]
               t == slDeleteNode(s, q[k + 1], update)
    <2>3. ASSUME NEW i \in 1..s.level PROVE LastAt(hi, (k + 1) - 1, i, u[i]) /\ update[i] = q[u[i]]
      <3>1. (k + 1) - 1 = k
        BY <1>1
      <3> QED
        BY <1>3, <3>1 DEF Path
    <2> HIDE DEF u, update
    <2>4. /\ Shape(t, TakenOut(q, n, k + 1), TakenOut(hi, n, k + 1), n - 1)
          /\ DOMAIN t.at = DOMAIN s.at \ {q[k + 1]}
      BY <2>1, <2>3, DeleteIs
    <2> HIDE DEF t
    <2>5. ShapeKept(t)
      BY <2>4, MembersAre DEF ShapeKept
    <2>6. slDelete(s, e) = [list |-> t, removed |-> <<e>>]
      BY <1>4, <1>6, <1>7, <2>2 DEF t
    <2>7. DOMAIN t.at \ {header} = Members(q, n) \ {e}
      BY <2>1, <2>4, MembersAre
    <2> QED
      BY <1>7, <2>5, <2>6, <2>7
  <1>8. CASE e \notin Members(q, n)
    <2>1. slDelete(s, e) = [list |-> s, removed |-> <<>>]
      BY <1>4, <1>6, <1>8
    <2>2. DOMAIN s.at \ {header} = Members(q, n) /\ s.length = n
      BY MembersAre
    <2>3. ShapeKept(s)
      BY <2>2 DEF ShapeKept
    <2> QED
      BY <1>8, <2>1, <2>2, <2>3
  <1> QED
    BY <1>7, <1>8

-----------------------------------------------------------------------------
(* What is left when the j behind the first k are gone.                    *)
CutOut(f, n, k, j) == [p \in 0..n - j |-> IF p <= k THEN f[p] ELSE f[p + j]]

(* Cutting one object more is taking it out of what is left.               *)
LEMMA CutMore ==
  ASSUME NEW n \in Nat, NEW k \in Nat, NEW j \in Nat, k + j < n, NEW f
  PROVE  /\ TakenOut(CutOut(f, n, k, j), n - j, k + 1) = CutOut(f, n, k, j + 1)
         /\ n - (j + 1) = (n - j) - 1
         /\ k + 1 \in 1..n - j /\ CutOut(f, n, k, j)[k + 1] = f[k + 1 + j]
  <1> DEFINE g == CutOut(f, n, k, j)
  <1>1. \A p \in 0..n - j : g[p] = IF p <= k THEN f[p] ELSE f[p + j]
    BY DEF CutOut
  <1> HIDE DEF g
  <1>2. n - (j + 1) = (n - j) - 1
    OBVIOUS
  <1>3. ASSUME NEW p \in 0..(n - j) - 1
        PROVE  (IF p < k + 1 THEN g[p] ELSE g[p + 1]) = (IF p <= k THEN f[p] ELSE f[p + (j + 1)])
    <2>1. CASE p <= k
      <3>1. p < k + 1 /\ p \in 0..n - j
        BY <2>1
      <3> QED
        BY <1>1, <2>1, <3>1
    <2>2. CASE ~ (p <= k)
      <3>1. ~ (p < k + 1) /\ p + 1 \in 0..n - j /\ ~ (p + 1 <= k) /\ (p + 1) + j = p + (j + 1)
        BY <2>2
      <3> QED
        BY <1>1, <2>2, <3>1
    <2> QED
      BY <2>1, <2>2
  <1>4. TakenOut(g, n - j, k + 1) = CutOut(f, n, k, j + 1)
    BY <1>2, <1>3 DEF TakenOut, CutOut
  <1>5. k + 1 \in 1..n - j /\ g[k + 1] = f[k + 1 + j]
    <2>1. k + 1 \in 1..n - j /\ ~ (k + 1 <= k) /\ k + 1 \in 0..n - j
      OBVIOUS
    <2> QED
      BY <1>1, <2>1
  <1> QED
    BY <1>2, <1>4, <1>5 DEF g

(* Cutting none leaves the list as it is.                                  *)
LEMMA CutNone ==
  ASSUME NEW n \in Nat, NEW k, NEW S, NEW f \in [0..n -> S]
  PROVE  CutOut(f, n, k, 0) = f /\ n - 0 = n
  <1>1. n - 0 = n /\ \A p \in 0..n : p + 0 = p
    OBVIOUS
  <1> QED
    BY <1>1 DEF CutOut

(* The state p of the loop that deletes, when j are gone.                  *)
Gone(q, hi, n, k, end, level, j, p) ==
  /\ j \in 0..n - k /\ (j = 0 \/ k + j <= end)
  /\ Shape(p.list, CutOut(q, n, k, j), CutOut(hi, n, k, j), n - j) /\ p.list.level \in 1..level
  /\ p = [list |-> p.list, x |-> NodeAt(q, n, k + j + 1), traversed |-> k + j + 1,
          removed |-> [i \in 1..j |-> q[k + i]]]

DeleteStates == [list : Lists, x : Int, traversed : Int, removed : Seq(Int)]

(* A turn of the loop that deletes: one object more is gone, or it is over.*)
LEMMA GoneTurn ==
  ASSUME ListAssumption, NEW q, NEW hi, NEW n, Ordered(q, n), NEW level \in Nat, Heights(hi, n, level),
         NEW k \in 0..n, NEW end \in Nat,
         NEW u, NEW update, \A i \in 1..level : LastAt(hi, k, i, u[i]) /\ update[i] = q[u[i]],
         NEW j, NEW p, Gone(q, hi, n, k, end, level, j, p)
  PROVE  IF j = n - k \/ k + j + 1 > end THEN DeleteTurn(end, update, p) = p
         ELSE Gone(q, hi, n, k, end, level, j + 1, DeleteTurn(end, update, p))
  <1> DEFINE qj == CutOut(q, n, k, j)
             hj == CutOut(hi, n, k, j)
             t == slDeleteNode(p.list, p.x, update)
  <1>1. /\ n \in Nat /\ k \in Nat /\ k <= n /\ q \in [0..n -> 0..N] /\ hi \in [0..n -> 1..SKIPLIST_MAXLEVEL]
        /\ SKIPLIST_MAXLEVEL \in Nat
    BY DEF Ordered, Heights, ListAssumption
  <1>2. /\ j \in Nat /\ j <= n - k /\ (j = 0 \/ k + j <= end)
        /\ Shape(p.list, qj, hj, n - j) /\ p.list.level \in 1..level
        /\ p = [list |-> p.list, x |-> NodeAt(q, n, k + j + 1), traversed |-> k + j + 1,
                removed |-> [i \in 1..j |-> q[k + i]]]
    BY <1>1 DEF Gone
  <1>a. n \in Nat /\ k \in Nat /\ j \in Nat /\ k <= n /\ j <= n - k
    BY <1>1, <1>2
  <1>3. p.x = NodeAt(q, n, k + j + 1) /\ p.traversed = k + j + 1 /\ p.removed = [i \in 1..j |-> q[k + i]]
    BY <1>2
  <1>4. p.x = null <=> j = n - k
    <2>1. CASE j = n - k
      <3>1. k + j + 1 = n + 1
        BY <1>1, <1>2, <2>1
      <3> QED
        BY <1>3, <2>1, <3>1 DEF NodeAt
    <2>2. CASE j # n - k
      <3>1. k + j + 1 # n + 1 /\ k + j + 1 \in 1..n
        BY <1>a, <2>2
      <3>2. q[k + j + 1] # null
        BY <3>1, OneToOne
      <3> QED
        BY <1>3, <2>2, <3>1, <3>2 DEF NodeAt
    <2> QED
      BY <2>1, <2>2
  <1>5. CASE j = n - k \/ k + j + 1 > end
    BY <1>3, <1>4, <1>5 DEF DeleteTurn
  <1>6. CASE ~ (j = n - k \/ k + j + 1 > end)
    <2>1. k + j < n /\ k + j + 1 <= end /\ k + j + 1 # n + 1 /\ k + j + 1 \in 1..n /\ k + 1 + j = k + j + 1
          /\ j + 1 \in 0..n - k /\ k + (j + 1) = k + j + 1 /\ n - j \in Nat
      BY <1>a, <1>6
    <2>2. /\ TakenOut(qj, n - j, k + 1) = CutOut(q, n, k, j + 1)
          /\ TakenOut(hj, n - j, k + 1) = CutOut(hi, n, k, j + 1)
          /\ n - (j + 1) = (n - j) - 1 /\ k + 1 \in 1..n - j /\ qj[k + 1] = q[k + j + 1]
      <3>1. k + j < n /\ k + 1 + j = k + j + 1
        BY <2>1
      <3> QED
        BY <1>a, <3>1, CutMore
    <2>3. p.x = qj[k + 1]
      BY <1>3, <2>1, <2>2 DEF NodeAt
    <2>4. DeleteTurn(end, update, p) =
            [list |-> t, x |-> p.list.at[p.x].forward[1], traversed |-> p.traversed + 1,
             removed |-> Append(p.removed, p.x)]
      BY <1>3, <1>4, <1>6 DEF DeleteTurn
    <2>5. ASSUME NEW i \in 1..p.list.level PROVE LastAt(hj, (k + 1) - 1, i, u[i]) /\ update[i] = qj[u[i]]
      <3>1. i \in 1..level /\ (k + 1) - 1 = k
        <4>1. (k + 1) - 1 = k
          BY <1>a
        <4>2. p.list.level \in 1..level
          BY <1>2
        <4>3. i \in 1..level
          BY <4>2
        <4> QED
          BY <4>1, <4>3
      <3>2. LastAt(hi, k, i, u[i]) /\ update[i] = q[u[i]]
        BY <3>1
      <3>3. \A v \in 0..k : hj[v] = hi[v] /\ qj[v] = q[v]
        <4>1. \A v \in 0..k : v \in 0..n - j /\ v <= k
          BY <1>1, <1>2
        <4> QED
          BY <4>1 DEF CutOut
      <3> HIDE DEF hj, qj
      <3>4. u[i] \in 0..k /\ \A v \in u[i] + 1..k : v \in 0..k
        BY <1>1, <3>2 DEF LastAt
      <3> QED
        BY <3>1, <3>2, <3>3, <3>4 DEF LastAt
    <2>6. /\ Shape(t, CutOut(q, n, k, j + 1), CutOut(hi, n, k, j + 1), n - (j + 1))
          /\ t.level \in 1..p.list.level
      <3> HIDE DEF qj, hj
      <3>1. /\ Shape(slDeleteNode(p.list, qj[k + 1], update), TakenOut(qj, n - j, k + 1), TakenOut(hj, n - j, k + 1), (n - j) - 1)
            /\ slDeleteNode(p.list, qj[k + 1], update).level \in 1..p.list.level
        BY <1>2, <2>2, <2>5, DeleteIs
      <3> QED
        BY <2>2, <2>3, <3>1
    <2> HIDE DEF t
    <2>7. t.level \in 1..level
      <3>1. p.list.level \in 1..level /\ level \in Nat /\ t.level \in 1..p.list.level
        BY <1>1, <1>2, <2>6
      <3> HIDE DEF t
      <3> QED
        BY <3>1
    <2>8. p.list.at[p.x].forward[1] = NodeAt(q, n, k + (j + 1) + 1)
      <3>1. k + 1 \in 0..n - j
        BY <1>1, <1>2, <2>2
      <3>2. p.list.at[qj[k + 1]].forward[1] = NodeAt(qj, n - j, (k + 1) + 1)
        <4> HIDE DEF qj, hj
        <4> QED
          BY <1>2, <3>1, NextIs
      <3>3. NodeAt(qj, n - j, (k + 1) + 1) = NodeAt(q, n, k + (j + 1) + 1)
        <4>1. (k + 1) + 1 = (n - j) + 1 <=> k + (j + 1) + 1 = n + 1
          BY <1>a
        <4>2. CASE (k + 1) + 1 # (n - j) + 1
          <5>1. (k + 1) + 1 \in 0..n - j /\ ~ ((k + 1) + 1 <= k) /\ ((k + 1) + 1) + j = k + (j + 1) + 1
            BY <1>a, <2>1, <4>2
          <5>2. qj[(k + 1) + 1] = q[k + (j + 1) + 1]
            BY <5>1 DEF CutOut
          <5> QED
            BY <4>1, <4>2, <5>2 DEF NodeAt
        <4>3. CASE (k + 1) + 1 = (n - j) + 1
          BY <4>1, <4>3 DEF NodeAt
        <4> QED
          BY <4>2, <4>3
      <3> QED
        BY <2>3, <3>2, <3>3
    <2>9. p.traversed + 1 = k + (j + 1) + 1
      BY <1>1, <1>2, <1>3
    <2>10. Append(p.removed, p.x) = [i \in 1..j + 1 |-> q[k + i]]
      <3>1. p.removed \in Seq(Int) /\ Len(p.removed) = j /\ \A i \in 1..j : p.removed[i] = q[k + i]
        <4>1. \A i \in 1..j : q[k + i] \in Int
          <5>1. \A i \in 1..j : k + i \in 0..n
            BY <1>1, <1>2
          <5> QED
            BY <1>1, <5>1
        <4>2. p.removed = [i \in 1..j |-> q[k + i]] /\ j \in Nat
          BY <1>2, <1>3
        <4> QED
          BY <4>1, <4>2
      <3>2. p.x = q[k + (j + 1)] /\ p.x \in Int
        <4>0. k + (j + 1) = k + j + 1 /\ k + j + 1 \in 0..n
          BY <1>a, <2>1
        <4>1. q[k + j + 1] \in Int /\ k + (j + 1) = k + j + 1
          BY <1>1, <4>0
        <4> QED
          BY <1>3, <2>1, <4>1 DEF NodeAt
      <3> DEFINE a == Append(p.removed, p.x)
                 b == [i \in 1..j + 1 |-> q[k + i]]
      <3>3. Len(a) = j + 1 /\ a \in Seq(Int) /\ \A i \in 1..j + 1 : a[i] = IF i = j + 1 THEN p.x ELSE p.removed[i]
        BY <1>2, <3>1, <3>2
      <3>4. a = [i \in 1..j + 1 |-> a[i]]
        BY <1>2, <3>3
      <3> HIDE DEF a
      <3>5. \A i \in 1..j + 1 : a[i] = q[k + i]
        <4>1. \A i \in 1..j + 1 : i # j + 1 => i \in 1..j
          BY <1>2
        <4> QED
          BY <3>1, <3>2, <3>3, <4>1
      <3>6. a = b
        BY <3>4, <3>5
      <3> QED
        BY <3>6 DEF a
    <2> DEFINE p2 == DeleteTurn(end, update, p)
    <2>11. p2 = [list |-> t, x |-> NodeAt(q, n, k + (j + 1) + 1), traversed |-> k + (j + 1) + 1,
                 removed |-> [i \in 1..j + 1 |-> q[k + i]]]
      BY <2>4, <2>8, <2>9, <2>10
    <2> HIDE DEF p2, qj, hj
    <2>12. p2.list = t
      BY <2>11
    <2>13. Gone(q, hi, n, k, end, level, j + 1, p2)
      BY <2>1, <2>6, <2>7, <2>11, <2>12 DEF Gone
    <2> QED
      BY <1>6, <2>13 DEF p2
  <1> QED
    BY <1>5, <1>6

RunOf(q, k, j) == [i \in 1..j |-> q[k + i]]

(* What slDeleteByRank deletes: j objects behind the first k.              *)
Deleted(start, end, n, k, j) ==
  /\ k \in 0..n /\ j \in 0..n - k
  /\ \A p \in 1..n : p < start <=> p <= k
  /\ j = n - k \/ k + j + 1 > end
  /\ j = 0 \/ k + j <= end

DeletedIs(deleted, start, end, q, hi, n, k, j) ==
  /\ Deleted(start, end, n, k, j)
  /\ Shape(deleted.list, CutOut(q, n, k, j), CutOut(hi, n, k, j), n - j)
  /\ deleted.removed = RunOf(q, k, j)

(* What a range of ranks deletes, and the shape of what it leaves.         *)
LEMMA DeleteRange ==
  ASSUME ListAssumption, NEW s, NEW q, NEW hi, NEW n, Shape(s, q, hi, n),
         NEW start \in Nat, NEW end \in Nat
  PROVE  \E k, j \in Nat : DeletedIs(slDeleteByRank(s, start, end), start, end, q, hi, n, k, j)
  <1> DEFINE path == Descend(s, RankBelow(start))
             update == [i \in 1..s.level |-> path[i].node]
             first == [list |-> s, x |-> s.at[path[1].node].forward[1],
                       traversed |-> path[1].rank + 1, removed |-> <<>>]
             turn == CHOOSE f : f = [m \in Nat |-> IF m = 0 THEN first
                                                   ELSE DeleteTurn(end, update, f[m - 1])]
             u == [i \in 1..s.level |-> path[i].rank]
  <1>1. /\ Ordered(q, n) /\ n \in Nat /\ n <= N /\ N \in Nat /\ s.level \in Nat /\ s.level \in 1..s.level
        /\ Heights(hi, n, s.level) /\ q \in [0..n -> 0..N] /\ hi \in [0..n -> 1..SKIPLIST_MAXLEVEL]
    <2>1. Ordered(q, n) /\ s \in Lists /\ Heights(hi, n, s.level)
      BY DEF Shape
    <2>2. n \in 0..N /\ N \in Nat
      BY <2>1, Few DEF ListAssumption
    <2>3. s.level \in 1..SKIPLIST_MAXLEVEL /\ SKIPLIST_MAXLEVEL \in Nat
      BY <2>1 DEF Lists, ListAssumption
    <2>4. n \in Nat /\ n <= N /\ s.level \in Nat /\ s.level \in 1..s.level
      BY <2>2, <2>3
    <2> QED
      BY <2>1, <2>2, <2>4 DEF Ordered, Heights
  <1>2. PICK k \in 0..n : \A p \in 1..n : p < start <=> p <= k
    <2> DEFINE D == {p \in 1..n : p < start}
    <2>1. \A a, b \in 1..n : b \in D /\ a < b => a \in D
      BY <1>1
    <2>2. PICK k \in 0..n : \A p \in 1..n : p \in D <=> p <= k
      BY <1>1, <2>1, Threshold
    <2> QED
      BY <2>2
  <1>3. Path(q, hi, n, s.level, k, path)
    <2>1. ASSUME NEW p \in 1..n PROVE RankBelow(start)[<<q[p], p>>] <=> p <= k
      <3>1. q[p] \in Listable /\ p \in Int
        BY <1>1 DEF Ordered
      <3>2. RankBelow(start)[<<q[p], p>>] = (p < start)
        BY <3>1 DEF RankBelow, Places
      <3> QED
        BY <1>2, <3>2
    <2> QED
      BY <2>1, DescendIs
  <1>4. slDeleteByRank(s, start, end) = [list |-> turn[N].list, removed |-> turn[N].removed]
    BY DEF slDeleteByRank
  <1> HIDE DEF path, u, update, turn, first
  <1>5. \A i \in 1..s.level : LastAt(hi, k, i, u[i]) /\ update[i] = q[u[i]]
    BY <1>3 DEF Path, u, update
  <1>6. Gone(q, hi, n, k, end, s.level, 0, first)
    <2>1. path[1].rank = k /\ s.at[path[1].node].forward[1] = NodeAt(q, n, k + 1)
      BY <1>3, PathOne
    <2>2. CutOut(q, n, k, 0) = q /\ CutOut(hi, n, k, 0) = hi /\ n - 0 = n
      BY <1>1, CutNone
    <2>3. k + 0 + 1 = k + 1 /\ 0 \in 0..n - k /\ s.level \in 1..s.level
      BY <1>1
    <2>4. [i \in 1..0 |-> q[k + i]] = <<>>
      OBVIOUS
    <2>5. first = [list |-> s, x |-> NodeAt(q, n, k + 0 + 1), traversed |-> k + 0 + 1,
                   removed |-> [i \in 1..0 |-> q[k + i]]]
      BY <2>1, <2>3, <2>4 DEF first
    <2>6. first.list = s
      BY <2>5
    <2> QED
      BY <2>2, <2>3, <2>5, <2>6 DEF Gone
  <1>7. \A j, p : Gone(q, hi, n, k, end, s.level, j, p) =>
          IF j = n - k \/ k + j + 1 > end THEN DeleteTurn(end, update, p) = p
          ELSE Gone(q, hi, n, k, end, s.level, j + 1, DeleteTurn(end, update, p))
    <2>1. ListAssumption /\ Ordered(q, n) /\ Heights(hi, n, s.level) /\ s.level \in Nat
          /\ \A i \in 1..s.level : LastAt(hi, k, i, u[i]) /\ update[i] = q[u[i]]
      BY <1>1, <1>5
    <2> HIDE DEF u, update
    <2> QED
      BY <2>1, GoneTurn
  <1> DEFINE P == {p \in DeleteStates : \E j \in Nat : Gone(q, hi, n, k, end, s.level, j, p)}
             link == [p \in P |-> DeleteTurn(end, update, p)]
  <1>8. ASSUME NEW j, NEW p, Gone(q, hi, n, k, end, s.level, j, p) PROVE p \in P
    <2>1. j \in Nat /\ j <= n - k /\ k \in Nat /\ k <= n
      BY <1>1, <1>8 DEF Gone
    <2>2. NodeAt(q, n, k + j + 1) \in Int
      <3>1. k + j + 1 # n + 1 => k + j + 1 \in 0..n
        BY <1>1, <2>1
      <3> QED
        BY <1>1, <3>1 DEF NodeAt, null
    <2>3. [i \in 1..j |-> q[k + i]] \in Seq(Int)
      <3>1. \A i \in 1..j : k + i \in 0..n
        BY <1>1, <2>1
      <3>2. \A i \in 1..j : q[k + i] \in Int
        BY <1>1, <3>1
      <3> QED
        BY <2>1, <3>2
    <2>4. p.list \in Lists /\ k + j + 1 \in Int
      BY <1>8, <2>1 DEF Gone, Shape
    <2>5. p = [list |-> p.list, x |-> NodeAt(q, n, k + j + 1), traversed |-> k + j + 1,
               removed |-> [i \in 1..j |-> q[k + i]]]
      BY <1>8 DEF Gone
    <2>6. p \in DeleteStates
      <3> DEFINE r == [i \in 1..j |-> q[k + i]]
                 x == NodeAt(q, n, k + j + 1)
                 t == k + j + 1
      <3>1. p = [list |-> p.list, x |-> x, traversed |-> t, removed |-> r]
        BY <2>5
      <3>2. r \in Seq(Int) /\ x \in Int /\ t \in Int
        BY <2>2, <2>3, <2>4
      <3> HIDE DEF r, x, t
      <3> QED
        BY <2>4, <3>1, <3>2 DEF DeleteStates
    <2> QED
      BY <1>8, <2>1, <2>6
  <1>9. first \in P
    BY <1>6, <1>8
  <1>10. link \in [P -> P]
    <2> SUFFICES ASSUME NEW p \in P PROVE DeleteTurn(end, update, p) \in P
      OBVIOUS
    <2>1. PICK j \in Nat : Gone(q, hi, n, k, end, s.level, j, p)
      OBVIOUS
    <2> HIDE DEF P
    <2> QED
      BY <1>7, <1>8, <2>1
  <1>11. \A p \in P : link[p] = DeleteTurn(end, update, p)
    OBVIOUS
  <1> HIDE DEF P, link
  <1>12. \E f : f = [m \in Nat |-> IF m = 0 THEN first ELSE DeleteTurn(end, update, f[m - 1])]
    <2>1. PICK f \in [Nat -> P] : Loops(first, link, f)
      BY <1>9, <1>10, LoopExists
    <2>2. ASSUME NEW m \in Nat
          PROVE  f[m] = IF m = 0 THEN first ELSE DeleteTurn(end, update, f[m - 1])
      <3>1. m # 0 => m - 1 \in Nat
        OBVIOUS
      <3>2. m # 0 => f[m - 1] \in P
        BY <2>1, <3>1
      <3> QED
        BY <1>11, <2>1, <3>2 DEF Loops
    <2>3. f = [m \in Nat |-> f[m]]
      BY <2>1
    <2> HIDE <2>1
    <2>4. [m \in Nat |-> f[m]] = [m \in Nat |-> IF m = 0 THEN first
                                                ELSE DeleteTurn(end, update, f[m - 1])]
      BY <2>2
    <2> QED
      BY <2>3, <2>4
  <1>13. turn = [m \in Nat |-> IF m = 0 THEN first ELSE DeleteTurn(end, update, turn[m - 1])]
    BY <1>12 DEF turn
  <1> DEFINE Ready(j) == j = n - k \/ k + j + 1 > end
             S == {m \in Nat : \E j \in Nat : /\ Gone(q, hi, n, k, end, s.level, j, turn[m])
                                              /\ j = m \/ Ready(j)}
  <1>14. 0 \in S
    <2>1. turn[0] = first
      BY <1>13
    <2> QED
      BY <1>6, <2>1
  <1>15. ASSUME NEW m \in S PROVE m + 1 \in S
    <2>1. m \in Nat /\ m + 1 \in Nat /\ m + 1 # 0 /\ (m + 1) - 1 = m
      OBVIOUS
    <2>2. turn[m + 1] = DeleteTurn(end, update, turn[m])
      BY <1>13, <2>1
    <2>3. PICK j \in Nat : Gone(q, hi, n, k, end, s.level, j, turn[m]) /\ (j = m \/ Ready(j))
      OBVIOUS
    <2>4. CASE Ready(j)
      <3>1. turn[m + 1] = turn[m]
        BY <1>7, <2>2, <2>3, <2>4
      <3> QED
        BY <2>1, <2>3, <2>4, <3>1
    <2>5. CASE ~ Ready(j)
      <3>1. Gone(q, hi, n, k, end, s.level, j + 1, turn[m + 1])
        BY <1>7, <2>2, <2>3, <2>5
      <3>2. j + 1 = m + 1 /\ j + 1 \in Nat
        BY <2>3, <2>5
      <3> HIDE DEF Ready
      <3> QED
        BY <2>1, <3>1, <3>2
    <2> QED
      BY <2>4, <2>5
  <1>16. N \in S
    <2> HIDE DEF S
    <2>1. S \in SUBSET Nat
      BY DEF S
    <2>2. \A m \in Nat : m \in S
      BY <1>14, <1>15, <2>1, Induct
    <2> QED
      BY <1>1, <2>2
  <1>17. PICK j \in Nat : Gone(q, hi, n, k, end, s.level, j, turn[N]) /\ (j = N \/ Ready(j))
    BY <1>16
  <1> DEFINE e == turn[N]
  <1> HIDE DEF e, S
  <1>18. /\ j \in 0..n - k /\ (j = 0 \/ k + j <= end)
         /\ Shape(e.list, CutOut(q, n, k, j), CutOut(hi, n, k, j), n - j)
         /\ e.removed = [i \in 1..j |-> q[k + i]]
    <2>1. Gone(q, hi, n, k, end, s.level, j, e)
      BY <1>17 DEF e
    <2>2. e = [list |-> e.list, x |-> NodeAt(q, n, k + j + 1), traversed |-> k + j + 1,
               removed |-> [i \in 1..j |-> q[k + i]]]
      BY <2>1 DEF Gone
    <2>3. e.removed = [i \in 1..j |-> q[k + i]]
      BY <2>2
    <2> QED
      BY <2>1, <2>3 DEF Gone
  <1>19. Deleted(start, end, n, k, j)
    <2>1. j = n - k \/ k + j + 1 > end
      <3>1. j = N => j = n - k
        BY <1>1, <1>18
      <3> QED
        BY <1>17, <3>1
    <2> QED
      BY <1>2, <1>18, <2>1 DEF Deleted
  <1>20. slDeleteByRank(s, start, end).list = e.list /\ slDeleteByRank(s, start, end).removed = e.removed
    BY <1>4 DEF e
  <1>21. k \in Nat /\ e.removed = RunOf(q, k, j)
    BY <1>1, <1>18 DEF RunOf
  <1>22. DeletedIs(slDeleteByRank(s, start, end), start, end, q, hi, n, k, j)
    BY <1>18, <1>19, <1>20, <1>21 DEF DeletedIs
  <1> QED
    BY <1>21, <1>22

-----------------------------------------------------------------------------
(* The calls, one by one.                                                  *)
Mem == DOMAIN sl.at \ {header}

(* The step of the function lua calls, seen as one of the set of members.  *)
LEMMA InsertStep ==
  ASSUME ListAssumption, ShapeKept(sl), NEW e \in Listable, NEW level \in slRandomLevel,
         _insert(e, level)
  PROVE  ShapeKept(sl') /\ Mem' = Mem \cup {e}
  <1>1. PICK q, hi : Shape(sl, q, hi, sl.length)
    BY DEF ShapeKept
  <1> DEFINE n == sl.length
  <1>2. Mem = Members(q, n) /\ Ordered(q, n) /\ header \in DOMAIN sl.at /\ n \in Nat
    BY <1>1, MembersAre DEF Mem, Ordered
  <1>3. e \notin Mem /\ sl' = slInsert(sl, e, level) /\ e # header
    BY DEF _insert, Mem, Listable, header
  <1>4. PICK k \in 0..n : Splits(q, n, k, e)
    BY <1>2, <1>3, FirstBefore
  <1>5. /\ Shape(sl', PutAt(q, n, k, e), PutAt(hi, n, k, level), n + 1)
        /\ DOMAIN sl'.at = DOMAIN sl.at \cup {e}
    BY <1>1, <1>3, <1>4, InsertIs DEF slRandomLevel
  <1>6. sl'.length = n + 1
    BY <1>5 DEF Shape
  <1> QED
    BY <1>3, <1>5, <1>6 DEF ShapeKept, Mem

(* The same of a deletion.                                                 *)
LEMMA DeleteStep ==
  ASSUME ListAssumption, ShapeKept(sl), NEW e \in Listable, _delete(e)
  PROVE  /\ ShapeKept(sl') /\ Mem' = Mem \ {e}
         /\ answer' = Answer(<<e>>, IF e \in Mem THEN <<e>> ELSE <<>>)
  <1>1. PICK q, hi : Shape(sl, q, hi, sl.length)
    BY DEF ShapeKept
  <1>2. Mem = Members(q, sl.length)
    BY <1>1, MembersAre DEF Mem
  <1>3. sl' = slDelete(sl, e).list /\ answer' = Answer(<<e>>, slDelete(sl, e).removed)
    BY DEF _delete
  <1>4. /\ ShapeKept(slDelete(sl, e).list)
        /\ DOMAIN slDelete(sl, e).list.at \ {header} = Members(q, sl.length) \ {e}
        /\ slDelete(sl, e).removed = IF e \in Members(q, sl.length) THEN <<e>> ELSE <<>>
    BY <1>1, DeleteOne
  <1> QED
    BY <1>2, <1>3, <1>4 DEF Mem

(* The members that go and those that stay.                                *)
LEMMA RangeOut ==
  ASSUME ListAssumption, NEW n, NEW q, Ordered(q, n), NEW k \in 0..n, NEW j \in 0..n - k
  PROVE  Members(CutOut(q, n, k, j), n - j) = Members(q, n) \ {q[k + i] : i \in 1..j}
  <1> DEFINE g == CutOut(q, n, k, j)
             out == {q[k + i] : i \in 1..j}
  <1>1. n \in Nat /\ k \in Nat /\ j \in Nat /\ k <= n /\ j <= n - k
    BY DEF Ordered
  <1>2. \A p \in 0..n - j : g[p] = IF p <= k THEN q[p] ELSE q[p + j]
    BY DEF CutOut
  <1> HIDE DEF g
  <1>3. ASSUME NEW p \in 1..n - j PROVE g[p] \in Members(q, n) /\ g[p] \notin out
    <2> DEFINE t == IF p <= k THEN p ELSE p + j
    <2>1. p \in 0..n - j /\ t \in 1..n /\ t \in 0..n /\ \A i \in 1..j : k + i \in 0..n /\ k + i # t
      BY <1>1
    <2>2. g[p] = q[t]
      BY <1>2, <2>1
    <2> HIDE DEF t
    <2>3. \A i \in 1..j : q[k + i] # q[t]
      BY <2>1, OneToOne
    <2> QED
      BY <2>1, <2>2, <2>3 DEF Members
  <1>4. ASSUME NEW t \in 1..n, q[t] \notin out PROVE \E p \in 1..n - j : q[t] = g[p]
    <2>1. CASE t <= k
      <3>1. t \in 1..n - j /\ t \in 0..n - j
        BY <1>1, <2>1
      <3> QED
        BY <1>2, <2>1, <3>1
    <2>2. CASE t > k /\ t <= k + j
      <3>1. t - k \in 1..j /\ k + (t - k) = t
        BY <1>1, <2>2
      <3> QED
        BY <1>4, <3>1
    <2>3. CASE t > k + j
      <3>1. t - j \in 1..n - j /\ t - j \in 0..n - j /\ ~ (t - j <= k) /\ (t - j) + j = t
        BY <1>1, <2>3
      <3> QED
        BY <1>2, <3>1
    <2> QED
      BY <1>1, <2>1, <2>2, <2>3
  <1> QED
    BY <1>3, <1>4 DEF Members, g

(* A call for ranks has removed j of the objects q, those behind k.        *)
RangeIs(deleted, start, end, q, n, k, j) ==
  /\ Ordered(q, n) /\ Mem = Members(q, n) /\ Deleted(start, end, n, k, j)
  /\ ShapeKept(deleted.list) /\ deleted.removed = RunOf(q, k, j)
  /\ DOMAIN deleted.list.at \ {header} = Mem \ {q[k + i] : i \in 1..j}

(* The same of a range of ranks.                                           *)
LEMMA RangeStep ==
  ASSUME ListAssumption, ShapeKept(sl), NEW start \in Nat, NEW end \in Nat
  PROVE  \E q : \E k, j \in Nat : RangeIs(slDeleteByRank(sl, start, end), start, end, q, sl.length, k, j)
  <1> DEFINE n == sl.length
             deleted == slDeleteByRank(sl, start, end)
  <1>1. PICK q, hi : Shape(sl, q, hi, n)
    BY DEF ShapeKept
  <1>2. Mem = Members(q, n) /\ Ordered(q, n)
    BY <1>1, MembersAre DEF Mem
  <1>a. PICK k, j \in Nat : DeletedIs(deleted, start, end, q, hi, n, k, j)
    BY <1>1, DeleteRange
  <1> HIDE DEF n, deleted
  <1>3. /\ Deleted(start, end, n, k, j)
        /\ Shape(deleted.list, CutOut(q, n, k, j), CutOut(hi, n, k, j), n - j)
        /\ deleted.removed = RunOf(q, k, j)
    BY <1>a DEF DeletedIs
  <1>4. DOMAIN deleted.list.at \ {header} = Members(CutOut(q, n, k, j), n - j) /\ deleted.list.length = n - j
    BY <1>3, MembersAre
  <1>5. ShapeKept(deleted.list)
    BY <1>3, <1>4 DEF ShapeKept
  <1>6. Members(CutOut(q, n, k, j), n - j) = Members(q, n) \ {q[k + i] : i \in 1..j}
    <2>1. k \in 0..n /\ j \in 0..n - k
      BY <1>3 DEF Deleted
    <2> QED
      BY <1>2, <2>1, RangeOut
  <1>7. RangeIs(deleted, start, end, q, n, k, j)
    BY <1>2, <1>3, <1>4, <1>5, <1>6 DEF RangeIs
  <1> QED
    BY <1>7 DEF n, deleted

(* Whatever is called, the list keeps its shape.                           *)
LEMMA InitShape == ListAssumption /\ Init => ShapeKept(sl)
  <1> SUFFICES ASSUME ListAssumption, Init PROVE ShapeKept(sl)
    OBVIOUS
  <1>1. sl = slCreate /\ slCreate.length = 0
    BY DEF Init, slCreate
  <1> QED
    BY <1>1, CreateIs DEF ShapeKept

(* Every step keeps the shape.                                             *)
LEMMA NextShape == ListAssumption /\ ShapeKept(sl) /\ [Next]_vars => ShapeKept(sl')
  <1> SUFFICES ASSUME ListAssumption, ShapeKept(sl), [Next]_vars PROVE ShapeKept(sl')
    OBVIOUS
  <1>1. ASSUME NEW e \in Listable, NEW level \in slRandomLevel, _insert(e, level)
        PROVE  ShapeKept(sl')
    BY <1>1, InsertStep
  <1>2. ASSUME NEW e \in Listable, _delete(e) PROVE ShapeKept(sl')
    BY <1>2, DeleteStep
  <1>3. ASSUME NEW r1 \in 0..N, NEW r2 \in 0..N, _delete_by_rank(r1, r2) PROVE ShapeKept(sl')
    <2>1. r1 \in Nat /\ r2 \in Nat
      BY DEF ListAssumption
    <2>2. ShapeKept(slDeleteByRank(sl, r1, r2).list) /\ ShapeKept(slDeleteByRank(sl, r2, r1).list)
      BY <2>1, RangeStep DEF RangeIs
    <2>3. sl' = slDeleteByRank(sl, r1, r2).list \/ sl' = slDeleteByRank(sl, r2, r1).list
      BY <1>3 DEF _delete_by_rank
    <2> QED
      BY <2>2, <2>3
  <1>4. CASE UNCHANGED vars
    BY <1>4 DEF vars
  <1> QED
    BY <1>1, <1>2, <1>3, <1>4 DEF Next

(* A part of a sequence is a function on the numbers of its elements.      *)
LEMMA SubSeqIs ==
  ASSUME NEW S, NEW f, NEW low \in Int, NEW high \in Int, \A i \in low..high : f[i] \in S
  PROVE  SubSeq(f, low, high) =
           [i \in 1..(IF low <= high THEN (high - low) + 1 ELSE 0) |-> f[(low + i) - 1]]
  <1> DEFINE m == IF low <= high THEN (high - low) + 1 ELSE 0
             s == SubSeq(f, low, high)
  <1>1. s \in Seq(S) /\ Len(s) = m /\ \A i \in 1..(high - low) + 1 : s[i] = f[(low + i) - 1]
    BY SubSeqProperties
  <1>2. m \in Nat /\ \A i \in 1..m : i \in 1..(high - low) + 1
    OBVIOUS
  <1> HIDE DEF s, m
  <1>3. s = [i \in 1..m |-> s[i]]
    BY <1>1, <1>2
  <1>4. [i \in 1..m |-> s[i]] = [i \in 1..m |-> f[(low + i) - 1]]
    BY <1>1, <1>2
  <1> QED
    BY <1>3, <1>4 DEF s, m

(* What the abstract set removes, and in which order.                      *)
LEMMA AbstractRange ==
  ASSUME ListAssumption, NEW n, NEW q, Ordered(q, n), Mem = Members(q, n),
         NEW start \in Nat, NEW end \in Nat, start <= end, NEW k \in Nat, NEW j \in Nat,
         Deleted(start, end, n, k, j)
  PROVE  List!slDeleteByRank(start, end) = RunOf(q, k, j)
  <1> DEFINE low == IF start = 0 THEN 1 ELSE start
             high == IF end < n THEN end ELSE n
             f == [r \in 1..n |-> q[r]]
  <1>1. n \in Nat /\ n \in 0..n /\ Mem = DOMAIN sl.at \ {header}
    BY DEF Ordered, Mem
  <1>2. List!Sorted(Mem) = f /\ List!Cardinality(Mem) = n
    <2>1. Cardinality(Members(q, n)) = n
      BY <1>1, Counted
    <2>2. List!Cardinality(Mem) = Cardinality(Mem)
      BY SameCounts
    <2>3. List!Sorted(Members(q, n)) = f
      BY SortedIs DEF ObjectsOf
    <2> HIDE DEF f
    <2> QED
      BY <2>1, <2>2, <2>3
  <1>3. List!slDeleteByRank(start, end) = SubSeq(f, low, high)
    BY <1>1, <1>2 DEF List!slDeleteByRank
  <1>4. /\ k <= n /\ j <= n - k /\ (j = n - k \/ k + j + 1 > end) /\ (j = 0 \/ k + j <= end)
        /\ \A p \in 1..n : p < start <=> p <= k
    BY <1>1 DEF Deleted
  <1>5. low \in Nat /\ high \in Nat /\ (j > 0 => low = k + 1 /\ high = k + j) /\ (j = 0 => high < low)
    <2>1. k # 0 => k \in 1..n /\ k < start
      BY <1>1, <1>4
    <2>2. k # n => k + 1 \in 1..n /\ ~ (k + 1 <= k) /\ ~ (k + 1 < start)
      BY <1>1, <1>4
    <2> QED
      BY <1>1, <1>4, <2>1, <2>2
  <1>a. \A i \in low..high : f[i] \in 0..N
    BY <1>1 DEF Ordered
  <1> HIDE DEF low, high, f
  <1>6. SubSeq(f, low, high) = [i \in 1..(IF low <= high THEN (high - low) + 1 ELSE 0) |-> f[(low + i) - 1]]
    BY <1>5, <1>a, SubSeqIs
  <1>7. CASE j = 0
    <2>1. (IF low <= high THEN (high - low) + 1 ELSE 0) = j /\ 1..j = {}
      BY <1>5, <1>7
    <2> QED
      BY <1>3, <1>6, <2>1 DEF RunOf
  <1>8. CASE j > 0
    <2>1. (IF low <= high THEN (high - low) + 1 ELSE 0) = j
      BY <1>1, <1>4, <1>5, <1>8
    <2>2. \A i \in 1..j : (low + i) - 1 = k + i /\ k + i \in 1..n
      BY <1>1, <1>4, <1>5, <1>8
    <2>3. \A i \in 1..j : f[(low + i) - 1] = q[k + i]
      BY <2>2 DEF f
    <2> QED
      BY <1>3, <1>6, <2>1, <2>3 DEF RunOf
  <1> QED
    BY <1>7, <1>8

-----------------------------------------------------------------------------
(* Every step of the list is a step of the sorted set.                     *)
LEMMA Assumed == ListAssumption
  BY StructuresAssumption

(* An empty list is an empty set.                                          *)
LEMMA InitRefines == Init => List!Init
  <1> SUFFICES ASSUME Init PROVE List!Init
    OBVIOUS
  <1>1. DOMAIN sl.at = {header} /\ answer = Answer(<<>>, <<>>)
    BY DEF Init, slCreate
  <1> QED
    BY <1>1 DEF List!Init, List!slCreate, List!Answer, Answer

(* A step of the list is a step of the set.                                *)
LEMMA StepRefines == ShapeKept(sl) /\ Next => List!Next
  <1> SUFFICES ASSUME ShapeKept(sl), Next PROVE List!Next
    OBVIOUS
  <1> USE Assumed
  <1>1. ASSUME NEW e \in Listable, NEW level \in slRandomLevel, _insert(e, level) PROVE List!Next
    <2>1. Mem' = Mem \cup {e}
      BY <1>1, InsertStep
    <2>2. (\A x \in Mem : ~ (ptr[x] = ptr[e])) /\ answer' = Answer(<<>>, <<>>)
      BY <1>1 DEF _insert, Mem
    <2>3. List!slInsert(e)
      BY <2>1, <2>2 DEF List!slInsert, List!Answer, Answer, Mem
    <2> QED
      BY <2>3 DEF List!Next
  <1>2. ASSUME NEW e \in Listable, _delete(e) PROVE List!Next
    <2>1. Mem' = Mem \ {e} /\ answer' = Answer(<<e>>, IF e \in Mem THEN <<e>> ELSE <<>>)
      BY <1>2, DeleteStep
    <2>2. List!Sorted({e} \cap Mem) = IF e \in Mem THEN <<e>> ELSE <<>>
      <3> DEFINE n == IF e \in Mem THEN 1 ELSE 0
                 q == [p \in 0..n |-> IF p = 0 THEN header ELSE e]
      <3>1. n \in Nat /\ 1 \in Int /\ e \in 0..N /\ 0 \in 0..N /\ (n = 1 \/ n = 0)
        BY DEF Listable, ListAssumption
      <3>2. Ordered(q, n)
        <4>1. q \in [0..n -> 0..N] /\ q[0] = header
          BY <3>1 DEF header
        <4>2. \A p \in 1..n : q[p] = e
          BY <3>1
        <4>3. \A a, b \in 1..n : ~ (a < b)
          BY <3>1
        <4> HIDE DEF q, n
        <4> QED
          BY <3>1, <4>1, <4>2, <4>3 DEF Ordered
      <3>3. Members(q, n) = {e} \cap Mem
        <4>1. CASE e \in Mem
          <5>1. n = 1 /\ 1..1 = {1} /\ q[1] = e
            BY <4>1
          <5> HIDE DEF q, n
          <5> QED
            BY <4>1, <5>1 DEF Members
        <4>2. CASE e \notin Mem
          <5>1. n = 0 /\ 1..0 = {}
            BY <4>2
          <5> HIDE DEF q, n
          <5> QED
            BY <4>2, <5>1 DEF Members
        <4> QED
          BY <4>1, <4>2
      <3>4. List!Sorted({e} \cap Mem) = [r \in 1..n |-> q[r]]
        <4> HIDE DEF q, n
        <4> QED
          <5>1. List!Sorted(Members(q, n)) = [r \in 1..n |-> q[r]]
            <6>1. List!Sorted(Members(q, n)) = ObjectsOf(q, n)
              BY <3>2, SortedIs
            <6> QED
              BY <6>1 DEF ObjectsOf
          <5> QED
            BY <3>3, <5>1
      <3>5. [r \in 1..n |-> q[r]] = IF e \in Mem THEN <<e>> ELSE <<>>
        <4>1. CASE e \in Mem
          <5>1. n = 1 /\ \A r \in 1..1 : q[r] = e
            BY <4>1
          <5> HIDE DEF q, n
          <5>2. [r \in 1..1 |-> q[r]] = [r \in 1..1 |-> e]
            BY <5>1
          <5>3. [r \in 1..1 |-> e] = <<e>>
            OBVIOUS
          <5> QED
            BY <4>1, <5>1, <5>2, <5>3
        <4>2. CASE e \notin Mem
          <5>1. n = 0 /\ 1..0 = {}
            BY <4>2
          <5> HIDE DEF q, n
          <5>2. [r \in 1..0 |-> q[r]] = <<>>
            OBVIOUS
          <5> QED
            BY <4>2, <5>1, <5>2
        <4> QED
          BY <4>1, <4>2
      <3> QED
        BY <3>4, <3>5
    <2>3. List!slDelete(e)
      BY <2>1, <2>2 DEF List!slDelete, List!Answer, Answer, Mem
    <2> QED
      BY <2>3 DEF List!Next
  <1>3. ASSUME NEW r1 \in 0..N, NEW r2 \in 0..N, _delete_by_rank(r1, r2) PROVE List!Next
    <2> DEFINE start == IF r1 > r2 THEN r2 ELSE r1
               end == IF r1 > r2 THEN r1 ELSE r2
               deleted == slDeleteByRank(sl, start, end)
    <2>1. start \in Nat /\ end \in Nat /\ start <= end
      BY DEF ListAssumption
    <2>2. sl' = deleted.list /\ answer' = Answer(<<r1, r2>>, deleted.removed)
      BY <1>3 DEF _delete_by_rank
    <2>3. (IF r1 > r2 THEN List!slDeleteByRank(r2, r1) ELSE List!slDeleteByRank(r1, r2))
            = List!slDeleteByRank(start, end)
      OBVIOUS
    <2> HIDE DEF start, end, deleted
    <2>4. PICK q : \E k, j \in Nat : RangeIs(deleted, start, end, q, sl.length, k, j)
      BY <2>1, RangeStep DEF deleted
    <2>5. PICK k, j \in Nat : RangeIs(deleted, start, end, q, sl.length, k, j)
      BY <2>4
    <2>6. List!slDeleteByRank(start, end) = RunOf(q, k, j)
      BY <2>1, <2>5, AbstractRange DEF RangeIs
    <2>7. List!ToSet(RunOf(q, k, j)) = {q[k + i] : i \in 1..j}
      BY DEF List!ToSet, RunOf
    <2>8. Mem' = Mem \ {q[k + i] : i \in 1..j} /\ deleted.removed = RunOf(q, k, j)
      BY <2>2, <2>5 DEF RangeIs, Mem
    <2>9. List!_delete_by_rank(r1, r2)
      <3> DEFINE out == RunOf(q, k, j)
      <3>1. Mem' = Mem \ List!ToSet(out) /\ answer' = Answer(<<r1, r2>>, out)
        BY <2>2, <2>7, <2>8
      <3>2. (IF r1 > r2 THEN List!slDeleteByRank(r2, r1) ELSE List!slDeleteByRank(r1, r2)) = out
        BY <2>3, <2>6
      <3> HIDE DEF out
      <3> QED
        BY <3>1, <3>2 DEF List!_delete_by_rank, List!Answer, Answer, Mem
    <2>10. List!Cardinality(Listable) = N
      <3>1. N \in Nat
        BY DEF ListAssumption
      <3>2. Cardinality(1..N) = N
        BY <3>1, FS_Interval
      <3> QED
        BY <3>2, SameCounts DEF Listable
    <2> QED
      BY <2>9, <2>10 DEF List!Next
  <1> QED
    BY <1>1, <1>2, <1>3 DEF Next

(* Whatever is done to the structures, the skip list is changed as a       *)
(* sorted set is: by timeskiplist.c's insertion, its deletion by object    *)
(* and its deletion by rank, whatever levels chance gave the nodes.        *)
THEOREM ListRefinement == STSpec => ImplementsSortedSet
  <1> USE Assumed
  <1>1. STInit => ShapeKept(sl) /\ List!Init
    BY InitShape, InitRefines DEF STInit
  <1>2. ShapeKept(sl) /\ [InList \/ InLogger \/ InTimer]_stVars => ShapeKept(sl)' /\ [List!Next]_(List!vars)
    <2> SUFFICES ASSUME ShapeKept(sl), [InList \/ InLogger \/ InTimer]_stVars
                 PROVE  ShapeKept(sl)' /\ [List!Next]_(List!vars)
      OBVIOUS
    <2>1. Next \/ UNCHANGED vars
      BY DEF InList, InLogger, InTimer, stVars, vars
    <2>2. ShapeKept(sl')
      BY <2>1, NextShape
    <2>3. CASE Next
      BY <2>2, <2>3, StepRefines DEF ShapeKept
    <2>4. CASE UNCHANGED vars
      <3>1. UNCHANGED List!vars
        BY <2>4 DEF vars, List!vars
      <3> QED
        BY <2>2, <3>1 DEF ShapeKept
    <2> QED
      BY <2>1, <2>3, <2>4
  <1> QED
    BY <1>1, <1>2, PTL DEF STSpec, ImplementsSortedSet, List!Spec

-----------------------------------------------------------------------------
(* What is asked of a list of this shape.                                  *)
LEMMA MaxOf ==
  ASSUME NEW m \in Nat, NEW S \in SUBSET (1..m), S # {}
  PROVE  \E i \in S : \A j \in S : j <= i
  <1> DEFINE down == {x \in 0..m : m - x \in S}
  <1>1. PICK s \in S : TRUE
    OBVIOUS
  <1>2. m - s \in down /\ down \in SUBSET Nat
    <2>1. s \in 1..m
      OBVIOUS
    <2>2. m - s \in 0..m /\ m - (m - s) = s
      BY <2>1
    <2> QED
      BY <2>2
  <1>3. PICK x \in down : \A y \in down : x <= y
    BY <1>2, LeastOf
  <1>4. m - x \in S /\ x \in Nat
    BY <1>3
  <1>5. ASSUME NEW j \in S PROVE j <= m - x
    <2>1. j \in 1..m
      OBVIOUS
    <2>2. m - j \in 0..m /\ m - (m - j) = j
      BY <2>1
    <2>3. x <= m - j
      BY <1>3, <2>2
    <2> QED
      BY <1>4, <2>1, <2>3
  <1> QED
    BY <1>4, <1>5

PartOf(q, k, m) == {q[k + i] : i \in 1..m}

(* Neighbours in the list, in the order of the abstract set.               *)
LEMMA SortedRun ==
  ASSUME ListAssumption, NEW n, NEW q, Ordered(q, n), NEW k \in Nat, NEW m \in Nat, k + m <= n
  PROVE  List!Sorted(PartOf(q, k, m)) = RunOf(q, k, m)
  <1> DEFINE g == [p \in 0..m |-> IF p = 0 THEN header ELSE q[k + p]]
  <1>1. /\ n \in Nat /\ q \in [0..n -> 0..N] /\ q[0] = header /\ N \in Nat /\ header \in 0..N
        /\ \A p \in 1..n : q[p] \in Listable
        /\ \A a, b \in 1..n : a < b => Before(q[a], q[b])
    BY DEF Ordered, ListAssumption, header
  <1>2. \A p \in 1..m : k + p \in 1..n /\ k + p \in 0..n /\ p \in 0..m /\ p # 0
    BY <1>1
  <1>3. Ordered(g, m)
    <2>1. g \in [0..m -> 0..N] /\ g[0] = header
      <3>1. \A p \in 0..m : p = 0 \/ p \in 1..m
        OBVIOUS
      <3> QED
        BY <1>1, <1>2, <3>1
    <2>2. \A p \in 1..m : g[p] = q[k + p] /\ g[p] \in Listable
      BY <1>1, <1>2
    <2>3. ASSUME NEW a \in 1..m, NEW b \in 1..m, a < b PROVE Before(g[a], g[b])
      <3>1. k + a < k + b
        BY <2>3
      <3> HIDE DEF g
      <3> QED
        BY <1>1, <1>2, <2>2, <3>1
    <2> HIDE DEF g
    <2> QED
      BY <2>1, <2>2, <2>3 DEF Ordered
  <1>4. \A p \in 1..m : g[p] = q[k + p]
    BY <1>2
  <1> HIDE DEF g
  <1>5. List!Sorted(Members(g, m)) = [r \in 1..m |-> g[r]]
    <2>1. List!Sorted(Members(g, m)) = ObjectsOf(g, m)
      BY <1>3, SortedIs
    <2> QED
      BY <2>1 DEF ObjectsOf
  <1>6. Members(g, m) = PartOf(q, k, m)
    BY <1>4 DEF Members, PartOf
  <1>7. [r \in 1..m |-> g[r]] = RunOf(q, k, m)
    BY <1>4 DEF RunOf
  <1> QED
    BY <1>5, <1>6, <1>7

(* The rank the abstract set gives an object.                              *)
LEMMA RankIs ==
  ASSUME ListAssumption, NEW q, NEW n, Ordered(q, n), Mem = Members(q, n)
  PROVE  /\ \A p \in 1..n : List!slGetRank(q[p]) = p
         /\ \A e : e \notin Mem => List!slGetRank(e) = 0
         /\ \A r \in 1..n : List!slGetNodeByRank(r) = <<q[r]>>
         /\ \A r \in Int : r \notin 1..n => List!slGetNodeByRank(r) = <<>>
         /\ List!Sorted(Mem) = [r \in 1..n |-> q[r]]
         /\ List!Cardinality(Mem) = n /\ Cardinality(Mem) = n
  <1>1. n \in Nat /\ n \in 0..n /\ Mem = DOMAIN sl.at \ {header}
    BY DEF Ordered, Mem
  <1> DEFINE f == [r \in 1..n |-> q[r]]
  <1>2. List!Sorted(Mem) = f
    <2>1. List!Sorted(Members(q, n)) = ObjectsOf(q, n)
      BY SortedIs
    <2> QED
      BY <2>1 DEF ObjectsOf
  <1>3. List!Cardinality(Mem) = n /\ Cardinality(Mem) = n
    <2>1. Cardinality(Members(q, n)) = n
      BY <1>1, Counted
    <2> QED
      BY <2>1, SameCounts
  <1>4. DOMAIN f = 1..n /\ \A r \in 1..n : f[r] = q[r]
    OBVIOUS
  <1> HIDE DEF f
  <1>5. ASSUME NEW p \in 1..n PROVE List!slGetRank(q[p]) = p
    <2>1. q[p] \in Mem /\ p \in 0..n
      BY <1>1 DEF Members
    <2>2. List!slGetRank(q[p]) = CHOOSE r \in 1..n : f[r] = q[p]
      BY <1>1, <1>2, <1>4, <2>1 DEF List!slGetRank
    <2>3. \A r \in 1..n : f[r] = q[p] => r = p
      <3>1. \A r \in 1..n : r \in 0..n
        BY <1>1
      <3> QED
        BY <1>4, <2>1, <3>1, OneToOne
    <2> QED
      BY <1>4, <2>2, <2>3
  <1>6. \A e : e \notin Mem => List!slGetRank(e) = 0
    BY <1>1 DEF List!slGetRank
  <1>7. \A r : List!slGetNodeByRank(r) = IF r \in 1..n THEN <<f[r]>> ELSE <<>>
    BY <1>1, <1>2, <1>4 DEF List!slGetNodeByRank
  <1> QED
    BY <1>2, <1>3, <1>4, <1>5, <1>6, <1>7 DEF f

-----------------------------------------------------------------------------
(* The nodes f[1], ..., f[m] are linked, in this order.                    *)
IsWay(link, m, f) ==
  \A i \in 1..m : f[i] # null /\ link[f[i]] = IF i = m THEN null ELSE f[i + 1]

WayStart(m, f) == IF m = 0 THEN null ELSE f[1]

(* Following links from node to node.                                      *)
LEMMA FollowIs ==
  ASSUME ListAssumption, NEW link, NEW m \in 0..N, NEW f \in [1..m -> Int],
         IsWay(link, m, f), NEW x, x = WayStart(m, f)
  PROVE  Follow(link, x) = f
  <1> USE DEF IsWay, WayStart
  <1> DEFINE first == [x |-> x, seen |-> <<>>]
             turn == CHOOSE g : g = [t \in Nat |-> IF t = 0 THEN first ELSE FollowTurn(link, g[t - 1])]
             State(c) == [x |-> IF c = m THEN null ELSE f[c + 1], seen |-> RunOf(f, 0, c)]
             P == {State(c) : c \in 0..m}
             step == [p \in P |-> FollowTurn(link, p)]
  <1>1. N \in Nat /\ m \in Nat /\ m <= N
    BY DEF ListAssumption
  <1>2. Follow(link, x) = turn[N].seen
    BY DEF Follow
  <1> HIDE DEF turn
  <1>3. first = State(0)
    <2>1. RunOf(f, 0, 0) = <<>>
      BY DEF RunOf
    <2> QED
      BY <1>1, <2>1
  <1>4. ASSUME NEW c \in 0..m
        PROVE  FollowTurn(link, State(c)) = State(IF c = m THEN m ELSE c + 1)
    <2>1. State(c).x = (IF c = m THEN null ELSE f[c + 1]) /\ State(c).seen = RunOf(f, 0, c)
      OBVIOUS
    <2> HIDE DEF State
    <2>2. CASE c = m
      BY <2>1, <2>2 DEF FollowTurn
    <2>3. CASE c # m
      <3>1. c + 1 \in 1..m /\ (c + 1) + 1 = c + 2 /\ c \in Nat
        BY <1>1, <2>3
      <3>2. State(c).x = f[c + 1] /\ State(c).x # null
        BY <2>1, <2>3, <3>1
      <3>3. FollowTurn(link, State(c)) = [x |-> link[f[c + 1]], seen |-> Append(RunOf(f, 0, c), f[c + 1])]
        BY <2>1, <3>2 DEF FollowTurn
      <3>4. Append(RunOf(f, 0, c), f[c + 1]) = RunOf(f, 0, c + 1)
        <4> DEFINE a == Append(RunOf(f, 0, c), f[c + 1])
        <4>0. \A i \in 1..c : i \in 1..m /\ 0 + i = i
          BY <1>1
        <4>1. RunOf(f, 0, c) = [i \in 1..c |-> f[i]]
          BY <4>0 DEF RunOf
        <4>a. [i \in 1..c |-> f[i]] \in Seq(Int) /\ Len([i \in 1..c |-> f[i]]) = c /\ f[c + 1] \in Int
          BY <3>1, <4>0
        <4>2. a \in Seq(Int) /\ Len(a) = c + 1 /\ \A i \in 1..c + 1 : a[i] = IF i = c + 1 THEN f[c + 1] ELSE f[i]
          <5>1. \A i \in 1..c + 1 : i # c + 1 => i \in 1..c
            BY <3>1
          <5> QED
            BY <3>1, <4>1, <4>a, <5>1
        <4> HIDE DEF a
        <4>3. a = [i \in 1..c + 1 |-> a[i]]
          BY <3>1, <4>2
        <4>4. \A i \in 1..c + 1 : a[i] = f[0 + i]
          BY <3>1, <4>2
        <4>5. a = RunOf(f, 0, c + 1)
          BY <4>3, <4>4 DEF RunOf
        <4> QED
          BY <4>5 DEF a
      <3>5. link[f[c + 1]] = IF c + 1 = m THEN null ELSE f[(c + 1) + 1]
        BY <3>1
      <3>6. State(c + 1) = [x |-> IF c + 1 = m THEN null ELSE f[(c + 1) + 1], seen |-> RunOf(f, 0, c + 1)]
        BY DEF State
      <3> QED
        BY <2>3, <3>3, <3>4, <3>5, <3>6
    <2> QED
      BY <2>2, <2>3
  <1>5. \A c \in 0..m : (IF c = m THEN m ELSE c + 1) \in 0..m
    BY <1>1
  <1> HIDE DEF State
  <1>6. first \in P /\ step \in [P -> P] /\ \A p \in P : step[p] = FollowTurn(link, p)
    <2>1. first \in P
      BY <1>1, <1>3
    <2>2. \A p \in P : FollowTurn(link, p) \in P
      BY <1>4, <1>5
    <2> QED
      BY <2>1, <2>2
  <1> HIDE DEF P, step, first
  <1>7. \E g : g = [t \in Nat |-> IF t = 0 THEN first ELSE FollowTurn(link, g[t - 1])]
    <2>1. PICK g \in [Nat -> P] : Loops(first, step, g)
      BY <1>6, LoopExists
    <2>2. ASSUME NEW t \in Nat PROVE g[t] = IF t = 0 THEN first ELSE FollowTurn(link, g[t - 1])
      <3>1. t # 0 => t - 1 \in Nat
        OBVIOUS
      <3>2. t # 0 => g[t - 1] \in P
        BY <2>1, <3>1
      <3> QED
        BY <1>6, <2>1, <3>2 DEF Loops
    <2>3. g = [t \in Nat |-> g[t]]
      BY <2>1
    <2> HIDE <2>1
    <2>4. [t \in Nat |-> g[t]] = [t \in Nat |-> IF t = 0 THEN first ELSE FollowTurn(link, g[t - 1])]
      BY <2>2
    <2> QED
      BY <2>3, <2>4
  <1>8. turn = [t \in Nat |-> IF t = 0 THEN first ELSE FollowTurn(link, turn[t - 1])]
    BY <1>7 DEF turn, first
  <1> DEFINE S == {t \in Nat : turn[t] = State(IF t < m THEN t ELSE m)}
  <1>9. 0 \in S
    BY <1>1, <1>3, <1>8
  <1>10. ASSUME NEW t \in S PROVE t + 1 \in S
    <2> DEFINE c == IF t < m THEN t ELSE m
    <2>1. t \in Nat /\ t + 1 \in Nat /\ t + 1 # 0 /\ (t + 1) - 1 = t /\ c \in 0..m
          /\ (IF c = m THEN m ELSE c + 1) = (IF t + 1 < m THEN t + 1 ELSE m)
      BY <1>1
    <2>2. turn[t + 1] = FollowTurn(link, turn[t])
      BY <1>8, <2>1
    <2>3. turn[t] = State(c)
      OBVIOUS
    <2> HIDE DEF c
    <2>4. turn[t + 1] = State(IF t + 1 < m THEN t + 1 ELSE m)
      BY <1>4, <2>1, <2>2, <2>3
    <2> QED
      BY <2>1, <2>4
  <1>11. N \in S
    <2> HIDE DEF S
    <2>1. S \in SUBSET Nat
      BY DEF S
    <2>2. \A t \in Nat : t \in S
      BY <1>9, <1>10, <2>1, Induct
    <2> QED
      BY <1>1, <2>2
  <1>12. turn[N] = State(m)
    <2>1. (IF N < m THEN N ELSE m) = m
      BY <1>1
    <2> QED
      BY <1>11, <2>1
  <1>13. RunOf(f, 0, m) = f
    <2>1. \A i \in 1..m : 0 + i = i
      BY <1>1
    <2>2. RunOf(f, 0, m) = [i \in 1..m |-> f[i]]
      BY <2>1 DEF RunOf
    <2> QED
      BY <2>2
  <1> QED
    BY <1>2, <1>12, <1>13 DEF State

(* The way forward from a node, and the way back.                          *)
LEMMA ChainIs ==
  ASSUME ListAssumption, NEW q, NEW hi, NEW n, Shape(sl, q, hi, n)
  PROVE  /\ \A p \in 1..n : Chain(q[p]) = RunOf(q, p - 1, (n - p) + 1)
         /\ \A p \in 1..n : Backwards(q[p]) = [i \in 1..p |-> q[(p + 1) - i]]
         /\ Chain(null) = <<>> /\ Backwards(null) = <<>>
         /\ _dump_out = [r \in 1..n |-> q[r]]
  <1> DEFINE forward == [y \in DOMAIN sl.at |-> sl.at[y].forward[1]]
             backward == [y \in DOMAIN sl.at |-> sl.at[y].backward]
  <1>1. /\ Ordered(q, n) /\ n \in Nat /\ q \in [0..n -> 0..N] /\ n \in 0..N /\ N \in Nat
        /\ DOMAIN sl.at = All(q, n) /\ q[0] = header
    <2>1. Ordered(q, n)
      BY DEF Shape
    <2>2. n \in 0..N
      BY <2>1, Few
    <2> QED
      BY <2>1, <2>2 DEF Shape, Ordered, ListAssumption
  <1>2. ASSUME NEW p \in 0..n PROVE q[p] \in Int /\ forward[q[p]] = NodeAt(q, n, p + 1)
    <2>1. q[p] \in DOMAIN sl.at
      BY <1>1 DEF All
    <2>2. forward[q[p]] = sl.at[q[p]].forward[1]
      BY <2>1
    <2>3. q[p] \in Int
      BY <1>1
    <2>4. sl.at[q[p]].forward[1] = NodeAt(q, n, p + 1)
      BY NextIs
    <2> HIDE DEF forward
    <2> QED
      BY <2>2, <2>3, <2>4
  <1>3. ASSUME NEW p \in 1..n
        PROVE  q[p] \in Int /\ q[p] # null /\ backward[q[p]] = IF p <= 1 THEN null ELSE q[p - 1]
    <2>1. p \in 0..n
      BY <1>1
    <2>2. q[p] \in DOMAIN sl.at /\ q[p] \in Int
      BY <1>1, <2>1 DEF All
    <2>3. NodeIs(sl.at[q[p]], sl.level, q, hi, n, p)
      BY <2>1 DEF Shape
    <2> QED
      BY <1>1, <2>2, <2>3, OneToOne DEF NodeIs
  <1>4. \A x : Chain(x) = Follow(forward, x) /\ Backwards(x) = Follow(backward, x)
    BY DEF Chain, Backwards
  <1> HIDE DEF forward, backward
  <1>5. ASSUME NEW link PROVE Follow(link, null) = <<>>
    <2> DEFINE f == [i \in 1..0 |-> 0]
    <2>1. f \in [1..0 -> Int] /\ 0 \in 0..N /\ \A i \in 1..0 : FALSE
      BY <1>1
    <2>a. IsWay(link, 0, f) /\ null = WayStart(0, f)
      BY <2>1 DEF IsWay, WayStart
    <2>2. f = <<>>
      OBVIOUS
    <2> HIDE DEF f
    <2>3. Follow(link, null) = f
      <3>1. f \in [1..0 -> Int] /\ 0 \in 0..N
        BY <2>1
      <3> QED
        BY <2>a, <3>1, FollowIs
    <2> QED
      BY <2>2, <2>3
  <1>6. ASSUME NEW p \in 1..n PROVE Chain(q[p]) = RunOf(q, p - 1, (n - p) + 1)
    <2> DEFINE m == (n - p) + 1
               f == [i \in 1..m |-> q[(p - 1) + i]]
    <2>1. m \in 0..N /\ m # 0 /\ 1 \in 1..m /\ (p - 1) + 1 = p
      BY <1>1
    <2>2. \A i \in 1..m : (p - 1) + i \in 0..n /\ (p - 1) + i \in 1..n
      BY <1>1
    <2>3. f \in [1..m -> Int]
      BY <1>2, <2>2
    <2>4. ASSUME NEW i \in 1..m PROVE f[i] # null /\ forward[f[i]] = IF i = m THEN null ELSE f[i + 1]
      <3> DEFINE t == (p - 1) + i
      <3>1. f[i] = q[t] /\ t \in 0..n /\ t \in 1..n
        BY <2>2
      <3>2. /\ t + 1 = n + 1 <=> i = m
            /\ i # m => i + 1 \in 1..m /\ (p - 1) + (i + 1) = t + 1
        BY <1>1
      <3>3. i # m => f[i + 1] = q[t + 1]
        BY <3>2
      <3> HIDE DEF f, t, m
      <3> QED
        BY <1>2, <1>3, <3>1, <3>2, <3>3 DEF NodeAt
    <2>5. q[p] = f[1]
      BY <2>1
    <2>a. f = RunOf(q, p - 1, m)
      BY DEF RunOf
    <2> HIDE DEF f, m
    <2>6. Follow(forward, q[p]) = f
      <3>1. q[p] = WayStart(m, f) /\ IsWay(forward, m, f)
        BY <2>1, <2>4, <2>5 DEF WayStart, IsWay
      <3>2. m \in 0..N
        BY <2>1
      <3> QED
        BY <2>3, <3>1, <3>2, FollowIs
    <2> QED
      BY <1>4, <2>6, <2>a DEF m
  <1>7. ASSUME NEW p \in 1..n PROVE Backwards(q[p]) = [i \in 1..p |-> q[(p + 1) - i]]
    <2> DEFINE f == [i \in 1..p |-> q[(p + 1) - i]]
    <2>1. p \in 0..N /\ p # 0 /\ 1 \in 1..p /\ (p + 1) - 1 = p
      BY <1>1
    <2>2. \A i \in 1..p : (p + 1) - i \in 1..n
      BY <1>1
    <2>3. f \in [1..p -> Int]
      BY <1>3, <2>2
    <2>4. ASSUME NEW i \in 1..p PROVE f[i] # null /\ backward[f[i]] = IF i = p THEN null ELSE f[i + 1]
      <3> DEFINE t == (p + 1) - i
      <3>1. f[i] = q[t] /\ t \in 1..n
        BY <2>2
      <3>2. /\ t <= 1 <=> i = p
            /\ i # p => i + 1 \in 1..p /\ (p + 1) - (i + 1) = t - 1
        BY <1>1
      <3>3. i # p => f[i + 1] = q[t - 1]
        BY <3>2
      <3> HIDE DEF f, t
      <3> QED
        BY <1>3, <3>1, <3>2, <3>3
    <2>5. q[p] = f[1]
      BY <2>1
    <2> HIDE DEF f
    <2>6. Follow(backward, q[p]) = f
      <3>1. q[p] = WayStart(p, f) /\ IsWay(backward, p, f)
        BY <2>1, <2>4, <2>5 DEF WayStart, IsWay
      <3>2. p \in 0..N
        BY <2>1
      <3> QED
        BY <2>3, <3>1, <3>2, FollowIs
    <2> QED
      BY <1>4, <2>6 DEF f
  <1>8. _dump_out = [r \in 1..n |-> q[r]]
    <2>1. _dump_out = Chain(NodeAt(q, n, 1))
      <3>1. 0 \in 0..n /\ 0 + 1 = 1
        BY <1>1
      <3>2. sl.at[header].forward[1] = NodeAt(q, n, 1)
        BY <1>1, <3>1, NextIs
      <3> QED
        BY <3>2 DEF _dump_out
    <2>2. CASE n = 0
      <3>1. NodeAt(q, n, 1) = null
        BY <2>2 DEF NodeAt
      <3>2. [r \in 1..0 |-> q[r]] = <<>>
        OBVIOUS
      <3> QED
        BY <1>4, <1>5, <2>1, <2>2, <3>1, <3>2
    <2>3. CASE n # 0
      <3>1. NodeAt(q, n, 1) = q[1] /\ 1 \in 1..n /\ 1 - 1 = 0 /\ (n - 1) + 1 = n
        BY <1>1, <2>3 DEF NodeAt
      <3>2. \A r \in 1..n : 0 + r = r
        BY <1>1
      <3>3. RunOf(q, 0, n) = [r \in 1..n |-> q[r]]
        BY <3>2 DEF RunOf
      <3> QED
        BY <1>6, <2>1, <3>1, <3>3
    <2> QED
      BY <2>2, <2>3
  <1> QED
    BY <1>4, <1>5, <1>6, <1>7, <1>8

(* Every span is the distance to the next node on its level.               *)
LEMMA SpansAre == ListAssumption /\ ShapeKept(sl) => SpansAreRight
  <1> SUFFICES ASSUME ListAssumption, ShapeKept(sl) PROVE SpansAreRight
    OBVIOUS
  <1> DEFINE n == sl.length
             nodes == DOMAIN sl.at \ {header}
             Height(x) == Len(sl.at[x].forward)
             Next1(x, i) == {y \in nodes : Rank(y) > Rank(x) /\ Height(y) >= i}
  <1>1. PICK q, hi : Shape(sl, q, hi, n)
    BY DEF ShapeKept
  <1>2. /\ Ordered(q, n) /\ n \in Nat /\ Mem = Members(q, n) /\ nodes = Members(q, n) /\ Mem = nodes
        /\ DOMAIN sl.at = All(q, n) /\ q[0] = header
        /\ Heights(hi, n, sl.level) /\ hi \in [0..n -> 1..SKIPLIST_MAXLEVEL] /\ SKIPLIST_MAXLEVEL \in Nat
        /\ sl.level \in 1..SKIPLIST_MAXLEVEL
        /\ \A p \in 1..n : hi[p] <= sl.level
    BY <1>1, MembersAre DEF Shape, Ordered, Mem, Heights, ListAssumption, Lists
  <1>3. \A p \in 0..n : Rank(q[p]) = p
    <2> SUFFICES ASSUME NEW p \in 0..n PROVE Rank(q[p]) = p
      OBVIOUS
    <2>1. CASE p = 0
      BY <1>2, <2>1 DEF Rank
    <2>2. CASE p # 0
      <3>1. p \in 1..n
        BY <1>2, <2>2
      <3>2. q[p] # header /\ q[p] # null
        BY <1>2, <3>1, OneToOne
      <3>3. List!slGetRank(q[p]) = p
        BY <1>2, <3>1, RankIs
      <3> QED
        BY <3>2, <3>3 DEF Rank
    <2> QED
      BY <2>1, <2>2
  <1>4. ASSUME NEW p \in 0..n
        PROVE  Height(q[p]) = hi[p] /\ hi[p] \in Nat /\ NodeIs(sl.at[q[p]], sl.level, q, hi, n, p)
    <2>1. NodeIs(sl.at[q[p]], sl.level, q, hi, n, p)
      BY <1>1 DEF Shape
    <2>2. hi[p] \in Nat
      BY <1>2
    <2>3. sl.at[q[p]].forward \in [1..hi[p] -> Int]
      BY <2>1 DEF NodeIs, ListNodes, Links
    <2> QED
      BY <2>1, <2>2, <2>3
  <1> HIDE DEF Height, n
  <1>5. ASSUME NEW p \in 0..n, NEW i \in Nat
        PROVE  /\ \A y \in Next1(q[p], i) : \E t \in p + 1..n : y = q[t] /\ hi[t] >= i
               /\ \A t \in p + 1..n : hi[t] >= i => q[t] \in Next1(q[p], i)
    <2>1. ASSUME NEW y \in Next1(q[p], i) PROVE \E t \in p + 1..n : y = q[t] /\ hi[t] >= i
      <3>1. PICK t \in 1..n : y = q[t]
        BY <1>2 DEF Members
      <3>2. t \in 0..n
        BY <1>2
      <3>3. Rank(y) = t /\ Height(y) = hi[t] /\ Rank(q[p]) = p
        BY <1>3, <1>4, <3>1, <3>2
      <3>4. t > p /\ hi[t] >= i
        BY <3>3
      <3>5. t \in p + 1..n
        BY <1>2, <3>4
      <3> QED
        BY <3>1, <3>4, <3>5
    <2>2. ASSUME NEW t \in p + 1..n, hi[t] >= i PROVE q[t] \in Next1(q[p], i)
      <3>1. t \in 1..n /\ t \in 0..n /\ t > p
        BY <1>2
      <3>2. Rank(q[t]) = t /\ Height(q[t]) = hi[t] /\ Rank(q[p]) = p /\ q[t] \in nodes
        BY <1>2, <1>3, <1>4, <3>1 DEF Members
      <3> QED
        BY <2>2, <3>1, <3>2
    <2> QED
      BY <2>1, <2>2
  <1> HIDE DEF Next1
  <1>6. n = Cardinality(nodes)
    BY <1>2, RankIs
  <1>7. sl.tail = IF nodes = {} THEN null ELSE Last(_dump_out)
    <2>1. sl.tail = (IF n = 0 THEN null ELSE q[n]) /\ _dump_out = [r \in 1..n |-> q[r]]
      BY <1>1, ChainIs DEF Shape
    <2>2. nodes = {} <=> n = 0
      <3>1. n # 0 => n \in 1..n
        BY <1>2
      <3>2. n = 0 => 1..n = {}
        BY <1>2
      <3>3. n # 0 => q[n] \in Members(q, n)
        BY <3>1 DEF Members
      <3>4. n = 0 => Members(q, n) = {}
        BY <3>2 DEF Members
      <3>5. nodes = Members(q, n)
        BY <1>2
      <3> HIDE DEF nodes
      <3> QED
        BY <3>3, <3>4, <3>5
    <2>3. n # 0 => Last([r \in 1..n |-> q[r]]) = q[n]
      BY <1>2 DEF Last
    <2> QED
      BY <2>1, <2>2, <2>3
  <1>8. ASSUME NEW x \in nodes PROVE Height(x) <= sl.level
    <2>1. PICK p \in 1..n : x = q[p]
      BY <1>2 DEF Members
    <2>2. p \in 0..n
      BY <1>2
    <2> QED
      BY <1>2, <1>4, <2>1, <2>2
  <1>9. ASSUME NEW x \in DOMAIN sl.at, NEW i \in 1..sl.level, i <= Height(x)
        PROVE  LET next == sl.at[x].forward[i] IN
               /\ IF Next1(x, i) = {} THEN next = null
                  ELSE next \in Next1(x, i) /\ \A y \in Next1(x, i) : Rank(next) <= Rank(y)
               /\ sl.at[x].span[i] = (IF next = null THEN sl.length ELSE Rank(next)) - Rank(x)
    <2>1. PICK p \in 0..n : x = q[p]
      BY <1>2 DEF All
    <2>2. i \in 1..hi[p] /\ i <= sl.level /\ i \in Nat
      BY <1>2, <1>4, <1>9, <2>1
    <2>3. PICK r \in 1..n + 1 : /\ Leads(hi, n, p, i, r)
                                /\ sl.at[x].forward[i] = NodeAt(q, n, r)
                                /\ sl.at[x].span[i] = Upto(n, r) - p
      BY <1>4, <2>1, <2>2 DEF NodeIs
    <2>4. r \in p + 1..n + 1 /\ (r <= n => hi[r] >= i) /\ \A t \in p + 1..r - 1 : hi[t] < i
      BY <2>3 DEF Leads
    <2>5. Rank(x) = p /\ sl.length = n
      BY <1>3, <2>1 DEF n
    <2>6. CASE r = n + 1
      <3>1. sl.at[x].forward[i] = null /\ sl.at[x].span[i] = n - p
        BY <2>3, <2>6 DEF NodeAt, Upto
      <3>2. Next1(x, i) = {}
        <4> SUFFICES ASSUME NEW y \in Next1(x, i) PROVE FALSE
          OBVIOUS
        <4>1. PICK t \in p + 1..n : y = q[t] /\ hi[t] >= i
          BY <1>5, <2>1, <2>2
        <4>2. t \in p + 1..r - 1 /\ t \in 0..n
          BY <1>2, <2>6
        <4>3. hi[t] < i /\ hi[t] \in Nat
          BY <1>4, <2>4, <4>2
        <4> QED
          BY <2>2, <4>1, <4>3
      <3> QED
        BY <2>5, <3>1, <3>2
    <2>7. CASE r # n + 1
      <3>1. r \in 1..n /\ r \in 0..n /\ r \in p + 1..n /\ hi[r] >= i
        BY <1>2, <2>4, <2>7
      <3>2. sl.at[x].forward[i] = q[r] /\ sl.at[x].span[i] = r - p
        BY <2>3, <2>7 DEF NodeAt, Upto
      <3>3. q[r] # null /\ Rank(q[r]) = r
        BY <1>2, <1>3, <3>1, OneToOne
      <3>4. q[r] \in Next1(x, i)
        BY <1>5, <2>1, <2>2, <3>1
      <3>5. ASSUME NEW y \in Next1(x, i) PROVE Rank(q[r]) <= Rank(y)
        <4>1. PICK t \in p + 1..n : y = q[t] /\ hi[t] >= i
          BY <1>5, <2>1, <2>2
        <4>2. t \in 0..n /\ hi[t] \in Nat /\ Rank(y) = t
          <5>1. t \in 0..n
            BY <1>2
          <5> QED
            BY <1>3, <1>4, <4>1, <5>1
        <4>3. t \notin p + 1..r - 1
          BY <2>2, <2>4, <4>1, <4>2
        <4>4. r <= t
          BY <1>2, <3>1, <4>3
        <4> QED
          BY <3>3, <4>2, <4>4
      <3> QED
        BY <2>5, <3>2, <3>3, <3>4, <3>5
    <2> QED
      BY <2>6, <2>7
  <1>10. ASSUME NEW x \in nodes
         PROVE  sl.at[x].backward = IF Rank(x) = 1 THEN null ELSE List!slGetNodeByRank(Rank(x) - 1)[1]
    <2>1. PICK p \in 1..n : x = q[p]
      BY <1>2 DEF Members
    <2>2. p \in 0..n /\ Rank(x) = p
      <3>1. p \in 0..n
        BY <1>2
      <3> QED
        BY <1>3, <2>1, <3>1
    <2>3. sl.at[x].backward = IF p <= 1 THEN null ELSE q[p - 1]
      BY <1>4, <2>1, <2>2 DEF NodeIs
    <2>4. p # 1 => p - 1 \in 1..n /\ ~ (p <= 1)
      BY <1>2
    <2>5. p # 1 => List!slGetNodeByRank(p - 1) = <<q[p - 1]>>
      BY <1>2, <2>4, RankIs
    <2>6. p = 1 => p <= 1
      BY <2>1
    <2> QED
      BY <2>2, <2>3, <2>4, <2>5, <2>6
  <1>11. sl.length = Cardinality(nodes)
    BY <1>6 DEF n
  <1> QED
    BY <1>2, <1>7, <1>8, <1>9, <1>10, <1>11, Zenon DEF SpansAreRight, Height, Next1

(* A rank asked for.                                                       *)
LEMMA GetRankIs ==
  ASSUME ListAssumption, NEW q, NEW hi, NEW n, Shape(sl, q, hi, n), NEW e \in Listable, Asked(e)
  PROVE  slGetRank(e) = List!slGetRank(e)
  <1> DEFINE path == Descend(sl, UpToObj(e))
             hits == {i \in DOMAIN path : path[i].node # header /\ equalslObj(path[i].node, e)}
  <1>1. /\ Ordered(q, n) /\ n \in Nat /\ Mem = Members(q, n) /\ \A p \in 1..n : q[p] \in Listable
        /\ q[0] = header /\ sl.level \in Nat /\ Mem = DOMAIN sl.at \ {header}
    <2>1. sl.level \in 1..SKIPLIST_MAXLEVEL /\ Ordered(q, n)
      BY DEF Shape, Lists
    <2> QED
      BY <2>1, MembersAre DEF Ordered, Mem
  <1>2. ASSUME NEW x \in Mem PROVE equalslObj(x, e) <=> x = e
    <2>1. ptr[e] \in Int
      BY DEF ListAssumption, Listable
    <2>2. equalslObj(x, e) => x = e
      BY <1>1 DEF Asked
    <2> QED
      BY <2>1, <2>2 DEF equalslObj, compareslObj
  <1>3. PICK k \in 0..n : \A p \in 1..n : Before(q[p], e) \/ q[p] = e <=> p <= k
    <2> DEFINE D == {p \in 1..n : Before(q[p], e) \/ q[p] = e}
    <2>1. \A a, b \in 1..n : b \in D /\ a < b => a \in D
      <3> SUFFICES ASSUME NEW a \in 1..n, NEW b \in 1..n, Before(q[b], e) \/ q[b] = e, a < b
                   PROVE  Before(q[a], e)
        OBVIOUS
      <3>1. Before(q[a], q[b]) /\ q[a] \in Listable /\ q[b] \in Listable
        BY <1>1 DEF Ordered
      <3> QED
        BY <3>1, BeforeOrders
    <2>2. PICK k \in 0..n : \A p \in 1..n : p \in D <=> p <= k
      BY <1>1, <2>1, Threshold
    <2> QED
      BY <2>2
  <1>4. Path(q, hi, n, sl.level, k, path)
    <2>1. ASSUME NEW p \in 1..n PROVE UpToObj(e)[<<q[p], p>>] <=> p <= k
      <3>1. q[p] \in Listable /\ p \in Int /\ q[p] \in Mem
        BY <1>1 DEF Members
      <3>2. UpToObj(e)[<<q[p], p>>] =
              (Before(q[p], e) \/ (score[q[p]] = score[e] /\ equalslObj(q[p], e)))
        BY <3>1 DEF UpToObj, Places
      <3>3. score[q[p]] = score[e] /\ equalslObj(q[p], e) <=> q[p] = e
        BY <1>2, <3>1
      <3> QED
        BY <1>3, <3>2, <3>3
    <2> QED
      BY <2>1, DescendIs
  <1>5. slGetRank(e) = IF hits = {} THEN 0 ELSE path[CHOOSE i \in hits : \A j \in hits : j <= i].rank
    BY DEF slGetRank
  <1> HIDE DEF path
  <1>6. ASSUME NEW i \in 1..sl.level
        PROVE  /\ path[i].rank \in 0..k /\ path[i].node = q[path[i].rank] /\ DOMAIN path = 1..sl.level
               /\ path[i].node # header => path[i].node \in Mem
    <2>1. path[i].rank \in 0..k /\ path[i].node = q[path[i].rank] /\ DOMAIN path = 1..sl.level
      BY <1>4 DEF Path, LastAt
    <2>2. path[i].rank = 0 \/ path[i].rank \in 1..n
      BY <1>1, <2>1
    <2> QED
      BY <1>1, <2>1, <2>2 DEF Members
  <1>7. DOMAIN path = 1..sl.level /\ 1 \in 1..sl.level /\ path[1].rank = k /\ path[1].node = q[k]
    BY <1>4, PathOne
  <1>8. \A i \in hits : path[i].node = e /\ e \in Mem /\ i \in 1..sl.level
    BY <1>2, <1>6, <1>7
  <1>9. CASE e \notin Mem
    <2>1. hits = {}
      BY <1>8, <1>9
    <2>2. List!slGetRank(e) = 0
      BY <1>1, <1>9, RankIs
    <2> QED
      BY <1>5, <2>1, <2>2
  <1>10. CASE e \in Mem
    <2>1. PICK d \in 1..n : q[d] = e
      BY <1>1, <1>10 DEF Members
    <2>2. d = k
      <3>1. d <= k
        BY <1>3, <2>1
      <3>2. k \in 1..n
        BY <1>1, <3>1
      <3>3. Before(q[k], e) \/ q[k] = e
        BY <1>1, <1>3, <3>2
      <3>4. k < d \/ k = d
        <4>1. k \in 0..n /\ d \in 0..n
          BY <1>1
        <4> QED
          BY <1>1, <2>1, <3>2, <3>3, <4>1, OneToOne
      <3> QED
        BY <1>1, <3>1, <3>4
    <2>3. 1 \in hits
      <3>1. e # header
        BY DEF Listable, header
      <3> QED
        BY <1>2, <1>7, <1>10, <2>1, <2>2, <3>1
    <2>4. hits \subseteq 1..sl.level
      BY <1>8
    <2> DEFINE top == CHOOSE i \in hits : \A j \in hits : j <= i
    <2> HIDE DEF hits
    <2>5. top \in hits
      BY <1>1, <2>3, <2>4, MaxOf
    <2>6. slGetRank(e) = path[top].rank
      BY <1>5, <2>3
    <2>7. path[top].rank \in 0..k /\ q[path[top].rank] = e
      BY <1>6, <1>8, <2>5
    <2>8. path[top].rank = d
      <3>1. path[top].rank \in 0..n /\ d \in 0..n
        BY <1>1, <2>7
      <3> QED
        BY <1>1, <2>1, <2>7, <3>1, OneToOne
    <2>9. List!slGetRank(e) = d
      BY <1>1, <2>1, RankIs
    <2> QED
      BY <2>6, <2>8, <2>9
  <1> QED
    BY <1>9, <1>10

(* A node asked for by its rank.                                           *)
LEMMA NodeByRankIs ==
  ASSUME ListAssumption, NEW q, NEW hi, NEW n, Shape(sl, q, hi, n), NEW r \in Nat
  PROVE  slGetNodeByRank(r) = IF r \in 1..n THEN q[r] ELSE null
  <1> DEFINE path == Descend(sl, RankUpTo(r))
             hits == {i \in DOMAIN path : path[i].rank = r}
  <1>1. /\ Ordered(q, n) /\ n \in Nat /\ \A p \in 1..n : q[p] \in Listable
        /\ sl.level \in Nat /\ sl.length = n
    BY DEF Shape, Ordered, Lists
  <1>2. slGetNodeByRank(r) = IF r = 0 \/ r > n \/ hits = {} THEN null
                             ELSE path[CHOOSE i \in hits : \A j \in hits : j <= i].node
    BY <1>1 DEF slGetNodeByRank
  <1>3. CASE r \notin 1..n
    <2>1. r = 0 \/ r > n
      BY <1>1, <1>3
    <2> QED
      BY <1>2, <1>3, <2>1
  <1>4. CASE r \in 1..n
    <2>1. r \in 0..n /\ ~ (r = 0 \/ r > n)
      BY <1>1, <1>4
    <2>2. Path(q, hi, n, sl.level, r, path)
      <3>1. ASSUME NEW p \in 1..n PROVE RankUpTo(r)[<<q[p], p>>] <=> p <= r
        <4>1. q[p] \in Listable /\ p \in Int
          BY <1>1
        <4> QED
          BY <4>1 DEF RankUpTo, Places
      <3> QED
        BY <2>1, <3>1, DescendIs
    <2> HIDE DEF path
    <2>3. DOMAIN path = 1..sl.level /\ 1 \in 1..sl.level /\ path[1].rank = r
      BY <2>1, <2>2, PathOne
    <2>4. 1 \in hits /\ hits \subseteq 1..sl.level
      BY <2>3
    <2>5. \A i \in hits : path[i].node = q[r]
      BY <2>2, <2>4 DEF Path
    <2> DEFINE top == CHOOSE i \in hits : \A j \in hits : j <= i
    <2> HIDE DEF hits
    <2>6. top \in hits
      BY <1>1, <2>4, MaxOf
    <2> QED
      BY <1>2, <1>4, <2>1, <2>4, <2>5, <2>6
  <1> QED
    BY <1>3, <1>4

-----------------------------------------------------------------------------
(* The scores go up along the list.                                        *)
LEMMA ScoresGoUp ==
  ASSUME ListAssumption, NEW q, NEW n, Ordered(q, n)
  PROVE  /\ \A p \in 1..n : score[q[p]] \in Int
         /\ \A a, b \in 1..n : a <= b => score[q[a]] <= score[q[b]]
  <1>1. n \in Nat /\ \A p \in 1..n : q[p] \in Listable
    BY DEF Ordered
  <1>2. \A p \in 1..n : score[q[p]] \in Int
    BY <1>1 DEF ListAssumption, Listable
  <1>3. ASSUME NEW a \in 1..n, NEW b \in 1..n, a <= b PROVE score[q[a]] <= score[q[b]]
    <2>1. CASE a = b
      BY <1>2, <2>1
    <2>2. CASE a # b
      <3>1. a < b
        BY <1>1, <1>3, <2>2
      <3>2. Before(q[a], q[b])
        BY <3>1 DEF Ordered
      <3> QED
        BY <1>1, <3>2, BeforeOrders
    <2> QED
      BY <2>1, <2>2
  <1> QED
    BY <1>2, <1>3

(* Whether there is a member in a range of scores, and the first and the   *)
(* last of them.                                                           *)
LEMMA InRangeIs ==
  ASSUME ListAssumption, NEW q, NEW hi, NEW n, Shape(sl, q, hi, n), NEW min \in Int, NEW max \in Int
  PROVE  /\ slIsInRange(min, max) <=> List!slIsInRange(min, max)
         /\ slIsInRange(min, max) <=>
              min <= max /\ n # 0 /\ score[q[n]] >= min /\ score[q[1]] <= max
  <1>1. /\ Ordered(q, n) /\ n \in Nat /\ Mem = Members(q, n) /\ q[0] = header
        /\ sl.tail = (IF n = 0 THEN null ELSE q[n]) /\ Mem = DOMAIN sl.at \ {header}
    BY MembersAre DEF Shape, Ordered, Mem
  <1>2. sl.at[header].forward[1] = NodeAt(q, n, 1)
    <2>1. 0 \in 0..n /\ 0 + 1 = 1
      BY <1>1
    <2> QED
      BY <1>1, <2>1, NextIs
  <1>3. CASE n = 0
    <2>1. sl.tail = null /\ 1..n = {}
      BY <1>1, <1>3
    <2>2. Mem = {}
      BY <1>1, <2>1 DEF Members
    <2> QED
      BY <1>1, <1>3, <2>1, <2>2 DEF slIsInRange, List!slIsInRange
  <1>4. CASE n # 0
    <2>1. 1 \in 1..n /\ n \in 1..n /\ \A p \in 1..n : 1 <= p /\ p <= n
      BY <1>1, <1>4
    <2>2. q[1] # null /\ q[n] # null /\ sl.tail = q[n] /\ sl.at[header].forward[1] = q[1]
      <3>1. 1 # n + 1
        BY <1>1, <1>4
      <3> QED
        BY <1>1, <1>2, <1>4, <2>1, <3>1, OneToOne DEF NodeAt
    <2>3. slIsInRange(min, max) <=> min <= max /\ score[q[n]] >= min /\ score[q[1]] <= max
      BY <2>2 DEF slIsInRange
    <2>4. \A p \in 1..n : /\ score[q[p]] \in Int /\ score[q[1]] <= score[q[p]]
                          /\ score[q[p]] <= score[q[n]]
      BY <1>1, <2>1, ScoresGoUp
    <2>5. (\E m \in Mem : score[m] >= min) <=> score[q[n]] >= min
      <3>1. ASSUME NEW m \in Mem, score[m] >= min PROVE score[q[n]] >= min
        <4>1. PICK p \in 1..n : m = q[p]
          BY <1>1 DEF Members
        <4> QED
          BY <2>1, <2>4, <3>1, <4>1
      <3>2. q[n] \in Mem
        BY <1>1, <2>1 DEF Members
      <3> QED
        BY <3>1, <3>2
    <2>6. (\E m \in Mem : score[m] <= max) <=> score[q[1]] <= max
      <3>1. ASSUME NEW m \in Mem, score[m] <= max PROVE score[q[1]] <= max
        <4>1. PICK p \in 1..n : m = q[p]
          BY <1>1 DEF Members
        <4> QED
          BY <2>1, <2>4, <3>1, <4>1
      <3>2. q[1] \in Mem
        BY <1>1, <2>1 DEF Members
      <3> QED
        BY <3>1, <3>2
    <2>7. List!slIsInRange(min, max) <=>
            min <= max /\ (\E m \in Mem : score[m] >= min) /\ (\E m \in Mem : score[m] <= max)
      BY <1>1 DEF List!slIsInRange
    <2> QED
      BY <1>4, <2>3, <2>5, <2>6, <2>7
  <1> QED
    BY <1>3, <1>4

(* The first places hold the members up to a score, or below one.          *)
LEMMA UpToScore ==
  ASSUME ListAssumption, NEW q, NEW n, Ordered(q, n), NEW c \in Int
  PROVE  /\ \E k \in 0..n : \A p \in 1..n : score[q[p]] < c <=> p <= k
         /\ \E k \in 0..n : \A p \in 1..n : score[q[p]] <= c <=> p <= k
  <1>1. n \in Nat /\ \A p \in 1..n : score[q[p]] \in Int
    BY ScoresGoUp DEF Ordered
  <1>2. \A a, b \in 1..n : a < b => score[q[a]] <= score[q[b]]
    <2>1. \A a, b \in 1..n : a < b => a <= b
      BY <1>1
    <2> QED
      BY <2>1, ScoresGoUp
  <1>3. \E k \in 0..n : \A p \in 1..n : score[q[p]] < c <=> p <= k
    <2> DEFINE D == {p \in 1..n : score[q[p]] < c}
    <2>1. \A a, b \in 1..n : b \in D /\ a < b => a \in D
      BY <1>1, <1>2
    <2>2. PICK k \in 0..n : \A p \in 1..n : p \in D <=> p <= k
      BY <1>1, <2>1, Threshold
    <2> QED
      BY <2>2
  <1>4. \E k \in 0..n : \A p \in 1..n : score[q[p]] <= c <=> p <= k
    <2> DEFINE D == {p \in 1..n : score[q[p]] <= c}
    <2>1. \A a, b \in 1..n : b \in D /\ a < b => a \in D
      BY <1>1, <1>2
    <2>2. PICK k \in 0..n : \A p \in 1..n : p \in D <=> p <= k
      BY <1>1, <2>1, Threshold
    <2> QED
      BY <2>2
  <1> QED
    BY <1>3, <1>4

(* The first object with a score of min or more, k objects having less.    *)
LEMMA FirstInRangeIs ==
  ASSUME ListAssumption, NEW q, NEW hi, NEW n, Shape(sl, q, hi, n), NEW min \in Int, NEW max \in Int,
         NEW k \in 0..n, \A p \in 1..n : score[q[p]] < min <=> p <= k
  PROVE  /\ slFirstInRange(min, max) = IF slIsInRange(min, max) THEN q[k + 1] ELSE null
         /\ slIsInRange(min, max) => k + 1 \in 1..n
         /\ Found(slFirstInRange(min, max)) = List!slFirstInRange(min, max)
  <1>1. /\ Ordered(q, n) /\ n \in Nat /\ k \in Nat /\ k <= n /\ Mem = Members(q, n)
        /\ Mem = DOMAIN sl.at \ {header} /\ \A p \in 1..n : q[p] \in Listable
    <2>1. Ordered(q, n) /\ n \in Nat /\ \A p \in 1..n : q[p] \in Listable
      BY DEF Shape, Ordered
    <2>2. k \in Nat /\ k <= n
      BY <2>1
    <2> QED
      BY <2>1, <2>2, MembersAre DEF Mem
  <1>2. \A p \in 1..n : score[q[p]] \in Int
    BY <1>1, ScoresGoUp
  <1>3. CASE ~ slIsInRange(min, max)
    <2>1. slFirstInRange(min, max) = null /\ List!slFirstInRange(min, max) = <<>>
      BY <1>3, InRangeIs DEF slFirstInRange, List!slFirstInRange
    <2> QED
      BY <1>3, <2>1 DEF Found
  <1>4. CASE slIsInRange(min, max)
    <2>1. n # 0 /\ score[q[n]] >= min
      BY <1>4, InRangeIs
    <2>2. k + 1 \in 1..n /\ k + 1 # n + 1
      <3>1. n \in 1..n
        BY <1>1, <2>1
      <3>2. ~ (score[q[n]] < min)
        BY <1>2, <2>1, <3>1
      <3>3. ~ (n <= k)
        BY <3>1, <3>2
      <3> QED
        BY <1>1, <3>3
    <2>3. Path(q, hi, n, sl.level, k, Descend(sl, ScoreBelow(min)))
      <3>1. ASSUME NEW p \in 1..n PROVE ScoreBelow(min)[<<q[p], p>>] <=> p <= k
        <4>1. q[p] \in Listable /\ p \in Int
          BY <1>1
        <4> QED
          BY <4>1 DEF ScoreBelow, Places
      <3> QED
        BY <3>1, DescendIs
    <2>4. sl.at[Descend(sl, ScoreBelow(min))[1].node].forward[1] = NodeAt(q, n, k + 1)
      BY <2>3, PathOne
    <2>5. slFirstInRange(min, max) = q[k + 1]
      BY <1>4, <2>2, <2>4 DEF slFirstInRange, NodeAt
    <2>6. {m \in Mem : score[m] >= min} = {q[k + i] : i \in 1..n - k}
      <3>1. ASSUME NEW p \in 1..n, score[q[p]] >= min PROVE \E i \in 1..n - k : q[p] = q[k + i]
        <4>1. ~ (score[q[p]] < min)
          BY <1>2, <3>1
        <4>2. ~ (p <= k)
          BY <4>1
        <4>3. p - k \in 1..n - k /\ k + (p - k) = p
          BY <1>1, <4>2
        <4> QED
          BY <4>3
      <3>2. ASSUME NEW i \in 1..n - k PROVE q[k + i] \in Mem /\ score[q[k + i]] >= min
        <4>1. k + i \in 1..n /\ ~ (k + i <= k)
          BY <1>1
        <4>2. ~ (score[q[k + i]] < min) /\ q[k + i] \in Mem
          BY <1>1, <4>1 DEF Members
        <4> QED
          BY <1>2, <4>1, <4>2
      <3> QED
        BY <1>1, <3>1, <3>2 DEF Members
    <2>7. List!Sorted({m \in Mem : score[m] >= min}) = RunOf(q, k, n - k)
      <3>1. n - k \in Nat /\ k + (n - k) <= n
        BY <1>1
      <3>2. List!Sorted(PartOf(q, k, n - k)) = RunOf(q, k, n - k)
        BY <1>1, <3>1, SortedRun
      <3> QED
        BY <2>6, <3>2 DEF PartOf
    <2>8. RunOf(q, k, n - k)[1] = q[k + 1]
      <3>1. 1 \in 1..n - k
        BY <1>1, <2>2
      <3> QED
        BY <3>1 DEF RunOf
    <2>9. List!slFirstInRange(min, max) = <<List!Sorted({m \in Mem : score[m] >= min})[1]>>
      BY <1>1, <1>4, InRangeIs DEF List!slFirstInRange
    <2>10. q[k + 1] # null
      BY <1>1, <2>2, OneToOne
    <2> QED
      BY <1>4, <2>2, <2>5, <2>7, <2>8, <2>9, <2>10 DEF Found
  <1> QED
    BY <1>3, <1>4

(* The last object with a score of max or less, k objects having that.     *)
LEMMA LastInRangeIs ==
  ASSUME ListAssumption, NEW q, NEW hi, NEW n, Shape(sl, q, hi, n), NEW min \in Int, NEW max \in Int,
         NEW k \in 0..n, \A p \in 1..n : score[q[p]] <= max <=> p <= k
  PROVE  /\ slLastInRange(min, max) = IF slIsInRange(min, max) THEN q[k] ELSE null
         /\ slIsInRange(min, max) => k \in 1..n
         /\ Found(slLastInRange(min, max)) = List!slLastInRange(min, max)
  <1>1. /\ Ordered(q, n) /\ n \in Nat /\ k \in Nat /\ k <= n /\ Mem = Members(q, n)
        /\ Mem = DOMAIN sl.at \ {header} /\ \A p \in 1..n : q[p] \in Listable
    <2>1. Ordered(q, n) /\ n \in Nat /\ \A p \in 1..n : q[p] \in Listable
      BY DEF Shape, Ordered
    <2>2. k \in Nat /\ k <= n
      BY <2>1
    <2> QED
      BY <2>1, <2>2, MembersAre DEF Mem
  <1>2. \A p \in 1..n : score[q[p]] \in Int
    BY <1>1, ScoresGoUp
  <1>3. CASE ~ slIsInRange(min, max)
    <2>1. slLastInRange(min, max) = null /\ List!slLastInRange(min, max) = <<>>
      BY <1>3, InRangeIs DEF slLastInRange, List!slLastInRange
    <2> QED
      BY <1>3, <2>1 DEF Found
  <1>4. CASE slIsInRange(min, max)
    <2>1. n # 0 /\ score[q[1]] <= max
      BY <1>4, InRangeIs
    <2>2. k \in 1..n
      <3>1. 1 \in 1..n
        BY <1>1, <2>1
      <3>2. 1 <= k
        BY <2>1, <3>1
      <3> QED
        BY <1>1, <3>2
    <2>3. Path(q, hi, n, sl.level, k, Descend(sl, ScoreUpTo(max)))
      <3>1. ASSUME NEW p \in 1..n PROVE ScoreUpTo(max)[<<q[p], p>>] <=> p <= k
        <4>1. q[p] \in Listable /\ p \in Int
          BY <1>1
        <4> QED
          BY <4>1 DEF ScoreUpTo, Places
      <3> QED
        BY <3>1, DescendIs
    <2>4. Descend(sl, ScoreUpTo(max))[1].node = q[k]
      BY <2>3, PathOne
    <2>5. slLastInRange(min, max) = q[k]
      BY <1>4, <2>4 DEF slLastInRange
    <2>6. {m \in Mem : score[m] <= max} = {q[0 + i] : i \in 1..k}
      <3>0. \A i \in 1..k : 0 + i = i /\ i \in 1..n /\ i <= k
        BY <1>1
      <3>1. ASSUME NEW p \in 1..n, score[q[p]] <= max PROVE \E i \in 1..k : q[p] = q[0 + i]
        <4>1. p \in 1..k
          BY <1>1, <3>1
        <4> QED
          BY <3>0, <4>1
      <3>2. ASSUME NEW i \in 1..k PROVE q[0 + i] \in Mem /\ score[q[0 + i]] <= max
        BY <1>1, <3>0 DEF Members
      <3> QED
        BY <1>1, <3>1, <3>2 DEF Members
    <2>7. List!Sorted({m \in Mem : score[m] <= max}) = RunOf(q, 0, k)
      <3>1. 0 \in Nat /\ 0 + k <= n
        BY <1>1
      <3>2. List!Sorted(PartOf(q, 0, k)) = RunOf(q, 0, k)
        BY <1>1, <3>1, SortedRun
      <3> QED
        BY <2>6, <3>2 DEF PartOf
    <2>8. List!Last(RunOf(q, 0, k)) = q[k]
      <3>1. Len(RunOf(q, 0, k)) = k /\ k \in 1..k /\ 0 + k = k
        BY <1>1, <2>2 DEF RunOf
      <3>2. RunOf(q, 0, k)[k] = q[k]
        BY <3>1 DEF RunOf
      <3> QED
        BY <3>1, <3>2 DEF List!Last
    <2>9. List!slLastInRange(min, max) = <<List!Last(List!Sorted({m \in Mem : score[m] <= max}))>>
      BY <1>1, <1>4, InRangeIs DEF List!slLastInRange
    <2>10. q[k] # null
      BY <1>1, <2>2, OneToOne
    <2> QED
      BY <1>4, <2>2, <2>5, <2>7, <2>8, <2>9, <2>10 DEF Found
  <1> QED
    BY <1>3, <1>4

-----------------------------------------------------------------------------
(* Parts of the ways through the list.                                     *)
FirstOf(f, m) == [i \in 1..m |-> f[i]]
Backward(f, m) == [i \in 1..m |-> f[(m - i) + 1]]

(* The beginning of a way.                                                 *)
LEMMA CutRun ==
  ASSUME NEW f, NEW m \in Nat, NEW c \in Nat, NEW S, f \in [1..m -> S]
  PROVE  UpTo(f, c) = FirstOf(f, IF c < m THEN c ELSE m)
  <1> DEFINE b == IF c < m THEN c ELSE m
  <1>1. Len(f) = m /\ b \in Nat /\ b <= m
    OBVIOUS
  <1>2. UpTo(f, c) = SubSeq(f, 1, b)
    BY <1>1 DEF UpTo
  <1> HIDE DEF b
  <1>3. \A i \in 1..b : f[i] \in S /\ (1 + i) - 1 = i
    BY <1>1
  <1>4. SubSeq(f, 1, b) = [i \in 1..(IF 1 <= b THEN (b - 1) + 1 ELSE 0) |-> f[(1 + i) - 1]]
    BY <1>1, <1>3, SubSeqIs
  <1>5. (IF 1 <= b THEN (b - 1) + 1 ELSE 0) = b
    BY <1>1
  <1>6. [i \in 1..b |-> f[(1 + i) - 1]] = [i \in 1..b |-> f[i]]
    BY <1>3
  <1> QED
    BY <1>2, <1>4, <1>5, <1>6 DEF b, FirstOf

(* Ranks, upwards.                                                         *)
LEMMA RankRangeUp ==
  ASSUME ListAssumption, NEW q, NEW hi, NEW n, Shape(sl, q, hi, n), NEW r1 \in Nat, NEW r2 \in Nat,
         r1 <= r2
  PROVE  _get_rank_range(r1, r2) = List!_get_rank_range(r1, r2)
  <1>1. /\ Ordered(q, n) /\ n \in Nat /\ Mem = Members(q, n) /\ q \in [0..n -> 0..N]
        /\ Mem = DOMAIN sl.at \ {header}
    BY MembersAre DEF Shape, Ordered, Mem
  <1>2. List!Sorted(Mem) = [r \in 1..n |-> q[r]] /\ List!Cardinality(Mem) = n
    BY <1>1, RankIs
  <1>3. _get_rank_range(r1, r2) = UpTo(Chain(slGetNodeByRank(r1)), (r2 - r1) + 1) /\ (r2 - r1) + 1 \in Nat
    BY DEF _get_rank_range
  <1>4. CASE r1 \notin 1..n
    <2>1. slGetNodeByRank(r1) = null /\ Chain(null) = <<>> /\ (r1 = 0 \/ r1 > n)
      BY <1>1, <1>4, NodeByRankIs, ChainIs
    <2>2. UpTo(<<>>, (r2 - r1) + 1) = <<>>
      <3>1. Len(<<>>) = 0 /\ ~ ((r2 - r1) + 1 < 0)
        OBVIOUS
      <3>2. SubSeq(<<>>, 1, 0) = <<>>
        BY SubSeqEmpty
      <3> QED
        BY <3>1, <3>2 DEF UpTo
    <2>3. List!_get_rank_range(r1, r2) = <<>>
      BY <1>1, <1>2, <2>1 DEF List!_get_rank_range
    <2> QED
      BY <1>3, <2>1, <2>2, <2>3
  <1>5. CASE r1 \in 1..n
    <2> DEFINE m == (n - r1) + 1
               c == (r2 - r1) + 1
               high == IF r2 < n THEN r2 ELSE n
               f == [r \in 1..n |-> q[r]]
               g == RunOf(q, r1 - 1, m)
    <2>1. slGetNodeByRank(r1) = q[r1] /\ Chain(q[r1]) = g
      BY <1>5, NodeByRankIs, ChainIs
    <2>2. /\ m \in Nat /\ c \in Nat /\ high \in Int /\ r1 \in Int /\ ~ (r1 = 0 \/ r1 > n)
          /\ (IF c < m THEN c ELSE m) = (IF r1 <= high THEN (high - r1) + 1 ELSE 0)
      BY <1>1, <1>5
    <2>3. \A i \in 1..m : (r1 - 1) + i \in 1..n /\ (r1 - 1) + i = (r1 + i) - 1 /\ (r1 - 1) + i \in 0..n
      BY <1>1, <1>5
    <2>4. g \in [1..m -> 0..N] /\ \A i \in 1..m : g[i] = f[(r1 + i) - 1]
      BY <1>1, <2>3 DEF RunOf
    <2>5. \A i \in r1..high : f[i] \in 0..N
      BY <1>1, <1>5
    <2>6. \A i \in 1..(IF c < m THEN c ELSE m) : i \in 1..m
      BY <2>2
    <2>7. List!_get_rank_range(r1, r2) = SubSeq(f, r1, high)
      BY <1>1, <1>2, <2>2 DEF List!_get_rank_range
    <2> HIDE DEF f, g, c, m, high
    <2>8. UpTo(g, c) = FirstOf(g, IF c < m THEN c ELSE m)
      BY <2>2, <2>4, CutRun
    <2>9. SubSeq(f, r1, high) =
            [i \in 1..(IF r1 <= high THEN (high - r1) + 1 ELSE 0) |-> f[(r1 + i) - 1]]
      BY <2>2, <2>5, SubSeqIs
    <2>10. UpTo(g, c) = SubSeq(f, r1, high)
      BY <2>2, <2>4, <2>6, <2>8, <2>9 DEF FirstOf
    <2> QED
      BY <1>3, <2>1, <2>7, <2>10 DEF c
  <1> QED
    BY <1>4, <1>5

(* A sequence read from its end.                                           *)
LEMMA ReverseIs ==
  ASSUME NEW S, NEW m \in Nat, NEW f \in [1..m -> S]
  PROVE  List!Reverse(f) = Backward(f, m)
  <1>1. Len(f) = m
    OBVIOUS
  <1> QED
    BY <1>1 DEF List!Reverse, Backward

(* Ranks, downwards.                                                       *)
LEMMA RankRangeDown ==
  ASSUME ListAssumption, NEW q, NEW hi, NEW n, Shape(sl, q, hi, n), NEW r1 \in Nat, NEW r2 \in Nat,
         ~ (r1 <= r2)
  PROVE  _get_rank_range(r1, r2) = List!_get_rank_range(r1, r2)
  <1>1. /\ Ordered(q, n) /\ n \in Nat /\ Mem = Members(q, n) /\ q \in [0..n -> 0..N]
        /\ Mem = DOMAIN sl.at \ {header}
    BY MembersAre DEF Shape, Ordered, Mem
  <1>2. List!Sorted(Mem) = [r \in 1..n |-> q[r]] /\ List!Cardinality(Mem) = n
    BY <1>1, RankIs
  <1>3. _get_rank_range(r1, r2) = UpTo(Backwards(slGetNodeByRank(r1)), (r1 - r2) + 1) /\ (r1 - r2) + 1 \in Nat
    BY DEF _get_rank_range
  <1>4. CASE r1 \notin 1..n
    <2>1. slGetNodeByRank(r1) = null /\ Backwards(null) = <<>> /\ (r1 = 0 \/ r1 > n)
      BY <1>1, <1>4, NodeByRankIs, ChainIs
    <2>2. UpTo(<<>>, (r1 - r2) + 1) = <<>>
      <3>1. Len(<<>>) = 0 /\ ~ ((r1 - r2) + 1 < 0)
        OBVIOUS
      <3>2. SubSeq(<<>>, 1, 0) = <<>>
        BY SubSeqEmpty
      <3> QED
        BY <3>1, <3>2 DEF UpTo
    <2>3. List!_get_rank_range(r1, r2) = <<>>
      BY <1>1, <1>2, <2>1 DEF List!_get_rank_range
    <2> QED
      BY <1>3, <2>1, <2>2, <2>3
  <1>5. CASE r1 \in 1..n
    <2> DEFINE c == (r1 - r2) + 1
               low == IF r2 = 0 THEN 1 ELSE r2
               b == IF c < r1 THEN c ELSE r1
               f == [r \in 1..n |-> q[r]]
               g == [i \in 1..r1 |-> q[(r1 + 1) - i]]
               h == [i \in 1..b |-> f[(low + i) - 1]]
    <2>1. slGetNodeByRank(r1) = q[r1] /\ Backwards(q[r1]) = g
      BY <1>5, NodeByRankIs, ChainIs
    <2>2. /\ c \in Nat /\ low \in Int /\ r1 \in Int /\ ~ (r1 = 0 \/ r1 > n) /\ b \in Nat /\ 1 <= low /\ low <= r1
          /\ b = (r1 - low) + 1 /\ (IF low <= r1 THEN (r1 - low) + 1 ELSE 0) = b
          /\ (IF r1 < n THEN r1 ELSE n) = r1
      BY <1>1, <1>5
    <2>3. \A i \in 1..r1 : (r1 + 1) - i \in 1..n /\ (r1 + 1) - i \in 0..n
      BY <1>1, <1>5
    <2>4. g \in [1..r1 -> 0..N]
      BY <1>1, <2>3
    <2>5. \A i \in low..r1 : f[i] \in 0..N
      BY <1>1, <1>5, <2>2
    <2>6. List!_get_rank_range(r1, r2) = List!Reverse(SubSeq(f, low, r1))
      BY <1>1, <1>2, <2>2 DEF List!_get_rank_range
    <2>7. UpTo(g, c) = FirstOf(g, b)
      <3> HIDE DEF f, g, c, low, h
      <3> QED
        BY <2>2, <2>4, CutRun
    <2>8. SubSeq(f, low, r1) = h
      <3>1. SubSeq(f, low, r1) = [i \in 1..(IF low <= r1 THEN (r1 - low) + 1 ELSE 0) |-> f[(low + i) - 1]]
        <4> HIDE DEF f, g, c, low, h, b
        <4> QED
          BY <2>2, <2>5, SubSeqIs
      <3> HIDE DEF f, g, c, low, b
      <3> QED
        BY <2>2, <3>1
    <2>9. h \in [1..b -> 0..N]
      <3>1. \A i \in 1..b : (low + i) - 1 \in low..r1
        <4> HIDE DEF f, g, c, low, b, h
        <4> QED
          BY <2>2
      <3> HIDE DEF f, low, b
      <3> QED
        BY <2>5, <3>1
    <2>10. List!Reverse(h) = Backward(h, b)
      <3> HIDE DEF h, b
      <3> QED
        BY <2>2, <2>9, ReverseIs
    <2>11. ASSUME NEW i \in 1..b PROVE g[i] = h[(b - i) + 1]
      <3>1. /\ i \in 1..r1 /\ (b - i) + 1 \in 1..b /\ (low + ((b - i) + 1)) - 1 = (r1 + 1) - i
        <4> HIDE DEF f, g, c, low, b, h
        <4> QED
          BY <1>1, <1>5, <2>2
      <3>2. h[(b - i) + 1] = f[(low + ((b - i) + 1)) - 1]
        <4> HIDE DEF f, low, b
        <4> QED
          BY <3>1
      <3>3. f[(r1 + 1) - i] = q[(r1 + 1) - i] /\ g[i] = q[(r1 + 1) - i]
        <4> HIDE DEF low, b, h, c
        <4> QED
          BY <2>3, <3>1
      <3> HIDE DEF f, g, c, low, b, h
      <3> QED
        BY <3>1, <3>2, <3>3
    <2> HIDE DEF f, g, low, b, h
    <2> QED
      BY <1>3, <2>1, <2>6, <2>7, <2>8, <2>10, <2>11 DEF FirstOf, Backward
  <1> QED
    BY <1>4, <1>5

-----------------------------------------------------------------------------
(* What While takes of a way, for the two conditions it is asked with.     *)
NotAbove(f, s) ==
  UpTo(f, CHOOSE n \in 0..Len(f) : /\ \A i \in 1..n : score[f[i]] <= s
                                   /\ n < Len(f) => ~(score[f[n + 1]] <= s))
NotBelow(f, s) ==
  UpTo(f, CHOOSE n \in 0..Len(f) : /\ \A i \in 1..n : score[f[i]] >= s
                                   /\ n < Len(f) => ~(score[f[n + 1]] >= s))

(* If the first k have such a score and the others have not, it takes k.   *)
LEMMA NotAboveIs ==
  ASSUME NEW S, NEW m \in Nat, NEW f \in [1..m -> S], NEW s, NEW k \in Nat, k <= m,
         \A i \in 1..m : score[f[i]] <= s <=> i <= k
  PROVE  NotAbove(f, s) = FirstOf(f, k)
  <1> DEFINE P(j) == /\ \A i \in 1..j : score[f[i]] <= s
                     /\ j < m => ~(score[f[j + 1]] <= s)
  <1>1. Len(f) = m /\ k \in 0..m
    OBVIOUS
  <1>2. P(k)
    <2>1. \A i \in 1..k : i \in 1..m /\ i <= k
      BY <1>1
    <2>2. k < m => k + 1 \in 1..m /\ ~ (k + 1 <= k)
      BY <1>1
    <2> QED
      BY <2>1, <2>2
  <1>3. ASSUME NEW j \in 0..m, P(j) PROVE j = k
    <2>1. CASE j < k
      <3>1. j < m /\ j + 1 \in 1..m /\ j + 1 <= k
        BY <1>1, <2>1
      <3> QED
        BY <1>3, <3>1
    <2>2. CASE k < j
      <3>1. k + 1 \in 1..j /\ k + 1 \in 1..m /\ ~ (k + 1 <= k)
        BY <1>1, <2>2
      <3> QED
        BY <1>3, <3>1
    <2> QED
      BY <1>1, <2>1, <2>2
  <1>4. (CHOOSE j \in 0..m : P(j)) = k
    <2> HIDE DEF P
    <2> QED
      BY <1>1, <1>2, <1>3
  <1>5. NotAbove(f, s) = UpTo(f, k)
    BY <1>1, <1>4 DEF NotAbove
  <1>6. (IF k < m THEN k ELSE m) = k
    BY <1>1
  <1> HIDE DEF P
  <1> QED
    BY <1>5, <1>6, CutRun

(* The same downwards.                                                     *)
LEMMA NotBelowIs ==
  ASSUME NEW S, NEW m \in Nat, NEW f \in [1..m -> S], NEW s, NEW k \in Nat, k <= m,
         \A i \in 1..m : score[f[i]] >= s <=> i <= k
  PROVE  NotBelow(f, s) = FirstOf(f, k)
  <1> DEFINE P(j) == /\ \A i \in 1..j : score[f[i]] >= s
                     /\ j < m => ~(score[f[j + 1]] >= s)
  <1>1. Len(f) = m /\ k \in 0..m
    OBVIOUS
  <1>2. P(k)
    <2>1. \A i \in 1..k : i \in 1..m /\ i <= k
      BY <1>1
    <2>2. k < m => k + 1 \in 1..m /\ ~ (k + 1 <= k)
      BY <1>1
    <2> QED
      BY <2>1, <2>2
  <1>3. ASSUME NEW j \in 0..m, P(j) PROVE j = k
    <2>1. CASE j < k
      <3>1. j < m /\ j + 1 \in 1..m /\ j + 1 <= k
        BY <1>1, <2>1
      <3> QED
        BY <1>3, <3>1
    <2>2. CASE k < j
      <3>1. k + 1 \in 1..j /\ k + 1 \in 1..m /\ ~ (k + 1 <= k)
        BY <1>1, <2>2
      <3> QED
        BY <1>3, <3>1
    <2> QED
      BY <1>1, <2>1, <2>2
  <1>4. (CHOOSE j \in 0..m : P(j)) = k
    <2> HIDE DEF P
    <2> QED
      BY <1>1, <1>2, <1>3
  <1>5. NotBelow(f, s) = UpTo(f, k)
    BY <1>1, <1>4 DEF NotBelow
  <1>6. (IF k < m THEN k ELSE m) = k
    BY <1>1
  <1> HIDE DEF P
  <1> QED
    BY <1>5, <1>6, CutRun

(* Of no way nothing is taken.                                             *)
LEMMA EmptyWay ==
  ASSUME NEW s
  PROVE  NotAbove(<<>>, s) = <<>> /\ NotBelow(<<>>, s) = <<>>
  <1>1. ASSUME NEW m \in Nat, m = 0 PROVE NotAbove(<<>>, s) = <<>> /\ NotBelow(<<>>, s) = <<>>
    <2> DEFINE e == [i \in 1..m |-> 0]
    <2>1. \A i : i \notin 1..m
      BY <1>1
    <2>2. e = <<>> /\ FirstOf(e, m) = e /\ e \in [1..m -> {0}] /\ m <= m
      BY <1>1, <2>1 DEF FirstOf
    <2> HIDE DEF e
    <2>3. NotAbove(e, s) = FirstOf(e, m)
      BY <2>1, <2>2, NotAboveIs
    <2>4. NotBelow(e, s) = FirstOf(e, m)
      BY <2>1, <2>2, NotBelowIs
    <2> QED
      BY <2>2, <2>3, <2>4
  <1> QED
    BY <1>1

(* The members with a score from low to high.                              *)
ScoredIn(low, high) == {x \in Mem : low <= score[x] /\ score[x] <= high}

(* They are what is between two places of the list.                        *)
LEMMA BetweenIs ==
  ASSUME ListAssumption, NEW q, NEW n, Ordered(q, n), Mem = Members(q, n),
         NEW low \in Int, NEW high \in Int, low <= high, NEW k1 \in 0..n, NEW k2 \in 0..n,
         \A p \in 1..n : score[q[p]] < low <=> p <= k1,
         \A p \in 1..n : score[q[p]] <= high <=> p <= k2
  PROVE  /\ k2 - k1 \in Nat /\ k1 + (k2 - k1) = k2
         /\ List!Sorted(ScoredIn(low, high)) = RunOf(q, k1, k2 - k1)
  <1>1. n \in Nat /\ k1 \in Nat /\ k2 \in Nat /\ k1 <= n /\ k2 <= n /\ \A p \in 1..n : score[q[p]] \in Int
    <2>1. n \in Nat
      BY DEF Ordered
    <2> QED
      BY <2>1, ScoresGoUp
  <1>2. k1 <= k2
    <2> SUFFICES ASSUME k1 # 0 PROVE k1 <= k2
      BY <1>1
    <2>1. k1 \in 1..n /\ k1 <= k1
      BY <1>1
    <2>2. score[q[k1]] < low /\ score[q[k1]] \in Int
      BY <1>1, <2>1
    <2>3. score[q[k1]] <= high
      BY <2>2
    <2> QED
      BY <2>1, <2>3
  <1>3. k2 - k1 \in Nat /\ k1 + (k2 - k1) = k2
    BY <1>1, <1>2
  <1>4. ScoredIn(low, high) = {q[k1 + i] : i \in 1..k2 - k1}
    <2>1. ASSUME NEW p \in 1..n, low <= score[q[p]], score[q[p]] <= high
          PROVE  \E i \in 1..k2 - k1 : q[p] = q[k1 + i]
      <3>1. ~ (score[q[p]] < low)
        BY <1>1, <2>1
      <3>2. ~ (p <= k1) /\ p <= k2
        BY <2>1, <3>1
      <3>3. p - k1 \in 1..k2 - k1 /\ k1 + (p - k1) = p
        BY <1>1, <3>2
      <3> QED
        BY <3>3
    <2>2. ASSUME NEW i \in 1..k2 - k1
          PROVE  q[k1 + i] \in Mem /\ low <= score[q[k1 + i]] /\ score[q[k1 + i]] <= high
      <3>1. k1 + i \in 1..n /\ ~ (k1 + i <= k1) /\ k1 + i <= k2
        BY <1>1
      <3>2. ~ (score[q[k1 + i]] < low) /\ score[q[k1 + i]] <= high /\ q[k1 + i] \in Mem
        BY <3>1 DEF Members
      <3> QED
        BY <1>1, <3>1, <3>2
    <2> QED
      BY <2>1, <2>2 DEF Members, ScoredIn
  <1>5. List!Sorted(PartOf(q, k1, k2 - k1)) = RunOf(q, k1, k2 - k1)
    BY <1>1, <1>3, SortedRun
  <1> QED
    BY <1>3, <1>4, <1>5 DEF PartOf

(* Where nothing is in range there is no such member.                      *)
LEMMA NoneBetween ==
  ASSUME ListAssumption, NEW q, NEW hi, NEW n, Shape(sl, q, hi, n),
         NEW low \in Int, NEW high \in Int, low <= high, NEW k1 \in 0..n, NEW k2 \in 0..n,
         \A p \in 1..n : score[q[p]] < low <=> p <= k1,
         \A p \in 1..n : score[q[p]] <= high <=> p <= k2,
         ~ slIsInRange(low, high)
  PROVE  k2 - k1 = 0
  <1>1. /\ Ordered(q, n) /\ n \in Nat /\ Mem = Members(q, n)
    BY MembersAre DEF Shape, Ordered, Mem
  <1>2. k2 - k1 \in Nat /\ k1 + (k2 - k1) = k2 /\ k1 \in Nat /\ k2 \in Nat /\ k1 <= n /\ k2 <= n
    <2>1. /\ k2 - k1 \in Nat /\ k1 + (k2 - k1) = k2
          /\ List!Sorted(ScoredIn(low, high)) = RunOf(q, k1, k2 - k1)
      BY <1>1, BetweenIs
    <2> QED
      BY <1>1, <2>1
  <1>3. n = 0 \/ ~ (score[q[n]] >= low) \/ ~ (score[q[1]] <= high)
    BY InRangeIs
  <1>4. CASE n = 0
    BY <1>2, <1>4
  <1>5. CASE n # 0 /\ ~ (score[q[n]] >= low)
    <2>1. n \in 1..n /\ score[q[n]] \in Int
      BY <1>1, <1>5, ScoresGoUp
    <2>2. score[q[n]] < low
      BY <1>5, <2>1
    <2>3. n <= k1
      BY <2>1, <2>2
    <2> QED
      BY <1>1, <1>2, <2>3
  <1>6. CASE n # 0 /\ ~ (score[q[1]] <= high)
    <2>1. 1 \in 1..n
      BY <1>1, <1>6
    <2>2. ~ (1 <= k2)
      BY <1>6, <2>1
    <2> QED
      BY <1>2, <2>2
  <1> QED
    BY <1>3, <1>4, <1>5, <1>6

(* Scores, upwards.                                                        *)
LEMMA ScoreRangeUp ==
  ASSUME ListAssumption, NEW q, NEW hi, NEW n, Shape(sl, q, hi, n), NEW s1 \in Int, NEW s2 \in Int,
         s1 <= s2
  PROVE  _get_score_range(s1, s2) = List!_get_score_range(s1, s2)
  <1>1. /\ Ordered(q, n) /\ n \in Nat /\ Mem = Members(q, n) /\ q \in [0..n -> 0..N]
        /\ Mem = DOMAIN sl.at \ {header} /\ \A p \in 1..n : score[q[p]] \in Int
    <2>1. Ordered(q, n) /\ n \in Nat /\ q \in [0..n -> 0..N]
      BY DEF Shape, Ordered
    <2> QED
      BY <2>1, MembersAre, ScoresGoUp DEF Mem
  <1>0. Ordered(q, n) /\ Mem = Members(q, n)
    BY <1>1
  <1>2. PICK k1 \in 0..n : \A p \in 1..n : score[q[p]] < s1 <=> p <= k1
    BY <1>1, UpToScore
  <1>3. PICK k2 \in 0..n : \A p \in 1..n : score[q[p]] <= s2 <=> p <= k2
    BY <1>1, UpToScore
  <1> DEFINE d == k2 - k1
  <1>4. d \in Nat /\ k1 + d = k2 /\ List!Sorted(ScoredIn(s1, s2)) = RunOf(q, k1, d)
    <2>1. /\ k2 - k1 \in Nat /\ k1 + (k2 - k1) = k2
          /\ List!Sorted(ScoredIn(s1, s2)) = RunOf(q, k1, k2 - k1)
      BY <1>0, <1>2, <1>3, BetweenIs
    <2> QED
      BY <2>1
  <1>5. List!_get_score_range(s1, s2) = RunOf(q, k1, d)
    BY <1>1, <1>4 DEF List!_get_score_range, ScoredIn
  <1>6. _get_score_range(s1, s2) = NotAbove(Chain(slFirstInRange(s1, s2)), s2)
    BY DEF _get_score_range, While, NotAbove
  <1>7. /\ slFirstInRange(s1, s2) = IF slIsInRange(s1, s2) THEN q[k1 + 1] ELSE null
        /\ slIsInRange(s1, s2) => k1 + 1 \in 1..n
        /\ Found(slFirstInRange(s1, s2)) = List!slFirstInRange(s1, s2)
    BY <1>2, FirstInRangeIs
  <1>8. CASE ~ slIsInRange(s1, s2)
    <2>1. Chain(null) = <<>>
      BY ChainIs
    <2>2. d = 0
      BY <1>2, <1>3, <1>8, NoneBetween
    <2>3. RunOf(q, k1, 0) = <<>>
      <3>1. \A i : i \notin 1..0
        OBVIOUS
      <3> QED
        BY <3>1 DEF RunOf
    <2> HIDE DEF d
    <2> QED
      BY <1>5, <1>6, <1>7, <1>8, <2>1, <2>2, <2>3, EmptyWay
  <1>9. CASE slIsInRange(s1, s2)
    <2> DEFINE m == n - k1
               f == RunOf(q, k1, m)
    <2>1. m \in Nat /\ d <= m /\ (k1 + 1) - 1 = k1 /\ (n - (k1 + 1)) + 1 = m /\ k1 + 1 \in 1..n
      BY <1>1, <1>4, <1>7, <1>9
    <2>2. \A i \in 1..m : k1 + i \in 1..n /\ k1 + i \in 0..n /\ (k1 + i <= k2 <=> i <= d)
      BY <1>1, <1>4
    <2>3. Chain(q[k1 + 1]) = f
      <3>1. Chain(q[k1 + 1]) = RunOf(q, (k1 + 1) - 1, (n - (k1 + 1)) + 1)
        BY <1>7, <1>9, ChainIs
      <3> QED
        BY <2>1, <3>1
    <2>4. f \in [1..m -> 0..N] /\ \A i \in 1..m : f[i] = q[k1 + i]
      BY <1>1, <2>2 DEF RunOf
    <2>5. \A i \in 1..m : score[f[i]] <= s2 <=> i <= d
      BY <1>3, <2>2, <2>4
    <2>6. \A i \in 1..d : i \in 1..m
      BY <2>1, <1>4
    <2> HIDE DEF f, m, d
    <2>7. NotAbove(f, s2) = FirstOf(f, d)
      <3>1. d \in Nat /\ m \in Nat /\ d <= m /\ f \in [1..m -> 0..N]
        BY <1>4, <2>1, <2>4
      <3> QED
        BY <2>5, <3>1, NotAboveIs
    <2>8. FirstOf(f, d) = RunOf(q, k1, d)
      BY <2>4, <2>6 DEF FirstOf, RunOf
    <2> QED
      BY <1>5, <1>6, <1>7, <1>9, <2>3, <2>7, <2>8
  <1> QED
    BY <1>8, <1>9

(* Scores, downwards.                                                      *)
LEMMA ScoreRangeDown ==
  ASSUME ListAssumption, NEW q, NEW hi, NEW n, Shape(sl, q, hi, n), NEW s1 \in Int, NEW s2 \in Int,
         ~ (s1 <= s2)
  PROVE  _get_score_range(s1, s2) = List!_get_score_range(s1, s2)
  <1>1. /\ Ordered(q, n) /\ n \in Nat /\ Mem = Members(q, n) /\ q \in [0..n -> 0..N]
        /\ Mem = DOMAIN sl.at \ {header} /\ \A p \in 1..n : score[q[p]] \in Int
    <2>1. Ordered(q, n) /\ n \in Nat /\ q \in [0..n -> 0..N]
      BY DEF Shape, Ordered
    <2> QED
      BY <2>1, MembersAre, ScoresGoUp DEF Mem
  <1>0. Ordered(q, n) /\ Mem = Members(q, n)
    BY <1>1
  <1>2. PICK k1 \in 0..n : \A p \in 1..n : score[q[p]] < s2 <=> p <= k1
    BY <1>1, UpToScore
  <1>3. PICK k2 \in 0..n : \A p \in 1..n : score[q[p]] <= s1 <=> p <= k2
    BY <1>1, UpToScore
  <1>a. s2 <= s1
    OBVIOUS
  <1> DEFINE d == k2 - k1
  <1>4. d \in Nat /\ k1 + d = k2 /\ List!Sorted(ScoredIn(s2, s1)) = RunOf(q, k1, d)
    <2>1. /\ k2 - k1 \in Nat /\ k1 + (k2 - k1) = k2
          /\ List!Sorted(ScoredIn(s2, s1)) = RunOf(q, k1, k2 - k1)
      BY <1>0, <1>2, <1>3, <1>a, BetweenIs
    <2> QED
      BY <2>1
  <1>5. List!_get_score_range(s1, s2) = List!Reverse(RunOf(q, k1, d))
    BY <1>1, <1>4 DEF List!_get_score_range, ScoredIn
  <1>6. _get_score_range(s1, s2) = NotBelow(Backwards(slLastInRange(s2, s1)), s2)
    BY DEF _get_score_range, While, NotBelow
  <1>7. /\ slLastInRange(s2, s1) = IF slIsInRange(s2, s1) THEN q[k2] ELSE null
        /\ slIsInRange(s2, s1) => k2 \in 1..n
        /\ Found(slLastInRange(s2, s1)) = List!slLastInRange(s2, s1)
    BY <1>3, LastInRangeIs
  <1>b. \A i \in 1..d : (d - i) + 1 \in 1..d /\ k1 + ((d - i) + 1) = (k2 + 1) - i
                        /\ k1 + i \in 0..n
    <2>1. k1 \in Nat /\ k2 \in Nat /\ k2 <= n /\ n \in Nat
      BY <1>1
    <2> QED
      BY <1>4, <2>1
  <1>c. List!Reverse(RunOf(q, k1, d)) = [i \in 1..d |-> q[(k2 + 1) - i]]
    <2> HIDE DEF d
    <2>1. RunOf(q, k1, d) \in [1..d -> 0..N]
      BY <1>1, <1>b DEF RunOf
    <2> DEFINE g == RunOf(q, k1, d)
    <2>2. List!Reverse(g) = Backward(g, d)
      <3> HIDE DEF g
      <3> QED
        BY <1>4, <2>1, ReverseIs DEF g
    <2>3. \A i \in 1..d : g[(d - i) + 1] = q[(k2 + 1) - i]
      BY <1>b DEF RunOf
    <2> HIDE DEF g
    <2> QED
      BY <2>2, <2>3 DEF Backward, g
  <1>8. CASE ~ slIsInRange(s2, s1)
    <2>1. Backwards(null) = <<>>
      BY ChainIs
    <2>2. d = 0
      BY <1>2, <1>3, <1>8, <1>a, NoneBetween
    <2>3. [i \in 1..0 |-> q[(k2 + 1) - i]] = <<>>
      <3>1. \A i : i \notin 1..0
        OBVIOUS
      <3> QED
        BY <3>1
    <2> HIDE DEF d
    <2> QED
      BY <1>5, <1>6, <1>7, <1>8, <1>c, <2>1, <2>2, <2>3, EmptyWay
  <1>9. CASE slIsInRange(s2, s1)
    <2> DEFINE f == [i \in 1..k2 |-> q[(k2 + 1) - i]]
    <2>1. k2 \in Nat /\ d <= k2 /\ k2 \in 1..n
      BY <1>1, <1>4, <1>7, <1>9
    <2>2. \A i \in 1..k2 : /\ (k2 + 1) - i \in 1..n /\ (k2 + 1) - i \in 0..n
                           /\ ~ ((k2 + 1) - i <= k1) <=> i <= d
      BY <1>1, <1>4, <2>1
    <2>3. Backwards(q[k2]) = f
      BY <2>1, ChainIs
    <2>4. f \in [1..k2 -> 0..N] /\ \A i \in 1..k2 : f[i] = q[(k2 + 1) - i]
      BY <1>1, <2>2
    <2>5. \A i \in 1..k2 : score[f[i]] >= s2 <=> i <= d
      <3>1. \A p \in 1..n : score[q[p]] >= s2 <=> ~ (score[q[p]] < s2)
        BY <1>1
      <3> HIDE DEF f, d
      <3> QED
        BY <1>2, <2>2, <2>4, <3>1
    <2>6. \A i \in 1..d : i \in 1..k2
      BY <2>1, <1>4
    <2> HIDE DEF f, d
    <2>7. NotBelow(f, s2) = FirstOf(f, d)
      <3>1. d \in Nat /\ k2 \in Nat /\ d <= k2 /\ f \in [1..k2 -> 0..N]
        BY <1>4, <2>1, <2>4
      <3> QED
        BY <2>5, <3>1, NotBelowIs
    <2>8. FirstOf(f, d) = [i \in 1..d |-> q[(k2 + 1) - i]]
      BY <2>4, <2>6 DEF FirstOf
    <2> QED
      BY <1>5, <1>6, <1>7, <1>9, <1>c, <2>3, <2>7, <2>8
  <1> QED
    BY <1>8, <1>9

(* So the list answers what the sorted set answers.                        *)
LEMMA QueriesAre == ListAssumption /\ ShapeKept(sl) => QueriesAreRight
  <1> SUFFICES ASSUME ListAssumption, ShapeKept(sl) PROVE QueriesAreRight
    OBVIOUS
  <1> DEFINE n == sl.length
             scores == {score[e] : e \in Listable}
  <1>1. PICK q, hi : Shape(sl, q, hi, n)
    BY DEF ShapeKept
  <1>2. /\ Ordered(q, n) /\ n \in Nat /\ Mem = Members(q, n) /\ Mem = DOMAIN sl.at \ {header}
    BY <1>1, MembersAre DEF Shape, Ordered, Mem
  <1> HIDE DEF n
  <1>3. scores \subseteq Int /\ 0..N + 1 \subseteq Nat
    BY DEF ListAssumption, Listable
  <1> HIDE DEF scores
  <1>4. _dump_out = List!Sorted(DOMAIN sl.at \ {header})
    <2>1. List!Sorted(Mem) = [r \in 1..n |-> q[r]]
      BY <1>2, RankIs
    <2>2. _dump_out = [r \in 1..n |-> q[r]]
      BY <1>1, ChainIs
    <2> QED
      BY <1>2, <2>1, <2>2
  <1>5. ASSUME NEW e \in Listable, Asked(e) PROVE slGetRank(e) = List!slGetRank(e)
    BY <1>1, <1>5, GetRankIs
  <1>6. ASSUME NEW r \in 0..N + 1 PROVE Found(slGetNodeByRank(r)) = List!slGetNodeByRank(r)
    <2>1. slGetNodeByRank(r) = IF r \in 1..n THEN q[r] ELSE null
      BY <1>1, <1>3, NodeByRankIs
    <2>2. CASE r \in 1..n
      <3>1. q[r] # null
        BY <1>2, <2>2, OneToOne
      <3>2. List!slGetNodeByRank(r) = <<q[r]>>
        BY <1>2, <2>2, RankIs
      <3> QED
        BY <2>1, <2>2, <3>1, <3>2 DEF Found
    <2>3. CASE r \notin 1..n
      <3>1. r \in Int
        BY <1>3
      <3>2. List!slGetNodeByRank(r) = <<>>
        BY <1>2, <2>3, <3>1, RankIs
      <3> QED
        BY <2>1, <2>3, <3>2 DEF Found
    <2> QED
      BY <2>2, <2>3
  <1>7. ASSUME NEW min \in scores, NEW max \in scores
        PROVE  Found(slFirstInRange(min, max)) = List!slFirstInRange(min, max)
    <2>1. min \in Int /\ max \in Int
      BY <1>3
    <2>2. PICK k \in 0..n : \A p \in 1..n : score[q[p]] < min <=> p <= k
      BY <1>2, <2>1, UpToScore
    <2> QED
      BY <1>1, <2>1, <2>2, FirstInRangeIs
  <1>8. ASSUME NEW min \in scores, NEW max \in scores
        PROVE  Found(slLastInRange(min, max)) = List!slLastInRange(min, max)
    <2>1. min \in Int /\ max \in Int
      BY <1>3
    <2>2. PICK k \in 0..n : \A p \in 1..n : score[q[p]] <= max <=> p <= k
      BY <1>2, <2>1, UpToScore
    <2> QED
      BY <1>1, <2>1, <2>2, LastInRangeIs
  <1>9. ASSUME NEW r1 \in 0..N + 1, NEW r2 \in 0..N + 1
        PROVE  _get_rank_range(r1, r2) = List!_get_rank_range(r1, r2)
    BY <1>1, <1>3, RankRangeUp, RankRangeDown
  <1>10. ASSUME NEW s1 \in scores, NEW s2 \in scores
         PROVE  _get_score_range(s1, s2) = List!_get_score_range(s1, s2)
    BY <1>1, <1>3, ScoreRangeUp, ScoreRangeDown
  <1> QED
    BY <1>4, <1>5, <1>6, <1>7, <1>8, <1>9, <1>10 DEF QueriesAreRight, scores

(* Whatever the calls and the levels drawn were: every span is the         *)
(* distance to the node it leads to, and every rank, node and range the    *)
(* list answers with is what the sorted set answers.                       *)
THEOREM RanksCorrect == STSpec => []RanksAreRight
  <1> USE Assumed
  <1>1. STInit => ShapeKept(sl)
    BY InitShape DEF STInit
  <1>2. ShapeKept(sl) /\ [InList \/ InLogger \/ InTimer]_stVars => ShapeKept(sl)'
    <2> SUFFICES ASSUME ShapeKept(sl), [InList \/ InLogger \/ InTimer]_stVars
                 PROVE  ShapeKept(sl)'
      OBVIOUS
    <2>1. Next \/ UNCHANGED vars
      BY DEF InList, InLogger, InTimer, stVars, vars
    <2>2. ShapeKept(sl')
      BY <2>1, NextShape
    <2> QED
      BY <2>2 DEF ShapeKept
  <1>3. ShapeKept(sl) => RanksAreRight
    BY SpansAre, QueriesAre DEF RanksAreRight
  <1> QED
    BY <1>1, <1>2, <1>3, PTL DEF STSpec

-----------------------------------------------------------------------------
(* The logger.                                                             *)
Lines == [id : Nat, time : Nat, size : Nat, whole : BOOLEAN]
FileHandles == {<<>>} \cup {<<t>> : t \in Nat}
Loggers == [mday : Nat, loggers : [HL!Levels -> [file : FileHandles, fwrited : Nat]]]
Disks == UNION {[D -> Seq(Lines)] : D \in SUBSET (HL!Levels \X Nat)}
Works == [inst : Loggers, disk : Disks, dir : BOOLEAN, written : [HL!Levels -> Seq(Lines)], ok : BOOLEAN]

KeptOf(d, level) ==
  UNION {{<<f[2], i>> : i \in {i \in DOMAIN d[f] : d[f][i].whole}} : f \in {f \in DOMAIN d : f[1] = level}}
InTurn(d, w, level) ==
  /\ IsFiniteSet(KeptOf(d, level)) /\ Len(w[level]) = Cardinality(KeptOf(d, level))
  /\ \A p \in KeptOf(d, level) :
       w[level][Cardinality(HL!UpToLine(KeptOf(d, level), p))] = d[<<level, p[1]>>][p[2]]

(* An open file is the last of its level, and of no day that was over when *)
(* its day began.                                                          *)
OpenIsLast(i, d, t, level) ==
  \A u \in Nat : i.loggers[level].file = <<u>> =>
    u <= t /\ i.mday <= HL!mday(u) /\ \A f \in DOMAIN d : f[1] = level => f[2] <= u
InDays(d) == \A f \in DOMAIN d : \A k \in DOMAIN d[f] : HL!mday(d[f][k].time) <= HL!mday(f[2])

Fits(i, d, w, t) ==
  /\ \A f \in DOMAIN d : f[2] <= t
  /\ \A level \in HL!Levels : OpenIsLast(i, d, t, level) /\ InTurn(d, w, level)
  /\ InDays(d)
InOrder(s, t) == s \in Works /\ Fits(s.inst, s.disk, s.written, t)

(* A later second is of no earlier day.                                    *)
LEMMA DayGrows ==
  ASSUME HL!LoggerAssumption, NEW a \in Nat, NEW b \in Nat, a <= b
  PROVE  HL!mday(a) \in Nat /\ HL!mday(a) <= HL!mday(b)
  BY DEF HL!LoggerAssumption, HL!mday

(* A file has a level and a second, and holds lines.                       *)
LEMMA DiskIs ==
  ASSUME NEW d \in Disks
  PROVE  /\ d = [f \in DOMAIN d |-> d[f]]
         /\ \A f \in DOMAIN d : /\ f = <<f[1], f[2]>> /\ f[1] \in HL!Levels /\ f[2] \in Nat
                                /\ d[f] \in Seq(Lines)
  BY DEF Disks

(* The whole lines of a level, one by one.                                 *)
LEMMA KeptOfIs ==
  ASSUME NEW d \in Disks, NEW level
  PROVE  /\ \A p \in KeptOf(d, level) :
              /\ p = <<p[1], p[2]>> /\ p[1] \in Nat /\ p[2] \in Nat /\ <<level, p[1]>> \in DOMAIN d
              /\ p[2] \in DOMAIN d[<<level, p[1]>>] /\ d[<<level, p[1]>>][p[2]].whole
         /\ \A u, k : <<level, u>> \in DOMAIN d /\ k \in DOMAIN d[<<level, u>>]
                        /\ d[<<level, u>>][k].whole => <<u, k>> \in KeptOf(d, level)
  <1>1. ASSUME NEW p \in KeptOf(d, level)
        PROVE  /\ p = <<p[1], p[2]>> /\ p[1] \in Nat /\ p[2] \in Nat /\ <<level, p[1]>> \in DOMAIN d
               /\ p[2] \in DOMAIN d[<<level, p[1]>>] /\ d[<<level, p[1]>>][p[2]].whole
    <2>1. PICK f \in DOMAIN d : /\ f[1] = level
                                /\ p \in {<<f[2], i>> : i \in {i \in DOMAIN d[f] : d[f][i].whole}}
      BY <1>1 DEF KeptOf
    <2>2. PICK i \in DOMAIN d[f] : p = <<f[2], i>> /\ d[f][i].whole
      BY <2>1
    <2>3. f = <<level, f[2]>> /\ f[2] \in Nat /\ d[f] \in Seq(Lines)
      BY <2>1, DiskIs
    <2> QED
      BY <2>2, <2>3
  <1>2. ASSUME NEW u, NEW k, <<level, u>> \in DOMAIN d, k \in DOMAIN d[<<level, u>>],
               d[<<level, u>>][k].whole
        PROVE  <<u, k>> \in KeptOf(d, level)
    BY <1>2 DEF KeptOf
  <1> QED
    BY <1>1, <1>2

(* Closing files.                                                          *)
LEMMA CloseKeeps ==
  ASSUME NEW s, NEW t \in Nat, InOrder(s, t), NEW level \in HL!Levels
  PROVE  /\ InOrder(HL!closeFile(s, level), t) /\ InOrder(HL!closeAllFiles(s), t)
         /\ InOrder(HL!throwErrorItem(s, level), t) /\ InOrder(HL!throwError(s), t)
         /\ HL!closeFile(s, level).inst.mday = s.inst.mday
         /\ HL!closeAllFiles(s).inst.mday = s.inst.mday
         /\ HL!throwErrorItem(s, level).inst.mday = s.inst.mday
         /\ HL!throwError(s).inst.mday = s.inst.mday
         /\ ~ HL!throwErrorItem(s, level).ok /\ ~ HL!throwError(s).ok
  <1>1. s \in Works /\ Fits(s.inst, s.disk, s.written, t)
    BY DEF InOrder
  <1>2. ASSUME NEW z \in Works, z.disk = s.disk, z.written = s.written, z.inst.mday = s.inst.mday,
               \A l \in HL!Levels : z.inst.loggers[l].file \in {<<>>, s.inst.loggers[l].file}
        PROVE  InOrder(z, t)
    <2>1. \A u \in Nat : <<u>> # <<>>
      OBVIOUS
    <2>2. ASSUME NEW l \in HL!Levels PROVE OpenIsLast(z.inst, z.disk, t, l)
      <3>1. OpenIsLast(s.inst, s.disk, t, l)
        BY <1>1 DEF Fits
      <3>2. \A u \in Nat : z.inst.loggers[l].file = <<u>> => s.inst.loggers[l].file = <<u>>
        BY <1>2, <2>1
      <3> QED
        BY <1>2, <3>1, <3>2 DEF OpenIsLast
    <2> QED
      BY <1>1, <1>2, <2>2 DEF InOrder, Fits
  <1>3. /\ HL!closeFile(s, level) \in Works /\ HL!closeFile(s, level).disk = s.disk
        /\ HL!closeFile(s, level).written = s.written /\ HL!closeFile(s, level).inst.mday = s.inst.mday
        /\ \A l \in HL!Levels : HL!closeFile(s, level).inst.loggers[l].file \in {<<>>, s.inst.loggers[l].file}
    BY <1>1 DEF Works, Loggers, FileHandles, HL!closeFile
  <1>4. /\ HL!closeAllFiles(s) \in Works /\ HL!closeAllFiles(s).disk = s.disk
        /\ HL!closeAllFiles(s).written = s.written /\ HL!closeAllFiles(s).inst.mday = s.inst.mday
        /\ \A l \in HL!Levels : HL!closeAllFiles(s).inst.loggers[l].file \in {<<>>, s.inst.loggers[l].file}
    BY <1>1 DEF Works, Loggers, FileHandles, HL!closeAllFiles
  <1> DEFINE a == HL!closeFile(s, level)
             b == HL!closeAllFiles(s)
  <1>5. InOrder(a, t) /\ InOrder(b, t)
    BY <1>2, <1>3, <1>4
  <1>6. HL!throwErrorItem(s, level) = [a EXCEPT !.ok = FALSE] /\ HL!throwError(s) = [b EXCEPT !.ok = FALSE]
    BY DEF HL!throwErrorItem, HL!throwError
  <1> HIDE DEF a, b
  <1>7. ASSUME NEW z, InOrder(z, t)
        PROVE  /\ InOrder([z EXCEPT !.ok = FALSE], t) /\ ~ [z EXCEPT !.ok = FALSE].ok
               /\ [z EXCEPT !.ok = FALSE].inst.mday = z.inst.mday
    <2>1. z \in Works
      BY <1>7 DEF InOrder
    <2>2. /\ [z EXCEPT !.ok = FALSE] \in Works /\ ~ [z EXCEPT !.ok = FALSE].ok
          /\ [z EXCEPT !.ok = FALSE].inst = z.inst /\ [z EXCEPT !.ok = FALSE].disk = z.disk
          /\ [z EXCEPT !.ok = FALSE].written = z.written
      BY <2>1 DEF Works
    <2> QED
      BY <1>7, <2>2 DEF InOrder
  <1> QED
    BY <1>3, <1>4, <1>5, <1>6, <1>7 DEF a, b

(* Opening a file: what it holds already stays, and nothing is added.      *)
LEMMA OpenKeeps ==
  ASSUME HL!LoggerAssumption, NEW s, NEW t \in Nat, InOrder(s, t), NEW level \in HL!Levels,
         s.inst.mday <= HL!mday(t)
  PROVE  /\ InOrder(HL!Open(s, level, t), t) /\ HL!Open(s, level, t).inst.mday = s.inst.mday
         /\ HL!Open(s, level, t).inst.loggers[level].file = <<t>>
  <1> DEFINE z == HL!Open(s, level, t)
             d == s.disk
             e == z.disk
  <1>1. s \in Works /\ d \in Disks /\ Fits(s.inst, d, s.written, t)
    BY DEF InOrder, Works
  <1>2. /\ e = [f \in DOMAIN d \cup {<<level, t>>} |-> IF f \in DOMAIN d THEN d[f] ELSE <<>>]
        /\ z.written = s.written /\ z.inst.mday = s.inst.mday
        /\ z.inst.loggers = [s.inst.loggers EXCEPT ![level] = [file |-> <<t>>, fwrited |-> 0]]
        /\ z.inst \in Loggers /\ (e \in Disks => z \in Works)
    <2> DEFINE i == [s.inst EXCEPT !.loggers[level] = [file |-> <<t>>, fwrited |-> 0]]
               f0 == [f \in DOMAIN d \cup {<<level, t>>} |-> IF f \in DOMAIN d THEN d[f] ELSE <<>>]
    <2>1. z = [s EXCEPT !.inst = i, !.disk = f0]
      BY <1>1 DEF HL!Open, Works
    <2>2. i \in Loggers /\ i.mday = s.inst.mday
          /\ i.loggers = [s.inst.loggers EXCEPT ![level] = [file |-> <<t>>, fwrited |-> 0]]
      BY <1>1 DEF Works, Loggers, FileHandles
    <2> HIDE DEF i, f0, z, d
    <2>3. z.inst = i /\ z.disk = f0 /\ z.written = s.written /\ (f0 \in Disks => z \in Works)
      BY <1>1, <2>1, <2>2 DEF Works
    <2> QED
      BY <2>2, <2>3 DEF f0
  <1> HIDE DEF z, d, e
  <1>3. /\ DOMAIN e = DOMAIN d \cup {<<level, t>>} /\ DOMAIN e \subseteq HL!Levels \X Nat
        /\ \A f \in DOMAIN d : e[f] = d[f]
        /\ \A f \in DOMAIN e : f \notin DOMAIN d => f = <<level, t>> /\ e[f] = <<>>
    BY <1>1, <1>2, DiskIs
  <1>4. e \in Disks
    <2>1. \A f \in DOMAIN e : e[f] \in Seq(Lines)
      <3>1. <<>> \in Seq(Lines)
        OBVIOUS
      <3> QED
        BY <1>1, <1>3, <3>1, DiskIs
    <2>2. e \in [DOMAIN e -> Seq(Lines)]
      BY <1>2, <2>1
    <2> QED
      BY <1>3, <2>2 DEF Disks
  <1>5. z \in Works
    BY <1>2, <1>4
  <1>6. \A l : KeptOf(e, l) = KeptOf(d, l)
    <2> SUFFICES ASSUME NEW l PROVE KeptOf(e, l) = KeptOf(d, l)
      OBVIOUS
    <2>1. ASSUME NEW p \in KeptOf(e, l) PROVE p \in KeptOf(d, l)
      <3>1. /\ p = <<p[1], p[2]>> /\ <<l, p[1]>> \in DOMAIN e /\ p[2] \in DOMAIN e[<<l, p[1]>>]
            /\ e[<<l, p[1]>>][p[2]].whole
        BY <1>4, KeptOfIs
      <3>2. <<l, p[1]>> \in DOMAIN d
        BY <1>3, <3>1
      <3> QED
        BY <1>1, <1>3, <3>1, <3>2, KeptOfIs
    <2>2. ASSUME NEW p \in KeptOf(d, l) PROVE p \in KeptOf(e, l)
      <3>1. /\ p = <<p[1], p[2]>> /\ <<l, p[1]>> \in DOMAIN d /\ p[2] \in DOMAIN d[<<l, p[1]>>]
            /\ d[<<l, p[1]>>][p[2]].whole
        BY <1>1, KeptOfIs
      <3> QED
        BY <1>3, <1>4, <3>1, KeptOfIs
    <2> QED
      BY <2>1, <2>2
  <1>7. \A f \in DOMAIN e : f[2] <= t
    <2>1. <<level, t>>[2] = t
      OBVIOUS
    <2> QED
      BY <1>1, <1>3, <2>1 DEF Fits
  <1>8. ASSUME NEW l \in HL!Levels PROVE OpenIsLast(z.inst, e, t, l)
    <2>1. CASE l = level
      <3>1. z.inst.loggers[l].file = <<t>>
        BY <1>1, <1>2, <2>1 DEF Works, Loggers
      <3>2. \A u : <<t>> = <<u>> => u = t
        OBVIOUS
      <3> QED
        BY <1>2, <1>7, <3>1, <3>2 DEF OpenIsLast
    <2>2. CASE l # level
      <3>1. z.inst.loggers[l] = s.inst.loggers[l]
        BY <1>1, <1>2, <2>2 DEF Works, Loggers
      <3>2. \A f \in DOMAIN e : f[1] = l => f \in DOMAIN d
        <4>1. <<level, t>>[1] = level
          OBVIOUS
        <4> QED
          BY <1>3, <2>2, <4>1
      <3> QED
        BY <1>1, <1>2, <3>1, <3>2 DEF OpenIsLast, Fits
    <2> QED
      BY <2>1, <2>2
  <1>9. ASSUME NEW l \in HL!Levels PROVE InTurn(e, s.written, l)
    <2>1. InTurn(d, s.written, l) /\ KeptOf(e, l) = KeptOf(d, l)
      BY <1>1, <1>6 DEF Fits
    <2>2. \A p \in KeptOf(d, l) : e[<<l, p[1]>>] = d[<<l, p[1]>>]
      BY <1>1, <1>3, KeptOfIs
    <2> QED
      BY <2>1, <2>2 DEF InTurn
  <1>10. InDays(e)
    <2>1. InDays(d)
      BY <1>1 DEF Fits
    <2>2. \A f \in DOMAIN e : f \notin DOMAIN d => DOMAIN e[f] = {}
      BY <1>3
    <2> QED
      BY <1>3, <2>1, <2>2 DEF InDays
  <1>11. z.disk = e /\ z.written = s.written
    BY <1>2 DEF e
  <1>12. InOrder(z, t)
    BY <1>5, <1>7, <1>8, <1>9, <1>10, <1>11 DEF InOrder, Fits
  <1> QED
    BY <1>1, <1>2, <1>12 DEF z, Works, Loggers

(* Asked for a file, the logger has it open or gives the message up.       *)
LEMMA CreateKeeps ==
  ASSUME HL!LoggerAssumption, NEW s, NEW t \in Nat, InOrder(s, t), NEW level \in HL!Levels,
         s.inst.mday <= HL!mday(t), NEW bad
  PROVE  LET z == HL!createLoggerFile(s, level, t, bad) IN
         /\ InOrder(z, t) /\ z.inst.mday = s.inst.mday
         /\ z.ok => z.inst.loggers[level].file = <<t>>
  <1> DEFINE made == HL!newDir(s, bad)
  <1>1. s \in Works
    BY DEF InOrder
  <1>2. CASE "open" \in bad
    <2>1. HL!createLoggerFile(s, level, t, bad) = HL!throwErrorItem(s, level)
      BY <1>2 DEF HL!createLoggerFile
    <2> QED
      BY <2>1, CloseKeeps
  <1>3. CASE "open" \notin bad /\ s.dir
    <2>1. HL!createLoggerFile(s, level, t, bad) = HL!Open(s, level, t)
      BY <1>3 DEF HL!createLoggerFile
    <2> QED
      BY <2>1, OpenKeeps
  <1>4. CASE "open" \notin bad /\ ~ s.dir
    <2>1. HL!createLoggerFile(s, level, t, bad) = IF made.ok THEN HL!Open(made, level, t) ELSE made
      BY <1>4 DEF HL!createLoggerFile
    <2>2. InOrder(made, t) /\ made.inst.mday = s.inst.mday
      <3>1. CASE "mkdir" \in bad
        <4>1. made = HL!throwError(s)
          BY <3>1 DEF HL!newDir
        <4> HIDE DEF made
        <4> QED
          BY <4>1, CloseKeeps
      <3>2. CASE "mkdir" \notin bad
        <4>1. made = [s EXCEPT !.dir = TRUE]
          BY <3>2 DEF HL!newDir
        <4> HIDE DEF made
        <4>2. made \in Works /\ made.inst = s.inst /\ made.disk = s.disk /\ made.written = s.written
          BY <1>1, <4>1 DEF Works
        <4> QED
          BY <4>2 DEF InOrder
      <3> QED
        BY <3>1, <3>2
    <2> HIDE DEF made
    <2>3. CASE made.ok
      BY <2>1, <2>2, <2>3, OpenKeeps
    <2>4. CASE ~ made.ok
      BY <2>1, <2>2, <2>4
    <2> QED
      BY <2>3, <2>4
  <1> QED
    BY <1>2, <1>3, <1>4

(* A line more at the end of the last file of a level.                     *)
Grown(d, f, line, e) ==
  /\ e \in Disks /\ DOMAIN e = DOMAIN d /\ Len(d[f]) \in Nat
  /\ \A g \in DOMAIN d : g # f => e[g] = d[g]
  /\ DOMAIN e[f] = DOMAIN d[f] \cup {Len(d[f]) + 1} /\ Len(d[f]) + 1 \notin DOMAIN d[f]
  /\ \A k \in DOMAIN d[f] : e[f][k] = d[f][k] /\ k <= Len(d[f]) /\ k \in Nat
  /\ e[f][Len(d[f]) + 1] = line

(* What is in the files then.                                              *)
LEMMA AppendedIs ==
  ASSUME NEW d \in Disks, NEW f \in DOMAIN d, NEW line \in Lines
  PROVE  Grown(d, f, line, HL!AppendTo(d, f, line))
  <1> DEFINE e == HL!AppendTo(d, f, line)
             a == d[f]
  <1>1. a \in Seq(Lines) /\ \A g \in DOMAIN d : d[g] \in Seq(Lines)
    BY DiskIs
  <1>2. d = [g \in DOMAIN d |-> d[g]] /\ DOMAIN d \subseteq HL!Levels \X Nat
    BY DEF Disks
  <1>3. DOMAIN e = DOMAIN d /\ e[f] = Append(a, line) /\ \A g \in DOMAIN d : g # f => e[g] = d[g]
    BY <1>2 DEF HL!AppendTo
  <1>4. e = [g \in DOMAIN d |-> e[g]]
    BY <1>2 DEF HL!AppendTo
  <1> HIDE DEF e, a
  <1>5. /\ Append(a, line) \in Seq(Lines) /\ Len(a) \in Nat /\ Len(Append(a, line)) = Len(a) + 1
        /\ DOMAIN a = 1..Len(a) /\ DOMAIN Append(a, line) = 1..Len(a) + 1
        /\ \A k \in 1..Len(a) : Append(a, line)[k] = a[k]
        /\ Append(a, line)[Len(a) + 1] = line
    BY <1>1, AppendProperties
  <1>6. e \in Disks
    <2>1. \A g \in DOMAIN d : e[g] \in Seq(Lines)
      BY <1>1, <1>3, <1>5
    <2>2. e \in [DOMAIN d -> Seq(Lines)]
      BY <1>4, <2>1
    <2> QED
      BY <1>2, <2>2 DEF Disks
  <1>7. /\ DOMAIN Append(a, line) = DOMAIN a \cup {Len(a) + 1} /\ Len(a) + 1 \notin DOMAIN a
        /\ \A k \in DOMAIN a : k <= Len(a) /\ k \in Nat
    BY <1>5
  <1> QED
    BY <1>3, <1>5, <1>6, <1>7 DEF e, a, Grown

(* The line is the last of its level, as it is the last that was written.  *)
LEMMA AppendKeeps ==
  ASSUME NEW d \in Disks, NEW w \in [HL!Levels -> Seq(Lines)], NEW level \in HL!Levels, NEW u \in Nat,
         <<level, u>> \in DOMAIN d, \A f \in DOMAIN d : f[1] = level => f[2] <= u,
         NEW line \in Lines, NEW l \in HL!Levels, InTurn(d, w, l)
  PROVE  InTurn(HL!AppendTo(d, <<level, u>>, line),
                IF line.whole THEN [w EXCEPT ![level] = Append(@, line)] ELSE w, l)
  <1> DEFINE f == <<level, u>>
             e == HL!AppendTo(d, f, line)
             v == IF line.whole THEN [w EXCEPT ![level] = Append(@, line)] ELSE w
             K == KeptOf(d, l)
             n == Len(d[f]) + 1
             new == <<u, n>>
  <1>1. /\ e \in Disks /\ DOMAIN e = DOMAIN d /\ Len(d[f]) \in Nat
        /\ \A g \in DOMAIN d : g # f => e[g] = d[g]
        /\ DOMAIN e[f] = DOMAIN d[f] \cup {n} /\ n \notin DOMAIN d[f]
        /\ \A k \in DOMAIN d[f] : e[f][k] = d[f][k] /\ k <= Len(d[f]) /\ k \in Nat
        /\ e[f][n] = line
    <2>1. f \in DOMAIN d
      OBVIOUS
    <2>2. Grown(d, f, line, e)
      BY <2>1, AppendedIs
    <2> HIDE DEF f, e
    <2> QED
      BY <2>2 DEF Grown
  <1>2. f[1] = level /\ f[2] = u /\ new[1] = u /\ new[2] = n /\ n \in Nat /\ line.whole \in BOOLEAN
    BY <1>1 DEF Lines
  <1>3. IsFiniteSet(K) /\ Len(w[l]) = Cardinality(K)
        /\ \A p \in K : w[l][Cardinality(HL!UpToLine(K, p))] = d[<<l, p[1]>>][p[2]]
    BY DEF InTurn
  <1>4. \A p \in K : /\ p = <<p[1], p[2]>> /\ p[1] \in Nat /\ p[2] \in Nat /\ <<l, p[1]>> \in DOMAIN d
                     /\ p[2] \in DOMAIN d[<<l, p[1]>>] /\ d[<<l, p[1]>>][p[2]].whole
    BY KeptOfIs
  <1>5. \A p \in K : e[<<l, p[1]>>][p[2]] = d[<<l, p[1]>>][p[2]] /\ p[2] \in DOMAIN e[<<l, p[1]>>]
    <2> SUFFICES ASSUME NEW p \in K
                 PROVE  e[<<l, p[1]>>][p[2]] = d[<<l, p[1]>>][p[2]] /\ p[2] \in DOMAIN e[<<l, p[1]>>]
      OBVIOUS
    <2> DEFINE g == <<l, p[1]>>
    <2>1. g \in DOMAIN d /\ p[2] \in DOMAIN d[g]
      BY <1>4
    <2> HIDE DEF g, f, e, K, n
    <2>2. e[g][p[2]] = d[g][p[2]] /\ p[2] \in DOMAIN e[g]
      BY <1>1, <2>1
    <2> QED
      BY <2>2 DEF g
  <1>6. KeptOf(e, l) = IF l = level /\ line.whole THEN K \cup {new} ELSE K
    <2>1. ASSUME NEW p \in K PROVE p \in KeptOf(e, l)
      <3>1. /\ p = <<p[1], p[2]>> /\ <<l, p[1]>> \in DOMAIN e /\ p[2] \in DOMAIN e[<<l, p[1]>>]
            /\ e[<<l, p[1]>>][p[2]].whole /\ e \in Disks
        BY <1>1, <1>4, <1>5
      <3> HIDE DEF e, K
      <3>2. <<p[1], p[2]>> \in KeptOf(e, l)
        BY <3>1, KeptOfIs
      <3> QED
        BY <3>1, <3>2
    <2>2. ASSUME NEW p \in KeptOf(e, l) PROVE p \in K \/ (l = level /\ line.whole /\ p = new)
      <3> DEFINE g == <<l, p[1]>>
      <3>1. /\ p = <<p[1], p[2]>> /\ g \in DOMAIN d /\ p[2] \in DOMAIN e[g] /\ e[g][p[2]].whole
        BY <1>1, KeptOfIs
      <3>2. CASE p[2] \in DOMAIN d[g] /\ e[g][p[2]] = d[g][p[2]]
        BY <3>1, <3>2, KeptOfIs
      <3>3. CASE ~ (p[2] \in DOMAIN d[g] /\ e[g][p[2]] = d[g][p[2]])
        <4>1. g = f /\ p[2] = n
          <5> HIDE DEF g, f, e, n, K
          <5> QED
            BY <1>1, <3>1, <3>3
        <4>2. l = level /\ p[1] = u
          BY <4>1
        <4>3. line.whole
          BY <1>1, <3>1, <4>1
        <4> QED
          BY <3>1, <4>1, <4>2, <4>3
      <3> QED
        BY <3>2, <3>3
    <2>3. l = level /\ line.whole => new \in KeptOf(e, l)
      <3>1. f \in DOMAIN e /\ n \in DOMAIN e[f] /\ (line.whole => e[f][n].whole) /\ e \in Disks
        BY <1>1
      <3>2. f = <<level, u>>
        OBVIOUS
      <3> HIDE DEF e, f, n, K
      <3>3. ASSUME l = level, line.whole PROVE <<u, n>> \in KeptOf(e, l)
        <4>1. <<l, u>> \in DOMAIN e /\ n \in DOMAIN e[<<l, u>>] /\ e[<<l, u>>][n].whole /\ e \in Disks
          BY <3>1, <3>2, <3>3
        <4> QED
          BY <4>1, KeptOfIs
      <3> QED
        BY <3>3
    <2> HIDE DEF K, new, e
    <2> QED
      BY <2>1, <2>2, <2>3
  <1>7. CASE ~ (l = level /\ line.whole)
    <2>1. KeptOf(e, l) = K /\ v[l] = w[l]
      BY <1>6, <1>7
    <2> HIDE DEF e, v, K
    <2> QED
      BY <1>3, <1>5, <2>1 DEF InTurn, e, v, K
  <1>8. CASE l = level /\ line.whole
    <2>1. KeptOf(e, l) = K \cup {new} /\ v[l] = Append(w[l], line) /\ w[l] \in Seq(Lines)
      BY <1>6, <1>8
    <2>2. new \notin K /\ \A p \in K : p[1] < u \/ (p[1] = u /\ p[2] < n)
      <3>1. ASSUME NEW p \in K PROVE p[1] < u \/ (p[1] = u /\ p[2] < n)
        <4>1. p[1] \in Nat /\ <<l, p[1]>> \in DOMAIN d /\ <<l, p[1]>>[1] = l /\ <<l, p[1]>>[2] = p[1]
          BY <1>4
        <4>2. p[1] <= u
          BY <1>8, <4>1
        <4>3. p[1] = u => p[2] <= Len(d[f]) /\ p[2] \in Nat
          BY <1>1, <1>4, <1>8
        <4> QED
          BY <1>1, <4>1, <4>2, <4>3
      <3>2. ~ (new[1] < u) /\ ~ (new[2] < n)
        BY <1>2
      <3> QED
        BY <3>1, <3>2
    <2>a. \A p \in K : p[1] \in Nat /\ p[2] \in Nat
      BY <1>4
    <2>b. new[1] \in Nat /\ new[2] \in Nat /\ n \in Nat
      BY <1>2
    <2> HIDE DEF e, v, K, n, f, new
    <2>c. \A p \in K : new[1] >= p[1] /\ (new[1] = p[1] => new[2] > p[2])
      BY <1>2, <2>2, <2>a, <2>b
    <2>3. HL!UpToLine(K \cup {new}, new) = K \cup {new}
      BY <2>a, <2>b, <2>c DEF HL!UpToLine
    <2>4. ASSUME NEW p \in K
          PROVE  /\ HL!UpToLine(K \cup {new}, p) = HL!UpToLine(K, p)
                 /\ Cardinality(HL!UpToLine(K, p)) \in 1..Cardinality(K)
      <3>1. ~ (new[1] < p[1] \/ (new[1] = p[1] /\ new[2] <= p[2]))
        BY <2>a, <2>b, <2>c
      <3>2. HL!UpToLine(K \cup {new}, p) = HL!UpToLine(K, p)
        BY <3>1 DEF HL!UpToLine
      <3>3. HL!UpToLine(K, p) \subseteq K /\ p \in HL!UpToLine(K, p)
        BY <2>a DEF HL!UpToLine
      <3>4. /\ IsFiniteSet(HL!UpToLine(K, p)) /\ Cardinality(HL!UpToLine(K, p)) <= Cardinality(K)
            /\ Cardinality(K) \in Nat /\ Cardinality(HL!UpToLine(K, p)) \in Nat
        BY <1>3, <3>3, FS_Subset, FS_CardinalityType
      <3>5. Cardinality(HL!UpToLine(K, p)) # 0
        BY <3>3, <3>4, FS_EmptySet
      <3> QED
        BY <3>2, <3>4, <3>5
    <2>5. /\ IsFiniteSet(K \cup {new}) /\ Cardinality(K \cup {new}) = Cardinality(K) + 1
          /\ Cardinality(K) \in Nat
      BY <1>3, <2>2, FS_AddElement, FS_CardinalityType
    <2>6. /\ Len(v[l]) = Cardinality(K) + 1 /\ v[l][Cardinality(K) + 1] = line
          /\ \A i \in 1..Cardinality(K) : v[l][i] = w[l][i]
      BY <1>3, <2>1, AppendProperties
    <2>7. e[<<l, new[1]>>][new[2]] = line
      BY <1>1, <1>2, <1>8 DEF f
    <2>8. ASSUME NEW p \in K \cup {new}
          PROVE  v[l][Cardinality(HL!UpToLine(K \cup {new}, p))] = e[<<l, p[1]>>][p[2]]
      <3>1. CASE p = new
        BY <2>3, <2>5, <2>6, <2>7, <3>1
      <3>2. CASE p \in K
        BY <1>3, <1>5, <2>4, <2>6, <3>2
      <3> QED
        BY <3>1, <3>2
    <2>9. InTurn(e, v, l)
      BY <2>1, <2>5, <2>6, <2>8 DEF InTurn
    <2> QED
      BY <2>9 DEF e, v, f
  <1> QED
    BY <1>7, <1>8

(* A line is written to an open file.                                      *)
LEMMA WriteKeeps ==
  ASSUME NEW s, NEW t \in Nat, InOrder(s, t), NEW level \in HL!Levels, NEW u \in Nat,
         s.inst.loggers[level].file = <<u>>, NEW line \in Lines, line.whole = TRUE,
         HL!mday(line.time) = s.inst.mday, NEW bad
  PROVE  InOrder(HL!Write(s, level, line, bad), t) /\ HL!Write(s, level, line, bad).inst.mday = s.inst.mday
  <1> DEFINE file == <<level, u>>
             whole == "write" \notin bad
             onDisk == file \in DOMAIN s.disk
             torn == [line EXCEPT !.whole = whole]
             i == [s.inst EXCEPT !.loggers[level].fwrited = @ + line.size]
             d == IF onDisk THEN HL!AppendTo(s.disk, file, torn) ELSE s.disk
             w == IF onDisk /\ whole THEN [s.written EXCEPT ![level] = Append(@, line)] ELSE s.written
             after == [s EXCEPT !.disk = IF onDisk THEN HL!AppendTo(@, file, torn) ELSE @,
                                !.inst.loggers[level].fwrited = @ + line.size,
                                !.written[level] = IF onDisk /\ whole THEN Append(@, line) ELSE @]
  <1>1. /\ s \in Works /\ s.disk \in Disks /\ s.inst \in Loggers /\ s.written \in [HL!Levels -> Seq(Lines)]
        /\ Fits(s.inst, s.disk, s.written, t)
    BY DEF InOrder, Works
  <1>2. HL!Write(s, level, line, bad) = IF whole THEN after ELSE HL!throwErrorItem(after, level)
    <2>1. s.inst.loggers[level].file[1] = u
      OBVIOUS
    <2> QED
      BY <2>1 DEF HL!Write
  <1>3. /\ torn \in Lines /\ (torn.whole <=> whole) /\ (whole => torn = line) /\ torn.time = line.time
    BY DEF Lines
  <1>4. /\ i \in Loggers /\ i.mday = s.inst.mday
        /\ \A l \in HL!Levels : i.loggers[l].file = s.inst.loggers[l].file
    <2> DEFINE r == s.inst.loggers[level]
               q == [r EXCEPT !.fwrited = @ + line.size]
    <2>1. line.size \in Nat /\ r \in [file : FileHandles, fwrited : Nat]
      BY <1>1 DEF Lines, Loggers
    <2>2. q \in [file : FileHandles, fwrited : Nat] /\ q.file = r.file
      BY <2>1
    <2>3. i = [s.inst EXCEPT !.loggers = [@ EXCEPT ![level] = q]]
      OBVIOUS
    <2> HIDE DEF q, i
    <2> QED
      BY <1>1, <2>2, <2>3 DEF Loggers
  <1>5. OpenIsLast(s.inst, s.disk, t, level) /\ InDays(s.disk) /\ \A l \in HL!Levels : InTurn(s.disk, s.written, l)
    BY <1>1 DEF Fits
  <1>6. u <= t /\ s.inst.mday <= HL!mday(u) /\ \A f \in DOMAIN s.disk : f[1] = level => f[2] <= u
    BY <1>5 DEF OpenIsLast
  <1>7. onDisk => Grown(s.disk, file, torn, d)
    <2> HIDE DEF torn, file
    <2> QED
      BY <1>1, <1>3, AppendedIs
  <1>8. d \in Disks /\ DOMAIN d = DOMAIN s.disk
    <2> HIDE DEF torn, file
    <2> QED
      BY <1>1, <1>7 DEF Grown
  <1>9. w \in [HL!Levels -> Seq(Lines)]
    BY <1>1
  <1>10. after \in Works /\ after.inst = i /\ after.disk = d /\ after.written = w
    <2>1. after.disk = d
      <3> HIDE DEF onDisk, whole, torn, file
      <3>1. after.disk = IF onDisk THEN HL!AppendTo(s.disk, file, torn) ELSE s.disk
        BY <1>1 DEF Works
      <3> HIDE DEF after
      <3> QED
        BY <3>1 DEF HL!AppendTo
    <2>2. after.inst = i
      BY <1>1 DEF Works
    <2>3. after.written = w
      <3>1. after.written = [s.written EXCEPT ![level] = IF onDisk /\ whole THEN Append(@, line) ELSE @]
        BY <1>1 DEF Works
      <3> HIDE DEF after
      <3> QED
        BY <1>1, <3>1
    <2>4. /\ after.dir = s.dir /\ after.ok = s.ok
          /\ after = [f \in {"inst", "disk", "dir", "written", "ok"} |-> after[f]]
      <3> HIDE DEF onDisk, whole, torn, file
      <3>1. after.dir = s.dir /\ after.ok = s.ok
        BY <1>1 DEF Works
      <3>2. after = [f \in DOMAIN s |-> after[f]] /\ DOMAIN s = {"inst", "disk", "dir", "written", "ok"}
        BY <1>1 DEF Works
      <3> QED
        BY <3>1, <3>2
    <2> HIDE DEF d, w, i, after
    <2> QED
      BY <1>1, <1>4, <1>8, <1>9, <2>1, <2>2, <2>3, <2>4 DEF Works
  <1>11. InDays(d)
    <2>1. CASE onDisk
      <3>1. Grown(s.disk, file, torn, d) /\ file \in DOMAIN s.disk /\ file[2] = u
        BY <1>7, <2>1
      <3>2. HL!mday(torn.time) <= HL!mday(u)
        BY <1>3, <1>6
      <3> HIDE DEF d, file, torn
      <3> QED
        BY <1>5, <3>1, <3>2 DEF InDays, Grown
    <2>2. CASE ~ onDisk
      BY <1>5, <2>2
    <2> QED
      BY <2>1, <2>2
  <1>12. ASSUME NEW l \in HL!Levels PROVE InTurn(d, w, l)
    <2>1. CASE onDisk
      <3>1. w = IF torn.whole THEN [s.written EXCEPT ![level] = Append(@, torn)] ELSE s.written
        BY <1>3, <2>1
      <3>2. d = HL!AppendTo(s.disk, <<level, u>>, torn) /\ <<level, u>> \in DOMAIN s.disk
        BY <2>1
      <3> HIDE DEF d, w, torn
      <3>3. InTurn(HL!AppendTo(s.disk, <<level, u>>, torn),
                   IF torn.whole THEN [s.written EXCEPT ![level] = Append(@, torn)] ELSE s.written, l)
        BY <1>1, <1>3, <1>5, <1>6, <3>2, AppendKeeps
      <3> QED
        BY <3>1, <3>2, <3>3
    <2>2. CASE ~ onDisk
      BY <1>5, <2>2
    <2> QED
      BY <2>1, <2>2
  <1>13. ASSUME NEW l \in HL!Levels PROVE OpenIsLast(i, d, t, l)
    <2> HIDE DEF i, d
    <2> QED
      BY <1>1, <1>4, <1>8 DEF Fits, OpenIsLast
  <1> HIDE DEF i, d, w, after
  <1>14. InOrder(after, t)
    BY <1>1, <1>8, <1>10, <1>11, <1>12, <1>13 DEF Fits, InOrder
  <1> HIDE DEF whole
  <1> QED
    BY <1>2, <1>4, <1>10, <1>14, CloseKeeps

(* A message is written to the file of one level, if there is one.         *)
LEMMA OutputKeeps ==
  ASSUME HL!LoggerAssumption, NEW s, NEW t \in Nat, InOrder(s, t), NEW level \in HL!Levels,
         NEW line \in Lines, line.whole = TRUE, HL!mday(line.time) = s.inst.mday,
         s.inst.mday <= HL!mday(t), NEW bad
  PROVE  /\ InOrder(HL!logger_output(s, level, line, t, bad), t)
         /\ HL!logger_output(s, level, line, t, bad).inst.mday = s.inst.mday
  <1> DEFINE ready == [s EXCEPT !.ok = TRUE]
             open == IF ready.inst.loggers[level].file = <<>>
                     THEN HL!createLoggerFile(ready, level, t, bad) ELSE ready
             room == IF open.ok /\ open.inst.loggers[level].fwrited > fsize
                     THEN HL!rollFile(open, level, t, bad) ELSE open
  <1>1. HL!logger_output(s, level, line, t, bad) = IF room.ok THEN HL!Write(room, level, line, bad) ELSE room
    BY DEF HL!logger_output
  <1>2. InOrder(ready, t) /\ ready.inst.mday = s.inst.mday
    <2>1. ready \in Works /\ ready.inst = s.inst /\ ready.disk = s.disk /\ ready.written = s.written
      BY DEF InOrder, Works
    <2> HIDE DEF ready
    <2> QED
      BY <2>1 DEF InOrder
  <1> DEFINE Has(z) == \E u \in Nat : z.inst.loggers[level].file = <<u>>
  <1>3. ASSUME NEW z, InOrder(z, t), z.inst.mday = s.inst.mday
        PROVE  LET y == HL!createLoggerFile(z, level, t, bad) IN
               InOrder(y, t) /\ y.inst.mday = s.inst.mday /\ (y.ok => Has(y))
    BY <1>3, CreateKeeps
  <1>4. InOrder(open, t) /\ open.inst.mday = s.inst.mday /\ (open.ok => Has(open))
    <2> HIDE DEF ready
    <2>1. CASE ready.inst.loggers[level].file = <<>>
      <3>1. open = HL!createLoggerFile(ready, level, t, bad)
        BY <2>1
      <3> QED
        BY <1>2, <1>3, <3>1
    <2>2. CASE ready.inst.loggers[level].file # <<>>
      <3>1. ready.inst.loggers[level].file \in FileHandles
        BY <1>2 DEF InOrder, Works, Loggers
      <3>2. Has(ready)
        BY <2>2, <3>1 DEF FileHandles
      <3> QED
        BY <1>2, <2>2, <3>2
    <2> QED
      BY <2>1, <2>2
  <1> HIDE DEF open
  <1>5. InOrder(room, t) /\ room.inst.mday = s.inst.mday /\ (room.ok => Has(room))
    <2>1. CASE open.ok /\ open.inst.loggers[level].fwrited > fsize
      <3>1. room = HL!createLoggerFile(HL!closeFile(open, level), level, t, bad)
        BY <2>1 DEF HL!rollFile
      <3>2. InOrder(HL!closeFile(open, level), t) /\ HL!closeFile(open, level).inst.mday = s.inst.mday
        BY <1>4, CloseKeeps
      <3> QED
        BY <1>3, <3>1, <3>2
    <2>2. CASE ~ (open.ok /\ open.inst.loggers[level].fwrited > fsize)
      BY <1>4, <2>2
    <2> QED
      BY <2>1, <2>2
  <1> HIDE DEF room
  <1>6. CASE room.ok
    <2>1. PICK u \in Nat : room.inst.loggers[level].file = <<u>>
      BY <1>5, <1>6
    <2>2. HL!mday(line.time) = room.inst.mday
      BY <1>5
    <2>3. /\ InOrder(HL!Write(room, level, line, bad), t)
          /\ HL!Write(room, level, line, bad).inst.mday = room.inst.mday
      BY <1>5, <2>1, <2>2, WriteKeeps
    <2> QED
      BY <1>1, <1>5, <1>6, <2>3
  <1>7. CASE ~ room.ok
    BY <1>1, <1>5, <1>7
  <1> QED
    BY <1>6, <1>7

(* What is so between two callbacks.                                       *)
LoggerInv == InOrder(HL!Here, clock) /\ clock \in Nat /\ msgs \in Nat

(* Time passes.                                                            *)
LEMMA LaterKeeps ==
  ASSUME NEW s, NEW t \in Nat, NEW later \in Nat, t <= later, InOrder(s, t)
  PROVE  InOrder(s, later)
  <1>1. s.disk \in Disks
    BY DEF InOrder, Works
  <1>2. \A f \in DOMAIN s.disk : f[2] \in Nat
    BY <1>1, DiskIs
  <1>3. \A f \in DOMAIN s.disk : f[2] <= later
    BY <1>2 DEF InOrder, Fits
  <1>4. ASSUME NEW level \in HL!Levels PROVE OpenIsLast(s.inst, s.disk, later, level)
    BY DEF InOrder, Fits, OpenIsLast
  <1> QED
    BY <1>3, <1>4 DEF InOrder, Fits

(* The first message of a day closes the files of the day before.          *)
LEMMA NewDayKeeps ==
  ASSUME HL!LoggerAssumption, NEW s, clock \in Nat, InOrder(s, clock)
  PROVE  InOrder(HL!NewDay(s), clock) /\ HL!NewDay(s).inst.mday = HL!mday(clock)
  <1>1. CASE s.inst.mday = HL!mday(clock)
    BY <1>1 DEF HL!NewDay
  <1>2. CASE s.inst.mday # HL!mday(clock)
    <2> DEFINE c == HL!closeAllFiles(s)
               z == [c EXCEPT !.inst.mday = HL!mday(clock)]
    <2>1. HL!NewDay(s) = z
      BY <1>2 DEF HL!NewDay
    <2>2. "INFO" \in HL!Levels
      BY DEF HL!Levels
    <2>3. InOrder(c, clock)
      BY <2>2, CloseKeeps
    <2>4. \A l \in HL!Levels : c.inst.loggers[l].file = <<>>
      BY DEF HL!closeAllFiles, InOrder, Works, Loggers
    <2> HIDE DEF c
    <2>5. c \in Works /\ HL!mday(clock) \in Nat
      BY <2>3, DayGrows DEF InOrder
    <2>6. /\ z \in Works /\ z.inst.loggers = c.inst.loggers /\ z.inst.mday = HL!mday(clock)
          /\ z.disk = c.disk /\ z.written = c.written
      <3> DEFINE i == [c.inst EXCEPT !.mday = HL!mday(clock)]
      <3>1. i \in Loggers /\ i.loggers = c.inst.loggers /\ i.mday = HL!mday(clock)
        BY <2>5 DEF Works, Loggers
      <3>2. z = [c EXCEPT !.inst = i]
        OBVIOUS
      <3> HIDE DEF i, z
      <3> QED
        BY <2>5, <3>1, <3>2 DEF Works
    <2> HIDE DEF z
    <2>7. \A l \in HL!Levels : OpenIsLast(z.inst, z.disk, clock, l)
      <3>1. \A u : <<u>> # <<>>
        OBVIOUS
      <3> QED
        BY <2>4, <2>6, <3>1 DEF OpenIsLast
    <2>8. InOrder(z, clock)
      BY <2>3, <2>6, <2>7 DEF InOrder, Fits
    <2> QED
      BY <2>1, <2>6, <2>8
  <1> QED
    BY <1>1, <1>2

(* What a callback works on is the state.                                  *)
LEMMA HereIs == /\ HL!Here.inst = inst /\ HL!Here.disk = disk /\ HL!Here.dir = dir
                /\ HL!Here.written = written
  BY DEF HL!Here

(* The state between callbacks, taken from what a callback ends with.      *)
LEMMA HereFrom ==
  ASSUME NEW z, NEW t, InOrder(z, t), inst' = z.inst, disk' = z.disk, dir' = z.dir,
         written' = z.written
  PROVE  InOrder(HL!Here, t)'
  <1>1. z \in Works
    BY DEF InOrder
  <1>2. /\ HL!Here' \in Works /\ HL!Here'.inst = z.inst /\ HL!Here'.disk = z.disk
        /\ HL!Here'.written = z.written
    BY <1>1 DEF HL!Here, Works
  <1> QED
    BY <1>2 DEF InOrder

(* It is so at first,                                                      *)
LEMMA LoggerInit == HL!LoggerAssumption /\ HL!Init => LoggerInv
  <1> SUFFICES ASSUME HL!LoggerAssumption, HL!Init PROVE LoggerInv
    OBVIOUS
  <1>1. HL!mday(0) \in Nat
    BY DayGrows
  <1>2. disk \in Disks /\ DOMAIN disk = {} /\ clock = 0 /\ msgs = 0 /\ dir \in BOOLEAN
    <2>1. disk = [f \in {} |-> <<>>] /\ clock = 0 /\ msgs = 0 /\ dir \in BOOLEAN
      BY DEF HL!Init
    <2>2. disk \in [{} -> Seq(Lines)] /\ {} \in SUBSET (HL!Levels \X Nat) /\ DOMAIN disk = {}
      BY <2>1
    <2> QED
      BY <2>1, <2>2 DEF Disks
  <1>3. inst \in Loggers /\ \A l \in HL!Levels : inst.loggers[l].file = <<>>
    BY <1>1 DEF HL!Init, Loggers, FileHandles
  <1>4. written \in [HL!Levels -> Seq(Lines)] /\ \A l \in HL!Levels : written[l] = <<>>
    <2>1. <<>> \in Seq(Lines)
      OBVIOUS
    <2> QED
      BY <2>1 DEF HL!Init
  <1>5. HL!Here \in Works
    BY <1>2, <1>3, <1>4 DEF HL!Here, Works
  <1>6. \A l : KeptOf(disk, l) = {}
    BY <1>2 DEF KeptOf
  <1>7. \A l \in HL!Levels : InTurn(disk, written, l)
    <2>1. IsFiniteSet({}) /\ Cardinality({}) = 0 /\ Len(<<>>) = 0
      BY FS_EmptySet
    <2> QED
      BY <1>4, <1>6, <2>1 DEF InTurn
  <1>8. \A l \in HL!Levels : OpenIsLast(inst, disk, 0, l)
    <2>1. \A u : <<u>> # <<>>
      OBVIOUS
    <2> QED
      BY <1>3, <2>1 DEF OpenIsLast
  <1>9. Fits(inst, disk, written, 0)
    BY <1>2, <1>7, <1>8 DEF Fits, InDays
  <1> QED
    BY <1>2, <1>5, <1>9, HereIs DEF LoggerInv, InOrder

(* a callback, whatever fails in it, keeps it so,                          *)
LEMMA CallbackKeeps ==
  ASSUME HL!LoggerAssumption, LoggerInv, NEW type, NEW size \in Sizes, NEW second \in clock..MaxClock,
         NEW bad, HL!hlogger_cb(type, size, second, bad)
  PROVE  LoggerInv'
  <1> DEFINE line == [id |-> msgs + 1, time |-> clock, size |-> size, whole |-> TRUE]
             day == HL!NewDay(HL!Here)
             own == HL!OwnFile(day, type, line, second, bad)
             after == HL!logger_output(own, "INFO", line, second, bad)
  <1>1. clock \in Nat /\ msgs \in Nat /\ size \in Nat /\ second \in Nat /\ clock <= second
    BY DEF LoggerInv, HL!LoggerAssumption
  <1>2. /\ msgs' = msgs + 1 /\ clock' = second /\ inst' = after.inst /\ disk' = after.disk
        /\ dir' = after.dir /\ written' = after.written
    BY DEF HL!hlogger_cb
  <1>3. line \in Lines /\ line.whole = TRUE /\ line.time = clock
    BY <1>1 DEF Lines
  <1>4. InOrder(day, second) /\ day.inst.mday = HL!mday(clock) /\ HL!mday(clock) <= HL!mday(second)
    <2>1. InOrder(day, clock) /\ day.inst.mday = HL!mday(clock)
      BY <1>1, NewDayKeeps DEF LoggerInv
    <2> HIDE DEF day
    <2> QED
      BY <1>1, <2>1, LaterKeeps, DayGrows
  <1> HIDE DEF line, day
  <1>5. InOrder(own, second) /\ own.inst.mday = HL!mday(clock)
    <2>1. CASE type \in {"ERROR", "WARN"}
      <3>1. own = HL!logger_output(day, type, line, second, bad) /\ type \in HL!Levels
        BY <2>1 DEF HL!OwnFile, HL!Levels
      <3> HIDE DEF own
      <3> QED
        BY <1>1, <1>3, <1>4, <3>1, OutputKeeps
    <2>2. CASE type \notin {"ERROR", "WARN"}
      <3>1. own = day
        BY <2>2 DEF HL!OwnFile
      <3> HIDE DEF own
      <3> QED
        BY <1>4, <3>1
    <2> QED
      BY <2>1, <2>2
  <1> HIDE DEF own
  <1>6. InOrder(after, second)
    <2>1. "INFO" \in HL!Levels
      BY DEF HL!Levels
    <2> QED
      BY <1>1, <1>3, <1>4, <1>5, <2>1, OutputKeeps
  <1> HIDE DEF after
  <1>7. InOrder(HL!Here, second)'
    BY <1>2, <1>6, HereFrom
  <1> QED
    BY <1>1, <1>2, <1>7 DEF LoggerInv

(* so does every step,                                                     *)
LEMMA LoggerNext == HL!LoggerAssumption /\ LoggerInv /\ [HL!Next]_hlVars => LoggerInv'
  <1> SUFFICES ASSUME HL!LoggerAssumption, LoggerInv, [HL!Next]_hlVars PROVE LoggerInv'
    OBVIOUS
  <1>1. ASSUME NEW type \in HL!Types, NEW size \in Sizes, NEW second \in clock..MaxClock,
               NEW bad \in SUBSET {"open", "mkdir", "write"}, HL!hlogger_cb(type, size, second, bad)
        PROVE  LoggerInv'
    BY <1>1, CallbackKeeps
  <1>2. CASE HL!Tick
    <2>1. clock' = clock + 1 /\ msgs' = msgs /\ HL!Here' = HL!Here
      BY <1>2 DEF HL!Tick, HL!Here
    <2>2. clock \in Nat /\ clock' \in Nat /\ clock <= clock' /\ InOrder(HL!Here, clock) /\ msgs \in Nat
      BY <2>1 DEF LoggerInv
    <2>3. InOrder(HL!Here, clock')
      BY <2>2, LaterKeeps
    <2> QED
      BY <2>1, <2>2, <2>3 DEF LoggerInv
  <1>3. CASE HL!RemoveDir
    <2> DEFINE z == [inst |-> inst, disk |-> [f \in {} |-> <<>>], dir |-> FALSE,
                     written |-> [l \in HL!Levels |-> <<>>], ok |-> TRUE]
    <2>1. HL!Here' = z /\ clock' = clock /\ msgs' = msgs
      BY <1>3 DEF HL!RemoveDir, HL!Here
    <2>2. inst \in Loggers /\ clock \in Nat /\ msgs \in Nat /\ Fits(inst, disk, written, clock)
      BY HereIs DEF LoggerInv, InOrder, Works
    <2>3. z.disk \in Disks /\ DOMAIN z.disk = {}
      <3>1. z.disk \in [{} -> Seq(Lines)] /\ {} \in SUBSET (HL!Levels \X Nat) /\ DOMAIN z.disk = {}
        OBVIOUS
      <3> QED
        BY <3>1 DEF Disks
    <2>4. z.written \in [HL!Levels -> Seq(Lines)] /\ \A l \in HL!Levels : z.written[l] = <<>>
      <3>1. <<>> \in Seq(Lines)
        OBVIOUS
      <3> QED
        BY <3>1
    <2>5. z \in Works /\ z.inst = inst
      BY <2>2, <2>3, <2>4 DEF Works
    <2> HIDE DEF z
    <2>6. \A l \in HL!Levels : InTurn(z.disk, z.written, l)
      <3>1. IsFiniteSet({}) /\ Cardinality({}) = 0 /\ Len(<<>>) = 0
        BY FS_EmptySet
      <3>2. \A l : KeptOf(z.disk, l) = {}
        BY <2>3 DEF KeptOf
      <3> QED
        BY <2>4, <3>1, <3>2 DEF InTurn
    <2>7. \A l \in HL!Levels : OpenIsLast(z.inst, z.disk, clock, l)
      BY <2>2, <2>3, <2>5 DEF OpenIsLast, Fits
    <2>8. InOrder(z, clock)
      BY <2>3, <2>5, <2>6, <2>7 DEF InOrder, Fits, InDays
    <2> QED
      BY <2>1, <2>2, <2>8 DEF LoggerInv
  <1>4. CASE UNCHANGED hlVars
    <2>1. clock' = clock /\ msgs' = msgs /\ HL!Here' = HL!Here
      BY <1>4 DEF hlVars, HL!Here
    <2> QED
      BY <2>1 DEF LoggerInv
  <1> QED
    BY <1>1, <1>2, <1>3, <1>4 DEF HL!Next

(* and where it is so nothing is lost or misplaced.                        *)
LEMMA LoggerIsRight == LoggerInv => HL!LogIsRight
  <1> SUFFICES ASSUME LoggerInv PROVE HL!LogIsRight
    OBVIOUS
  <1>1. Fits(inst, disk, written, clock)
    BY HereIs DEF LoggerInv, InOrder
  <1>2. \A l : HL!Kept(l) = KeptOf(disk, l)
    BY DEF HL!Kept, KeptOf
  <1>3. \A S : HL!Cardinality(S) = Cardinality(S)
    BY DEF HL!Cardinality, Cardinality
  <1>4. HL!EveryMessageIsKept
    BY <1>1, <1>2, <1>3 DEF HL!EveryMessageIsKept, Fits, InTurn
  <1>5. HL!DayIsRight
    BY <1>1 DEF HL!DayIsRight, Fits, InDays
  <1> QED
    BY <1>4, <1>5 DEF HL!LogIsRight

(* Whatever is torn, fails, vanishes and is opened again, and however the  *)
(* days change: the files hold what was written, in order and whole, and   *)
(* none of it is in a file of a day that was over.                         *)
THEOREM LogCorrect == STSpec => []LogIsRight
  <1> USE StructuresAssumption
  <1>1. STInit => LoggerInv
    BY LoggerInit DEF STInit
  <1>2. LoggerInv /\ [InList \/ InLogger \/ InTimer]_stVars => LoggerInv'
    <2> SUFFICES ASSUME LoggerInv, [InList \/ InLogger \/ InTimer]_stVars PROVE LoggerInv'
      OBVIOUS
    <2>1. HL!Next \/ UNCHANGED hlVars
      BY DEF InList, InLogger, InTimer, stVars
    <2> QED
      BY <2>1, LoggerNext
  <1>3. LoggerInv => LogIsRight
    BY LoggerIsRight DEF LogIsRight
  <1> QED
    BY <1>1, <1>2, <1>3, PTL DEF STSpec

-----------------------------------------------------------------------------
(* The timing wheel.  Quotients and remainders:                            *)
LEMMA DivMod ==
  ASSUME NEW a \in Nat, NEW w \in Nat \ {0}
  PROVE  /\ a \div w \in Nat /\ a % w \in 0..w - 1
         /\ a = w * (a \div w) + (a % w)
  <1>1. a \in Int /\ w \in Int /\ w > 0
    OBVIOUS
  <1>2. a = w * (a \div w) + (a % w)
    BY <1>1
  <1>3. a \div w \in Nat /\ a % w \in 0..w - 1
    OBVIOUS
  <1> QED
    BY <1>2, <1>3

LEMMA DivModOnly ==
  ASSUME NEW w \in Nat \ {0}, NEW k \in Nat, NEW r \in 0..w - 1
  PROVE  (w * k + r) \div w = k /\ (w * k + r) % w = r
  OBVIOUS

LEMMA DivOfDiv ==
  ASSUME NEW a \in Nat, NEW w \in Nat \ {0}, NEW l \in Nat \ {0}
  PROVE  a \div (l * w) = (a \div w) \div l
  OBVIOUS

LEMMA DivGrows ==
  ASSUME NEW w \in Nat \ {0}, NEW a \in Nat, NEW b \in Nat, a <= b
  PROVE  a \div w <= b \div w
  OBVIOUS

LEMMA DivBelow ==
  ASSUME NEW w \in Nat \ {0}, NEW l \in Nat \ {0}, NEW a \in Nat, a < l * w
  PROVE  a \div w \in 0..l - 1
  OBVIOUS

(* One tick later the quotient is the next one, or it is the same.         *)
LEMMA DivNext ==
  ASSUME NEW w \in Nat \ {0}, NEW a \in Nat
  PROVE  /\ (a + 1) % w = 0 => (a + 1) \div w = (a \div w) + 1
         /\ (a + 1) % w # 0 => (a + 1) \div w = a \div w
  OBVIOUS

(* What is not below a multiple is not below what it is a multiple of.     *)
LEMMA MultipleBelow ==
  ASSUME NEW w \in Nat \ {0}, NEW a \in Nat, NEW b \in Nat, a % w = 0
  PROVE  a <= b <=> a \div w <= b \div w
  OBVIOUS

LEMMA MultipleDivides ==
  ASSUME NEW w \in Nat \ {0}, NEW l \in Nat \ {0}, NEW a \in Nat
  PROVE  a % (l * w) = 0 <=> a % w = 0 /\ (a \div w) % l = 0
  <1>1. l * w \in Nat \ {0} /\ 0 \in 0..w - 1 /\ 0 \in 0..l - 1 /\ 0 \in 0..(l * w) - 1
    OBVIOUS
  <1>2. ASSUME a % (l * w) = 0 PROVE a % w = 0 /\ (a \div w) % l = 0
    <2> DEFINE k == a \div (l * w)
    <2>1. k \in Nat /\ a = (l * w) * k + 0
      BY <1>1, <1>2, DivMod
    <2> HIDE DEF k
    <2>2. l * k \in Nat /\ a = w * (l * k) + 0 /\ l * k = l * k + 0
      BY <2>1
    <2>3. a \div w = l * k /\ a % w = 0
      BY <1>1, <2>2, DivModOnly
    <2>4. (l * k + 0) % l = 0
      BY <1>1, <2>1, DivModOnly
    <2> QED
      BY <2>2, <2>3, <2>4
  <1>3. ASSUME a % w = 0, (a \div w) % l = 0 PROVE a % (l * w) = 0
    <2> DEFINE q == a \div w
               k == q \div l
    <2>1. q \in Nat /\ a = w * q + 0
      BY <1>3, DivMod
    <2>2. q = l * k + 0 /\ k \in Nat
      BY <1>3, <2>1, DivMod
    <2> HIDE DEF k, q
    <2>3. a = (l * w) * k + 0
      BY <2>1, <2>2
    <2> QED
      BY <1>1, <2>2, <2>3, DivModOnly
  <1> QED
    BY <1>2, <1>3

LEMMA Close ==
  ASSUME NEW w \in Nat \ {0}, NEW a \in Nat, NEW b \in Nat, a \div w = b \div w
  PROVE  a - b < w /\ b - a < w
  OBVIOUS

(* The way round from one time to another.                                 *)
LEMMA Distance ==
  ASSUME NEW m \in Nat \ {0}, NEW a \in 0..m - 1, NEW b \in 0..m - 1
  PROVE  (a + m - b) % m = IF b <= a THEN a - b ELSE (a + m) - b
  OBVIOUS

LEMMA Later ==
  ASSUME NEW m \in Nat \ {0}, NEW a \in 0..m - 1, NEW d \in 0..m - 1
  PROVE  (a + d) % m = IF a + d < m THEN a + d ELSE (a + d) - m
  OBVIOUS

-----------------------------------------------------------------------------
(* The widths of the levels, each a multiple of the one below.             *)
W(i) == TW!Width[i]

LEMMA WidthIs ==
  ASSUME TW!WheelAssumption
  PROVE  /\ W(0) = TIME_NEAR
         /\ \A i \in Nat : W(i) \in Nat \ {0} /\ W(i + 1) = TIME_LEVEL * W(i)
  <1> DEFINE link == [x \in Nat |-> TIME_LEVEL * x]
  <1>1. TIME_NEAR \in Nat \ {0} /\ TIME_LEVEL \in Nat \ {0, 1}
    BY DEF TW!WheelAssumption
  <1>2. link \in [Nat -> Nat] /\ \A x \in Nat : link[x] = TIME_LEVEL * x
    BY <1>1
  <1> HIDE DEF link
  <1>3. \E f : f = [i \in Nat |-> IF i = 0 THEN TIME_NEAR ELSE TIME_LEVEL * f[i - 1]]
    <2>1. PICK f \in [Nat -> Nat] : Loops(TIME_NEAR, link, f)
      BY <1>1, <1>2, LoopExists
    <2>2. ASSUME NEW i \in Nat PROVE f[i] = IF i = 0 THEN TIME_NEAR ELSE TIME_LEVEL * f[i - 1]
      <3>1. i # 0 => i - 1 \in Nat
        OBVIOUS
      <3>2. i # 0 => f[i - 1] \in Nat
        BY <2>1, <3>1
      <3> QED
        BY <1>2, <2>1, <3>2 DEF Loops
    <2>3. f = [i \in Nat |-> f[i]]
      BY <2>1
    <2> HIDE <2>1
    <2>4. [i \in Nat |-> f[i]] = [i \in Nat |-> IF i = 0 THEN TIME_NEAR ELSE TIME_LEVEL * f[i - 1]]
      BY <2>2
    <2> QED
      BY <2>3, <2>4
  <1>4. TW!Width = [i \in Nat |-> IF i = 0 THEN TIME_NEAR ELSE TIME_LEVEL * TW!Width[i - 1]]
    BY <1>3 DEF TW!Width
  <1>5. \A i \in Nat : W(i) = IF i = 0 THEN TIME_NEAR ELSE TIME_LEVEL * W(i - 1)
    BY <1>4 DEF W
  <1>6. \A i \in Nat : W(i + 1) = TIME_LEVEL * W(i)
    <2> SUFFICES ASSUME NEW i \in Nat PROVE W(i + 1) = TIME_LEVEL * W(i)
      OBVIOUS
    <2>1. i + 1 \in Nat /\ i + 1 # 0 /\ (i + 1) - 1 = i
      OBVIOUS
    <2>2. W(i + 1) = TIME_LEVEL * W((i + 1) - 1)
      BY <1>5, <2>1
    <2> QED
      BY <2>1, <2>2
  <1> DEFINE S == {i \in Nat : W(i) \in Nat \ {0}}
  <1>7. 0 \in S
    BY <1>1, <1>5
  <1>8. ASSUME NEW i \in S PROVE i + 1 \in S
    <2>1. W(i + 1) = TIME_LEVEL * W(i)
      BY <1>6
    <2>2. i \in Nat /\ W(i) \in Nat \ {0}
      OBVIOUS
    <2>3. TIME_LEVEL * W(i) \in Nat \ {0}
      BY <1>1, <2>2
    <2> QED
      BY <2>1, <2>2, <2>3
  <1>9. S \in SUBSET Nat
    OBVIOUS
  <1> HIDE DEF S
  <1>10. \A i \in Nat : i \in S
    BY <1>7, <1>8, <1>9, Induct
  <1> QED
    BY <1>5, <1>6, <1>10 DEF S

(* What is the same at one level is the same at those above it.            *)
LEMMA SameAbove ==
  ASSUME TW!WheelAssumption, NEW a \in Nat, NEW b \in Nat, NEW i \in Nat, NEW j \in Nat, i <= j,
         a \div W(i) = b \div W(i)
  PROVE  a \div W(j) = b \div W(j)
  <1> DEFINE S == {n \in Nat : i <= n => a \div W(n) = b \div W(n)}
  <1>1. TIME_LEVEL \in Nat \ {0}
    BY DEF TW!WheelAssumption
  <1>2. 0 \in S
    <2>1. i <= 0 => i = 0
      OBVIOUS
    <2> QED
      BY <2>1
  <1>3. ASSUME NEW n \in S PROVE n + 1 \in S
    <2>1. n \in Nat /\ (i <= n + 1 => i <= n \/ i = n + 1)
      OBVIOUS
    <2>2. CASE i <= n
      <3>1. a \div W(n) = b \div W(n) /\ W(n) \in Nat \ {0} /\ W(n + 1) = TIME_LEVEL * W(n)
        BY <2>1, <2>2, WidthIs
      <3>2. /\ a \div (TIME_LEVEL * W(n)) = (a \div W(n)) \div TIME_LEVEL
            /\ b \div (TIME_LEVEL * W(n)) = (b \div W(n)) \div TIME_LEVEL
        BY <1>1, <3>1, DivOfDiv
      <3> QED
        BY <2>1, <3>1, <3>2
    <2>3. CASE i = n + 1
      BY <2>1, <2>3
    <2> QED
      BY <2>1, <2>2, <2>3
  <1>4. S \in SUBSET Nat
    OBVIOUS
  <1> HIDE DEF S
  <1>5. j \in S
    BY <1>2, <1>3, <1>4, Induct
  <1> QED
    BY <1>5 DEF S

(* A multiple of one width is one of those below.                          *)
LEMMA MultipleDown ==
  ASSUME TW!WheelAssumption, NEW a \in Nat, NEW i \in Nat, NEW j \in Nat, i <= j, a % W(j) = 0
  PROVE  a % W(i) = 0
  <1> DEFINE S == {n \in Nat : i <= n /\ a % W(n) = 0 => a % W(i) = 0}
  <1>1. TIME_LEVEL \in Nat \ {0}
    BY DEF TW!WheelAssumption
  <1>2. 0 \in S
    <2>1. i <= 0 => i = 0
      OBVIOUS
    <2> QED
      BY <2>1
  <1>3. ASSUME NEW n \in S PROVE n + 1 \in S
    <2>1. n \in Nat /\ (i <= n + 1 => i <= n \/ i = n + 1)
      OBVIOUS
    <2>2. CASE i <= n
      <3>1. W(n) \in Nat \ {0} /\ W(n + 1) = TIME_LEVEL * W(n)
        BY <2>1, WidthIs
      <3>2. a % W(n + 1) = 0 => a % W(n) = 0
        BY <1>1, <3>1, MultipleDivides
      <3> QED
        BY <2>1, <2>2, <3>2
    <2>3. CASE i = n + 1
      BY <2>1, <2>3
    <2> QED
      BY <2>1, <2>2, <2>3
  <1>4. S \in SUBSET Nat
    OBVIOUS
  <1> HIDE DEF S
  <1>5. j \in S
    BY <1>2, <1>3, <1>4, Induct
  <1> QED
    BY <1>5 DEF S

-----------------------------------------------------------------------------
(* Where a timer is: near, on the last level, or on one below.             *)
TopLevel == LEVELS - 1
Around == W(LEVELS)
Times == 0..Around - 1

WheelPlaces == ({LEVELS} \X (0..TIME_NEAR - 1)) \cup ((0..TopLevel) \X (0..TIME_LEVEL - 1))

IsNear(idx, e, now) == e % TIME_NEAR = idx /\ e \div TIME_NEAR = now \div TIME_NEAR /\ now <= e
IsFar(idx, e, now) == e \div W(TopLevel) = idx /\ e \div W(TopLevel) # now \div W(TopLevel)
IsBetween(i, idx, e, now) ==
  /\ (e \div W(i)) % TIME_LEVEL = idx
  /\ e \div W(i + 1) = now \div W(i + 1) /\ now \div W(i) < e \div W(i)

InPlace(k, e, now) ==
  IF k[1] = LEVELS THEN IsNear(k[2], e, now)
  ELSE IF k[1] = TopLevel THEN IsFar(k[2], e, now) ELSE IsBetween(k[1], k[2], e, now)

(* What is before now has a time that is far ahead.                        *)
Ahead(e, now) == now <= e \/ e \div W(TopLevel) # now \div W(TopLevel)

LEMMA LevelsAre ==
  ASSUME TW!WheelAssumption
  PROVE  /\ LEVELS \in Nat /\ TopLevel \in Nat /\ TopLevel + 1 = LEVELS /\ TopLevel < LEVELS
         /\ TIME_NEAR \in Nat \ {0} /\ TIME_LEVEL \in Nat \ {0, 1} /\ TIME_LEVEL \in Nat \ {0}
         /\ W(0) = TIME_NEAR /\ W(TopLevel) \in Nat \ {0} /\ Around = TIME_LEVEL * W(TopLevel)
         /\ Around \in Nat \ {0}
         /\ \A e \in Times : e \in Nat /\ e < Around
  <1>1. LEVELS \in Nat \ {0} /\ TIME_NEAR \in Nat \ {0} /\ TIME_LEVEL \in Nat \ {0, 1}
    BY DEF TW!WheelAssumption
  <1>2. LEVELS \in Nat /\ TopLevel \in Nat /\ TopLevel + 1 = LEVELS /\ TopLevel < LEVELS
    BY <1>1 DEF TopLevel
  <1>3. W(TopLevel + 1) = TIME_LEVEL * W(TopLevel) /\ W(LEVELS) \in Nat \ {0} /\ W(TopLevel) \in Nat \ {0} /\ W(0) = TIME_NEAR
    BY <1>2, WidthIs
  <1>4. \A e \in Times : e \in Nat /\ e < Around
    BY <1>3 DEF Times, Around
  <1> QED
    BY <1>1, <1>2, <1>3, <1>4 DEF Around

(* The highest digit of a time.                                            *)
LEMMA LastDigit ==
  ASSUME TW!WheelAssumption, NEW e \in Times
  PROVE  e \div W(TopLevel) \in 0..TIME_LEVEL - 1 /\ (e \div W(TopLevel)) % TIME_LEVEL = e \div W(TopLevel)
  <1>1. e \div W(TopLevel) \in 0..TIME_LEVEL - 1
    BY LevelsAre, DivBelow
  <1>2. \A x \in 0..TIME_LEVEL - 1 : x % TIME_LEVEL = x
    BY LevelsAre
  <1> QED
    BY <1>1, <1>2

(* A time ahead that shares a digit is not before now.                     *)
LEMMA AheadIs ==
  ASSUME TW!WheelAssumption, NEW e \in Times, NEW now \in Times, Ahead(e, now), NEW i \in 0..TopLevel,
         e \div W(i) = now \div W(i)
  PROVE  now <= e
  <1>1. e \in Nat /\ now \in Nat /\ i \in Nat /\ TopLevel \in Nat /\ i <= TopLevel
    BY LevelsAre
  <1>2. e \div W(TopLevel) = now \div W(TopLevel)
    BY <1>1, SameAbove
  <1> QED
    BY <1>2 DEF Ahead

PlaceOf(e, now) == <<TW!Slot(e, now).level, TW!Slot(e, now).idx>>

(* The place it gets is one where it should be.                            *)
LEMMA PlaceIs ==
  ASSUME TW!WheelAssumption, NEW e \in Times, NEW now \in Times, Ahead(e, now)
  PROVE  PlaceOf(e, now) \in WheelPlaces /\ InPlace(PlaceOf(e, now), e, now)
  <1>1. e \in Nat /\ now \in Nat
    BY LevelsAre
  <1>2. CASE e \div TIME_NEAR = now \div TIME_NEAR
    <2>1. TW!Slot(e, now) = [level |-> LEVELS, idx |-> e % TIME_NEAR]
      BY <1>2 DEF TW!Slot
    <2>2. PlaceOf(e, now) = <<LEVELS, e % TIME_NEAR>>
      BY <2>1 DEF PlaceOf
    <2>3. now <= e
      BY <1>2, LevelsAre, AheadIs
    <2>4. e % TIME_NEAR \in 0..TIME_NEAR - 1
      BY <1>1, LevelsAre, DivMod
    <2> QED
      BY <1>2, <2>2, <2>3, <2>4 DEF WheelPlaces, InPlace, IsNear
  <1>3. CASE e \div TIME_NEAR # now \div TIME_NEAR
    <2> DEFINE same == {i \in 0..LEVELS - 2 : e \div TW!Width[i + 1] = now \div TW!Width[i + 1]}
               j == IF same = {} THEN LEVELS - 1 ELSE CHOOSE i \in same : \A k \in same : i <= k
    <2>1. TW!Slot(e, now) = [level |-> j, idx |-> (e \div TW!Width[j]) % TIME_LEVEL]
      BY <1>3 DEF TW!Slot
    <2>2. \A i : i \in same <=> i \in 0..TopLevel - 1 /\ e \div W(i + 1) = now \div W(i + 1)
      BY LevelsAre DEF W, TopLevel
    <2>3. same # {} => j \in same /\ \A k \in same : j <= k
      <3>1. same \in SUBSET Nat
        OBVIOUS
      <3> HIDE DEF same
      <3> QED
        BY <3>1, LeastOf
    <2>4. same = {} => j = TopLevel
      BY DEF TopLevel
    <2> HIDE DEF same, j
    <2>5. j \in 0..TopLevel /\ j \in Nat /\ (same # {} => j # TopLevel /\ j + 1 \in 0..TopLevel)
      BY <2>2, <2>3, <2>4, LevelsAre
    <2>6. e \div W(j) # now \div W(j)
      <3>1. CASE j = 0
        BY <1>3, <3>1, LevelsAre
      <3>2. CASE j # 0
        <4>1. j - 1 \in 0..TopLevel - 1 /\ (j - 1) + 1 = j /\ ~ (j <= j - 1)
          BY <2>5, <3>2, LevelsAre
        <4>2. j - 1 \notin same
          BY <2>3, <4>1
        <4> QED
          BY <2>2, <4>1, <4>2
      <3> QED
        BY <3>1, <3>2
    <2>7. (e \div W(j)) % TIME_LEVEL \in 0..TIME_LEVEL - 1
      BY <1>1, <2>5, LevelsAre, WidthIs, DivMod
    <2>8. PlaceOf(e, now) = <<j, (e \div W(j)) % TIME_LEVEL>>
      BY <2>1 DEF PlaceOf, W
    <2>9. PlaceOf(e, now) \in WheelPlaces /\ j # LEVELS
      BY <2>5, <2>7, <2>8, LevelsAre DEF WheelPlaces
    <2>10. CASE same = {}
      BY <2>4, <2>6, <2>8, <2>9, <2>10, LastDigit DEF InPlace, IsFar
    <2>11. CASE same # {}
      <3>1. e \div W(j + 1) = now \div W(j + 1)
        BY <2>2, <2>3, <2>11
      <3>2. now <= e
        BY <2>5, <2>11, <3>1, AheadIs
      <3>3. now \div W(j) <= e \div W(j)
        BY <1>1, <2>5, <3>2, WidthIs, DivGrows
      <3>4. now \div W(j) < e \div W(j)
        <4>1. now \div W(j) \in Nat /\ e \div W(j) \in Nat
          BY <1>1, <2>5, WidthIs, DivMod
        <4> QED
          BY <2>6, <3>3, <4>1
      <3>5. IsBetween(j, (e \div W(j)) % TIME_LEVEL, e, now)
        BY <3>1, <3>4 DEF IsBetween
      <3> QED
        BY <2>5, <2>8, <2>9, <2>11, <3>5 DEF InPlace
    <2> QED
      BY <2>10, <2>11
  <1> QED
    BY <1>2, <1>3

-----------------------------------------------------------------------------
(* A wheel, and the timers in it.                                          *)
TimerNodes == [handle : Handles, expire : Times]
Wheels == [near : [0..TIME_NEAR - 1 -> Seq(TimerNodes)],
           t : [0..TopLevel -> [0..TIME_LEVEL - 1 -> Seq(TimerNodes)]]]

SlotAt(w, k) == IF k[1] = LEVELS THEN w.near[k[2]] ELSE w.t[k[1]][k[2]]
TimersOf(w) == UNION {ToSet(SlotAt(w, k)) : k \in WheelPlaces}

AllInPlace(w, now) ==
  \A k \in WheelPlaces : \A p \in 1..Len(SlotAt(w, k)) : InPlace(k, SlotAt(w, k)[p].expire, now)

Once(w) ==
  \A k, l \in WheelPlaces : \A p \in 1..Len(SlotAt(w, k)), r \in 1..Len(SlotAt(w, l)) :
    SlotAt(w, k)[p].handle = SlotAt(w, l)[r].handle => k = l /\ p = r

WheelPlace(k) ==
  \/ k = <<LEVELS, k[2]>> /\ k[2] \in 0..TIME_NEAR - 1
  \/ k = <<k[1], k[2]>> /\ k[1] # LEVELS /\ k[1] \in 0..TopLevel /\ k[2] \in 0..TIME_LEVEL - 1

LEMMA PlacesAre ==
  ASSUME TW!WheelAssumption
  PROVE  \A k : k \in WheelPlaces <=> WheelPlace(k)
  <1>1. LEVELS \notin 0..TopLevel
    BY LevelsAre
  <1> QED
    BY <1>1 DEF WheelPlaces, WheelPlace

LEMMA SlotIs ==
  ASSUME TW!WheelAssumption, NEW w \in Wheels
  PROVE  \A k \in WheelPlaces : /\ SlotAt(w, k) \in Seq(TimerNodes) /\ Len(SlotAt(w, k)) \in Nat
                                /\ \A p \in 1..Len(SlotAt(w, k)) : SlotAt(w, k)[p] \in TimerNodes
  <1>1. ASSUME NEW k \in WheelPlaces PROVE SlotAt(w, k) \in Seq(TimerNodes)
    <2>1. WheelPlace(k)
      BY PlacesAre
    <2>2. w.near \in [0..TIME_NEAR - 1 -> Seq(TimerNodes)]
          /\ w.t \in [0..TopLevel -> [0..TIME_LEVEL - 1 -> Seq(TimerNodes)]]
      BY DEF Wheels
    <2>3. CASE k[1] = LEVELS
      <3>1. k[2] \in 0..TIME_NEAR - 1
        BY <2>1, <2>3 DEF WheelPlace
      <3> QED
        BY <2>2, <2>3, <3>1 DEF SlotAt
    <2>4. CASE k[1] # LEVELS
      <3>1. k[1] \in 0..TopLevel /\ k[2] \in 0..TIME_LEVEL - 1
        BY <2>1, <2>4 DEF WheelPlace
      <3>2. w.t[k[1]] \in [0..TIME_LEVEL - 1 -> Seq(TimerNodes)]
        BY <2>2, <3>1
      <3> QED
        BY <2>4, <3>1, <3>2 DEF SlotAt
    <2> QED
      BY <2>3, <2>4
  <1> QED
    BY <1>1

LEMMA TimersAre ==
  ASSUME TW!WheelAssumption, NEW w \in Wheels
  PROVE  /\ \A x : x \in TimersOf(w) <=>
              \E k \in WheelPlaces : \E p \in 1..Len(SlotAt(w, k)) : x = SlotAt(w, k)[p]
         /\ TimersOf(w) \in SUBSET TimerNodes
  <1>1. ASSUME NEW k \in WheelPlaces
        PROVE  \A x : x \in ToSet(SlotAt(w, k)) <=> \E p \in 1..Len(SlotAt(w, k)) : x = SlotAt(w, k)[p]
    <2>1. SlotAt(w, k) \in Seq(TimerNodes)
      BY SlotIs
    <2> QED
      BY <2>1 DEF ToSet
  <1>2. \A x : x \in TimersOf(w) <=> \E k \in WheelPlaces : x \in ToSet(SlotAt(w, k))
    BY DEF TimersOf
  <1> QED
    BY <1>1, <1>2, SlotIs

(* add_node changes one slot.                                              *)
Appended(w, a, k, node) ==
  \A l \in WheelPlaces : SlotAt(a, l) = IF l = k THEN Append(SlotAt(w, l), node) ELSE SlotAt(w, l)

LEMMA AddIs ==
  ASSUME TW!WheelAssumption, NEW w \in Wheels, NEW node \in TimerNodes, NEW now \in Times,
         PlaceOf(node.expire, now) \in WheelPlaces
  PROVE  /\ TW!add_node(w, node, now) \in Wheels
         /\ Appended(w, TW!add_node(w, node, now), PlaceOf(node.expire, now), node)
  <1> DEFINE s == TW!Slot(node.expire, now)
             k == PlaceOf(node.expire, now)
             a == TW!add_node(w, node, now)
  <1>1. k = <<s.level, s.idx>> /\ WheelPlace(k)
    BY PlacesAre DEF PlaceOf
  <1>2. a = IF s.level = LEVELS THEN [w EXCEPT !.near[s.idx] = Append(@, node)]
            ELSE [w EXCEPT !.t[s.level][s.idx] = Append(@, node)]
    BY DEF TW!add_node
  <1>3. w.near \in [0..TIME_NEAR - 1 -> Seq(TimerNodes)]
        /\ w.t \in [0..TopLevel -> [0..TIME_LEVEL - 1 -> Seq(TimerNodes)]]
    BY DEF Wheels
  <1>4. \A q \in Seq(TimerNodes) : Append(q, node) \in Seq(TimerNodes)
    OBVIOUS
  <1> HIDE DEF s, a, k
  <1>5. CASE s.level = LEVELS
    <2>1. a = [w EXCEPT !.near = [w.near EXCEPT ![s.idx] = Append(w.near[s.idx], node)]]
      BY <1>2, <1>5
    <2>2. s.idx \in 0..TIME_NEAR - 1
      BY <1>1, <1>5 DEF WheelPlace
    <2>3. a \in Wheels
      BY <1>3, <1>4, <2>1, <2>2 DEF Wheels
    <2>4. a.t = w.t /\ a.near = [w.near EXCEPT ![s.idx] = Append(w.near[s.idx], node)]
      BY <2>1 DEF Wheels
    <2>5. ASSUME NEW l \in WheelPlaces
          PROVE  SlotAt(a, l) = IF l = k THEN Append(SlotAt(w, l), node) ELSE SlotAt(w, l)
      <3>1. WheelPlace(l)
        BY PlacesAre
      <3>2. CASE l[1] = LEVELS
        <4>1. l = <<LEVELS, l[2]>> /\ l[2] \in 0..TIME_NEAR - 1
          BY <3>1, <3>2 DEF WheelPlace
        <4>2. l = k <=> l[2] = s.idx
          BY <1>1, <1>5, <4>1
        <4> QED
          BY <1>3, <2>4, <3>2, <4>1, <4>2 DEF SlotAt
      <3>3. CASE l[1] # LEVELS
        BY <1>1, <1>5, <2>4, <3>3 DEF SlotAt
      <3> QED
        BY <3>2, <3>3
    <2> QED
      BY <2>3, <2>5 DEF Appended, a, k
  <1>6. CASE s.level # LEVELS
    <2>1. a = [w EXCEPT !.t = [w.t EXCEPT ![s.level] =
                 [w.t[s.level] EXCEPT ![s.idx] = Append(w.t[s.level][s.idx], node)]]]
      BY <1>2, <1>6
    <2>2. s.level \in 0..TopLevel /\ s.idx \in 0..TIME_LEVEL - 1
      BY <1>1, <1>6 DEF WheelPlace
    <2>a. w.t[s.level] \in [0..TIME_LEVEL - 1 -> Seq(TimerNodes)] /\ w.t[s.level][s.idx] \in Seq(TimerNodes)
      BY <1>3, <2>2
    <2>b. [w.t[s.level] EXCEPT ![s.idx] = Append(w.t[s.level][s.idx], node)]
            \in [0..TIME_LEVEL - 1 -> Seq(TimerNodes)]
      BY <1>4, <2>2, <2>a
    <2>3. a \in Wheels
      BY <1>3, <2>1, <2>2, <2>b DEF Wheels
    <2>4. a.near = w.near /\ a.t = [w.t EXCEPT ![s.level] =
                               [w.t[s.level] EXCEPT ![s.idx] = Append(w.t[s.level][s.idx], node)]]
      BY <2>1 DEF Wheels
    <2>5. ASSUME NEW l \in WheelPlaces
          PROVE  SlotAt(a, l) = IF l = k THEN Append(SlotAt(w, l), node) ELSE SlotAt(w, l)
      <3>1. WheelPlace(l)
        BY PlacesAre
      <3>2. CASE l[1] = LEVELS
        BY <1>1, <1>6, <2>4, <3>2 DEF SlotAt
      <3>3. CASE l[1] # LEVELS
        <4>1. l = <<l[1], l[2]>> /\ l[1] \in 0..TopLevel /\ l[2] \in 0..TIME_LEVEL - 1
          BY <3>1, <3>3 DEF WheelPlace
        <4>2. l = k <=> l[1] = s.level /\ l[2] = s.idx
          BY <1>1, <4>1
        <4>3. a.t[l[1]][l[2]] = IF l[1] = s.level /\ l[2] = s.idx THEN Append(w.t[l[1]][l[2]], node)
                                ELSE w.t[l[1]][l[2]]
          <5> DEFINE row == [w.t[s.level] EXCEPT ![s.idx] = Append(w.t[s.level][s.idx], node)]
          <5>1. a.t[l[1]] = IF l[1] = s.level THEN row ELSE w.t[l[1]]
            <6> HIDE DEF row
            <6> QED
              BY <1>3, <2>2, <2>4, <4>1 DEF row
          <5>2. row[l[2]] = IF l[2] = s.idx THEN Append(w.t[s.level][s.idx], node) ELSE w.t[s.level][l[2]]
            BY <2>2, <2>a, <4>1
          <5> HIDE DEF row
          <5> QED
            BY <5>1, <5>2
        <4> QED
          BY <3>3, <4>2, <4>3 DEF SlotAt
      <3> QED
        BY <3>2, <3>3
    <2> QED
      BY <2>3, <2>5 DEF Appended, a, k
  <1> QED
    BY <1>5, <1>6

(* A wheel that is right, and has the timers given.                        *)
RightWheel(w, nodes, now) ==
  w \in Wheels /\ AllInPlace(w, now) /\ Once(w) /\ TimersOf(w) = nodes

(* Another timer that is ahead can be added to it.                         *)
LEMMA AddKeeps ==
  ASSUME TW!WheelAssumption, NEW w, NEW nodes, NEW now \in Times, RightWheel(w, nodes, now),
         NEW node \in TimerNodes, Ahead(node.expire, now), \A x \in nodes : x.handle # node.handle
  PROVE  RightWheel(TW!add_node(w, node, now), nodes \cup {node}, now)
  <1> DEFINE k == PlaceOf(node.expire, now)
             a == TW!add_node(w, node, now)
  <1>1. w \in Wheels /\ AllInPlace(w, now) /\ Once(w) /\ TimersOf(w) = nodes
    BY DEF RightWheel
  <1>2. k \in WheelPlaces /\ InPlace(k, node.expire, now)
    <2>1. node.expire \in Times
      BY DEF TimerNodes
    <2> QED
      BY <2>1, PlaceIs
  <1>3. a \in Wheels /\ Appended(w, a, k, node)
    BY <1>1, <1>2, AddIs
  <1> HIDE DEF a, k
  <1>4. \A l \in WheelPlaces : SlotAt(w, l) \in Seq(TimerNodes) /\ Len(SlotAt(w, l)) \in Nat
    BY <1>1, SlotIs
  <1> DEFINE New(l, p) == l = k /\ p = Len(SlotAt(w, l)) + 1
  <1>5. ASSUME NEW l \in WheelPlaces, NEW p \in 1..Len(SlotAt(a, l))
        PROVE  \/ New(l, p) /\ SlotAt(a, l)[p] = node
               \/ ~ New(l, p) /\ p \in 1..Len(SlotAt(w, l)) /\ SlotAt(a, l)[p] = SlotAt(w, l)[p]
    <2>1. SlotAt(a, l) = IF l = k THEN Append(SlotAt(w, l), node) ELSE SlotAt(w, l)
      BY <1>3 DEF Appended
    <2>2. SlotAt(w, l) \in Seq(TimerNodes) /\ Len(SlotAt(w, l)) \in Nat
      BY <1>4
    <2> QED
      BY <2>1, <2>2
  <1>6. ASSUME NEW l \in WheelPlaces, NEW p \in 1..Len(SlotAt(w, l))
        PROVE  p \in 1..Len(SlotAt(a, l)) /\ SlotAt(a, l)[p] = SlotAt(w, l)[p]
    <2>1. SlotAt(a, l) = IF l = k THEN Append(SlotAt(w, l), node) ELSE SlotAt(w, l)
      BY <1>3 DEF Appended
    <2>2. SlotAt(w, l) \in Seq(TimerNodes) /\ Len(SlotAt(w, l)) \in Nat
      BY <1>4
    <2> QED
      BY <2>1, <2>2
  <1>7. \E p \in 1..Len(SlotAt(a, k)) : SlotAt(a, k)[p] = node
    <2>1. SlotAt(a, k) = Append(SlotAt(w, k), node)
      BY <1>2, <1>3 DEF Appended
    <2>2. SlotAt(w, k) \in Seq(TimerNodes) /\ Len(SlotAt(w, k)) \in Nat
      BY <1>2, <1>4
    <2>3. Len(SlotAt(w, k)) + 1 \in 1..Len(SlotAt(a, k)) /\ SlotAt(a, k)[Len(SlotAt(w, k)) + 1] = node
      BY <2>1, <2>2
    <2> QED
      BY <2>3
  <1>8. AllInPlace(a, now)
    <2> SUFFICES ASSUME NEW l \in WheelPlaces, NEW p \in 1..Len(SlotAt(a, l))
                 PROVE  InPlace(l, SlotAt(a, l)[p].expire, now)
      BY DEF AllInPlace
    <2> QED
      BY <1>1, <1>2, <1>5 DEF AllInPlace
  <1>9. \A l \in WheelPlaces : \A p \in 1..Len(SlotAt(w, l)) : SlotAt(w, l)[p].handle # node.handle
    BY <1>1, TimersAre
  <1>10. Once(a)
    <2> SUFFICES ASSUME NEW l \in WheelPlaces, NEW m \in WheelPlaces,
                        NEW p \in 1..Len(SlotAt(a, l)), NEW r \in 1..Len(SlotAt(a, m)),
                        SlotAt(a, l)[p].handle = SlotAt(a, m)[r].handle
                 PROVE  l = m /\ p = r
      BY DEF Once
    <2>1. CASE New(l, p)
      <3>1. SlotAt(a, l)[p] = node
        BY <1>5, <2>1
      <3>2. New(m, r)
        <4> SUFFICES ASSUME ~ New(m, r) PROVE FALSE
          OBVIOUS
        <4>1. r \in 1..Len(SlotAt(w, m)) /\ SlotAt(a, m)[r] = SlotAt(w, m)[r]
          BY <1>5
        <4> QED
          BY <1>9, <3>1, <4>1
      <3> QED
        BY <2>1, <3>2
    <2>2. CASE ~ New(l, p)
      <3>1. p \in 1..Len(SlotAt(w, l)) /\ SlotAt(a, l)[p] = SlotAt(w, l)[p]
        BY <1>5, <2>2
      <3>2. ~ New(m, r)
        <4> SUFFICES ASSUME New(m, r) PROVE FALSE
          OBVIOUS
        <4>1. SlotAt(a, m)[r] = node
          BY <1>5
        <4> QED
          BY <1>9, <3>1, <4>1
      <3>3. r \in 1..Len(SlotAt(w, m)) /\ SlotAt(a, m)[r] = SlotAt(w, m)[r]
        BY <1>5, <3>2
      <3> QED
        BY <1>1, <3>1, <3>3 DEF Once
    <2> QED
      BY <2>1, <2>2
  <1>11. TimersOf(a) = nodes \cup {node}
    <2>1. ASSUME NEW x \in TimersOf(a) PROVE x \in nodes \cup {node}
      <3>1. PICK l \in WheelPlaces : \E p \in 1..Len(SlotAt(a, l)) : x = SlotAt(a, l)[p]
        BY <1>3, TimersAre
      <3> QED
        BY <1>1, <1>5, <3>1, TimersAre
    <2>2. ASSUME NEW x \in nodes PROVE x \in TimersOf(a)
      <3>1. PICK l \in WheelPlaces : \E p \in 1..Len(SlotAt(w, l)) : x = SlotAt(w, l)[p]
        BY <1>1, TimersAre
      <3> QED
        BY <1>3, <1>6, <3>1, TimersAre
    <2>3. node \in TimersOf(a)
      BY <1>2, <1>3, <1>7, TimersAre
    <2> QED
      BY <2>1, <2>2, <2>3
  <1> QED
    BY <1>3, <1>8, <1>10, <1>11 DEF RightWheel, a

(* A slot of a level, emptied.                                             *)
Emptied(w, level, idx) == [w EXCEPT !.t[level][idx] = <<>>]

LEMMA EmptiedIs ==
  ASSUME TW!WheelAssumption, NEW w \in Wheels, NEW level \in 0..TopLevel,
         NEW idx \in 0..TIME_LEVEL - 1
  PROVE  /\ Emptied(w, level, idx) \in Wheels /\ <<level, idx>> \in WheelPlaces
         /\ SlotAt(w, <<level, idx>>) = w.t[level][idx]
         /\ \A l \in WheelPlaces :
              SlotAt(Emptied(w, level, idx), l) = IF l = <<level, idx>> THEN <<>> ELSE SlotAt(w, l)
  <1> DEFINE a == Emptied(w, level, idx)
             row == [w.t[level] EXCEPT ![idx] = <<>>]
  <1>1. w.near \in [0..TIME_NEAR - 1 -> Seq(TimerNodes)]
        /\ w.t \in [0..TopLevel -> [0..TIME_LEVEL - 1 -> Seq(TimerNodes)]]
    BY DEF Wheels
  <1>2. w.t[level] \in [0..TIME_LEVEL - 1 -> Seq(TimerNodes)] /\ <<>> \in Seq(TimerNodes)
    <2>1. <<>> \in Seq(TimerNodes)
      OBVIOUS
    <2> QED
      BY <1>1, <2>1
  <1>3. row \in [0..TIME_LEVEL - 1 -> Seq(TimerNodes)]
        /\ \A i \in 0..TIME_LEVEL - 1 : row[i] = IF i = idx THEN <<>> ELSE w.t[level][i]
    BY <1>2
  <1>4. a = [w EXCEPT !.t = [w.t EXCEPT ![level] = row]]
    BY DEF Emptied
  <1> HIDE DEF a, row
  <1>5. a \in Wheels /\ a.near = w.near /\ a.t = [w.t EXCEPT ![level] = row]
    BY <1>1, <1>3, <1>4 DEF Wheels
  <1>6. level # LEVELS /\ <<level, idx>> \in WheelPlaces
    BY LevelsAre DEF WheelPlaces
  <1>7. ASSUME NEW l \in WheelPlaces
        PROVE  SlotAt(a, l) = IF l = <<level, idx>> THEN <<>> ELSE SlotAt(w, l)
    <2>1. WheelPlace(l)
      BY PlacesAre
    <2>2. CASE l[1] = LEVELS
      BY <1>5, <1>6, <2>2 DEF SlotAt
    <2>3. CASE l[1] # LEVELS
      <3>1. l = <<l[1], l[2]>> /\ l[1] \in 0..TopLevel /\ l[2] \in 0..TIME_LEVEL - 1
        BY <2>1, <2>3 DEF WheelPlace
      <3>2. l = <<level, idx>> <=> l[1] = level /\ l[2] = idx
        BY <3>1
      <3>3. a.t[l[1]] = IF l[1] = level THEN row ELSE w.t[l[1]]
        BY <1>1, <1>5, <3>1
      <3> QED
        BY <1>3, <2>3, <3>1, <3>2, <3>3 DEF SlotAt
    <2> QED
      BY <2>2, <2>3
  <1>8. SlotAt(w, <<level, idx>>) = w.t[level][idx]
    BY <1>6 DEF SlotAt
  <1> QED
    BY <1>5, <1>6, <1>7, <1>8 DEF a

(* The turns of the loop of move_list.                                     *)
MovedIs(list, first, now, g) ==
  g = [n \in 0..Len(list) |-> IF n = 0 THEN first ELSE TW!add_node(g[n - 1], list[n], now)]

LEMMA MovedExists ==
  ASSUME NEW list, Len(list) \in Nat, NEW first, NEW now, NEW P, first \in P,
         \A x \in P : \A n \in 1..Len(list) : TW!add_node(x, list[n], now) \in P
  PROVE  \E g : MovedIs(list, first, now, g)
  <1> DEFINE m == Len(list)
             link == [s \in (0..m) \X P |->
                        IF s[1] = m THEN s ELSE <<s[1] + 1, TW!add_node(s[2], list[s[1] + 1], now)>>]
             start == <<0, first>>
  <1>1. m \in Nat /\ start \in (0..m) \X P
    OBVIOUS
  <1>2. \A n \in 0..m : n # m => n + 1 \in 0..m /\ n + 1 \in 1..m
    BY <1>1
  <1>3. ASSUME NEW n \in 0..m, NEW x \in P
        PROVE  link[<<n, x>>] = IF n = m THEN <<n, x>> ELSE <<n + 1, TW!add_node(x, list[n + 1], now)>>
    OBVIOUS
  <1>4. link \in [(0..m) \X P -> (0..m) \X P]
    <2>1. ASSUME NEW s \in (0..m) \X P PROVE link[s] \in (0..m) \X P
      <3>1. PICK n \in 0..m, x \in P : s = <<n, x>>
        OBVIOUS
      <3>2. n # m => n + 1 \in 0..m /\ TW!add_node(x, list[n + 1], now) \in P
        BY <1>2
      <3>3. link[s] = IF n = m THEN <<n, x>> ELSE <<n + 1, TW!add_node(x, list[n + 1], now)>>
        BY <1>3, <3>1
      <3> HIDE DEF link, m
      <3> QED
        BY <3>2, <3>3
    <2>2. DOMAIN link = (0..m) \X P /\ link = [s \in (0..m) \X P |-> link[s]]
      OBVIOUS
    <2> HIDE DEF link, m
    <2> QED
      BY <2>1, <2>2
  <1> HIDE DEF link, m, start
  <1>5. PICK f \in [Nat -> (0..m) \X P] : Loops(start, link, f)
    BY <1>1, <1>4, LoopExists
  <1> DEFINE S == {n \in Nat : n <= m => f[n][1] = n}
  <1>6. 0 \in S
    BY <1>5 DEF Loops, start
  <1>7. \A n \in Nat : f[n] = <<f[n][1], f[n][2]>> /\ f[n][1] \in 0..m /\ f[n][2] \in P
    <2>1. \A s \in (0..m) \X P : s = <<s[1], s[2]>> /\ s[1] \in 0..m /\ s[2] \in P
      OBVIOUS
    <2>2. \A n \in Nat : f[n] \in (0..m) \X P
      BY <1>5
    <2> QED
      BY <2>1, <2>2
  <1>8. ASSUME NEW n \in Nat, f[n][1] = n, n + 1 <= m
        PROVE  f[n + 1] = <<n + 1, TW!add_node(f[n][2], list[n + 1], now)>>
    <2>1. f[n + 1] = link[f[n]]
      <3>1. n + 1 \in Nat /\ n + 1 # 0 /\ (n + 1) - 1 = n
        OBVIOUS
      <3> QED
        BY <1>5, <3>1 DEF Loops
    <2>2. n \in 0..m /\ n # m
      BY <1>1, <1>8
    <2>3. f[n] = <<n, f[n][2]>> /\ f[n][2] \in P
      BY <1>7, <1>8
    <2> QED
      BY <1>3, <2>1, <2>2, <2>3
  <1>9. ASSUME NEW n \in S PROVE n + 1 \in S
    <2>1. n \in Nat /\ n + 1 \in Nat /\ (n + 1 <= m => n <= m)
      BY <1>1
    <2> QED
      BY <1>8, <2>1
  <1>10. \A n \in Nat : n \in S
    <2>1. S \in SUBSET Nat
      OBVIOUS
    <2> HIDE DEF S
    <2> QED
      BY <1>6, <1>9, <2>1, Induct
  <1> DEFINE g == [n \in 0..m |-> f[n][2]]
  <1>11. ASSUME NEW n \in 0..m PROVE g[n] = IF n = 0 THEN first ELSE TW!add_node(g[n - 1], list[n], now)
    <2>1. CASE n = 0
      BY <1>5, <2>1 DEF Loops, start
    <2>2. CASE n # 0
      <3>1. n - 1 \in Nat /\ n - 1 \in 0..m /\ (n - 1) + 1 = n /\ n <= m
        BY <1>1, <2>2
      <3>2. f[n - 1][1] = n - 1
        BY <1>10, <3>1
      <3>3. f[n] = <<n, TW!add_node(f[n - 1][2], list[n], now)>>
        BY <1>8, <3>1, <3>2
      <3> QED
        BY <2>2, <3>1, <3>3
    <2> QED
      BY <2>1, <2>2
  <1>12. g = [n \in 0..m |-> g[n]]
    OBVIOUS
  <1> HIDE DEF g
  <1>13. MovedIs(list, first, now, g)
    BY <1>11, <1>12 DEF MovedIs, m
  <1> QED
    BY <1>13

(* Moving a slot whose timers are ahead leaves a wheel that is right, with *)
(* the same timers, if it is right without the slot.                       *)
LEMMA MoveKeeps ==
  ASSUME TW!WheelAssumption, NEW w \in Wheels, NEW now \in Times, Once(w),
         NEW level \in 0..TopLevel, NEW idx \in 0..TIME_LEVEL - 1,
         AllInPlace(Emptied(w, level, idx), now),
         \A p \in 1..Len(w.t[level][idx]) : Ahead(w.t[level][idx][p].expire, now)
  PROVE  RightWheel(TW!move_list(w, level, idx, now), TimersOf(w), now)
  <1> DEFINE k == <<level, idx>>
             e == Emptied(w, level, idx)
             list == w.t[level][idx]
             moved == CHOOSE g : g = [n \in 0..Len(list) |->
                        IF n = 0 THEN [w EXCEPT !.t[level][idx] = <<>>]
                        ELSE TW!add_node(g[n - 1], list[n], now)]
             Done(n) == {list[p] : p \in 1..n}
  <1>1. e \in Wheels /\ k \in WheelPlaces /\ SlotAt(w, k) = list
        /\ \A l \in WheelPlaces : SlotAt(e, l) = IF l = k THEN <<>> ELSE SlotAt(w, l)
    BY EmptiedIs
  <1>2. TW!move_list(w, level, idx, now) = moved[Len(list)]
    BY DEF TW!move_list
  <1>3. \A g : MovedIs(list, e, now, g) <=> g = [n \in 0..Len(list) |->
                        IF n = 0 THEN [w EXCEPT !.t[level][idx] = <<>>]
                        ELSE TW!add_node(g[n - 1], list[n], now)]
    BY DEF MovedIs, Emptied
  <1>4. moved = CHOOSE g : MovedIs(list, e, now, g)
    BY DEF MovedIs, Emptied
  <1> HIDE DEF moved
  <1>5. \A p \in 1..Len(list) : Ahead(list[p].expire, now)
    OBVIOUS
  <1> HIDE DEF e, list, k
  <1>6. /\ list \in Seq(TimerNodes) /\ Len(list) \in Nat
        /\ \A p \in 1..Len(list) : list[p] \in TimerNodes /\ list[p].expire \in Times
    <2>1. list \in Seq(TimerNodes) /\ Len(list) \in Nat /\ \A p \in 1..Len(list) : list[p] \in TimerNodes
      BY <1>1, SlotIs
    <2> QED
      BY <2>1 DEF TimerNodes
  <1>7. \A l \in WheelPlaces : \A p \in 1..Len(SlotAt(e, l)) :
          l # k /\ p \in 1..Len(SlotAt(w, l)) /\ SlotAt(e, l)[p] = SlotAt(w, l)[p]
    <2> SUFFICES ASSUME NEW l \in WheelPlaces, NEW p \in 1..Len(SlotAt(e, l))
                 PROVE  l # k /\ p \in 1..Len(SlotAt(w, l)) /\ SlotAt(e, l)[p] = SlotAt(w, l)[p]
      OBVIOUS
    <2>1. l # k
      <3>1. Len(<<>>) = 0 /\ 1..0 = {}
        OBVIOUS
      <3> QED
        BY <1>1, <3>1
    <2> QED
      BY <1>1, <2>1
  <1>8. RightWheel(e, TimersOf(e), now)
    <2>1. Once(e)
      BY <1>7 DEF Once
    <2>2. AllInPlace(e, now)
      BY DEF e
    <2> QED
      BY <1>1, <2>1, <2>2 DEF RightWheel
  <1>9. TimersOf(w) = TimersOf(e) \cup Done(Len(list))
    <2>1. ASSUME NEW x \in TimersOf(w) PROVE x \in TimersOf(e) \cup Done(Len(list))
      <3>1. PICK l \in WheelPlaces : \E p \in 1..Len(SlotAt(w, l)) : x = SlotAt(w, l)[p]
        BY TimersAre
      <3>2. CASE l = k
        BY <1>1, <3>1, <3>2
      <3>3. CASE l # k
        <4>1. SlotAt(e, l) = SlotAt(w, l)
          BY <1>1, <3>3
        <4>2. x \in TimersOf(e)
          BY <1>1, <3>1, <4>1, TimersAre
        <4> QED
          BY <4>2
      <3> QED
        BY <3>2, <3>3
    <2>2. ASSUME NEW x \in TimersOf(e) PROVE x \in TimersOf(w)
      <3>1. PICK l \in WheelPlaces : \E p \in 1..Len(SlotAt(e, l)) : x = SlotAt(e, l)[p]
        BY <1>1, TimersAre
      <3>2. \E p \in 1..Len(SlotAt(w, l)) : x = SlotAt(w, l)[p]
        BY <1>7, <3>1
      <3> QED
        BY <3>2, TimersAre
    <2>3. ASSUME NEW x \in Done(Len(list)) PROVE x \in TimersOf(w)
      <3>1. PICK p \in 1..Len(list) : x = list[p]
        OBVIOUS
      <3>2. \E r \in 1..Len(SlotAt(w, k)) : x = SlotAt(w, k)[r]
        BY <1>1, <3>1
      <3> QED
        BY <1>1, <3>2, TimersAre
    <2> HIDE DEF Done
    <2> QED
      BY <2>1, <2>2, <2>3
  <1>10. /\ \A p \in 1..Len(list) : \A x \in TimersOf(e) : x.handle # list[p].handle
         /\ \A p, r \in 1..Len(list) : list[p].handle = list[r].handle => p = r
    <2>1. ASSUME NEW p \in 1..Len(list), NEW x \in TimersOf(e), x.handle = list[p].handle PROVE FALSE
      <3>1. PICK l \in WheelPlaces : \E r \in 1..Len(SlotAt(e, l)) : x = SlotAt(e, l)[r]
        BY <1>1, TimersAre
      <3>2. PICK r \in 1..Len(SlotAt(e, l)) : x = SlotAt(e, l)[r]
        BY <3>1
      <3>3. l # k /\ r \in 1..Len(SlotAt(w, l)) /\ x = SlotAt(w, l)[r]
        BY <1>7, <3>2
      <3> QED
        BY <1>1, <2>1, <3>3 DEF Once
    <2>2. \A p, r \in 1..Len(list) : list[p].handle = list[r].handle => p = r
      BY <1>1 DEF Once
    <2> QED
      BY <2>1, <2>2
  <1>11. MovedIs(list, e, now, moved)
    <2>1. ASSUME NEW x \in Wheels, NEW n \in 1..Len(list) PROVE TW!add_node(x, list[n], now) \in Wheels
      <3>1. list[n] \in TimerNodes /\ list[n].expire \in Times /\ Ahead(list[n].expire, now)
        BY <1>5, <1>6
      <3>2. PlaceOf(list[n].expire, now) \in WheelPlaces
        BY <3>1, PlaceIs
      <3> QED
        BY <3>1, <3>2, AddIs
    <2>2. \E g : MovedIs(list, e, now, g)
      BY <1>1, <1>6, <2>1, MovedExists
    <2> QED
      BY <1>4, <2>2
  <1>12. /\ moved[0] = e
         /\ \A n \in Nat : n + 1 <= Len(list) => moved[n + 1] = TW!add_node(moved[n], list[n + 1], now)
    <2>1. moved = [n \in 0..Len(list) |-> IF n = 0 THEN e ELSE TW!add_node(moved[n - 1], list[n], now)]
      BY <1>11 DEF MovedIs
    <2>2. ASSUME NEW n \in 0..Len(list)
          PROVE  moved[n] = IF n = 0 THEN e ELSE TW!add_node(moved[n - 1], list[n], now)
      BY <2>1
    <2>3. ASSUME NEW n \in Nat, n + 1 <= Len(list)
          PROVE  moved[n + 1] = TW!add_node(moved[n], list[n + 1], now)
      <3>1. n + 1 \in 0..Len(list) /\ n + 1 # 0 /\ (n + 1) - 1 = n
        BY <1>6, <2>3
      <3>2. moved[n + 1] = TW!add_node(moved[(n + 1) - 1], list[n + 1], now)
        BY <2>2, <3>1
      <3> QED
        BY <3>1, <3>2
    <2>4. moved[0] = e
      BY <1>6, <2>2
    <2> QED
      BY <2>3, <2>4
  <1> DEFINE S == {n \in Nat : n <= Len(list) => RightWheel(moved[n], TimersOf(e) \cup Done(n), now)}
  <1>13. 0 \in S
    <2>1. Done(0) = {} /\ TimersOf(e) \cup {} = TimersOf(e)
      OBVIOUS
    <2> QED
      BY <1>8, <1>12, <2>1
  <1>14. ASSUME NEW n \in S PROVE n + 1 \in S
    <2> SUFFICES ASSUME n + 1 <= Len(list)
                 PROVE  RightWheel(moved[n + 1], TimersOf(e) \cup Done(n + 1), now)
      OBVIOUS
    <2>1. n \in Nat /\ n <= Len(list) /\ n + 1 \in 1..Len(list)
      BY <1>6
    <2>2. RightWheel(moved[n], TimersOf(e) \cup Done(n), now)
      BY <2>1
    <2>3. moved[n + 1] = TW!add_node(moved[n], list[n + 1], now)
      BY <1>12, <2>1
    <2>4. list[n + 1] \in TimerNodes /\ Ahead(list[n + 1].expire, now)
      BY <1>5, <1>6, <2>1
    <2>5. \A x \in TimersOf(e) \cup Done(n) : x.handle # list[n + 1].handle
      <3>1. \A p \in 1..n : p \in 1..Len(list) /\ p # n + 1
        BY <1>6, <2>1
      <3>2. \A x \in Done(n) : x.handle # list[n + 1].handle
        BY <1>10, <2>1, <3>1
      <3> HIDE DEF Done
      <3> QED
        BY <1>10, <2>1, <3>2
    <2>6. (TimersOf(e) \cup Done(n)) \cup {list[n + 1]} = TimersOf(e) \cup Done(n + 1)
      <3>1. 1..n + 1 = (1..n) \cup {n + 1}
        BY <2>1
      <3> QED
        BY <3>1
    <2> HIDE DEF Done, S
    <2> QED
      BY <2>2, <2>3, <2>4, <2>5, <2>6, AddKeeps
  <1>15. Len(list) \in S
    <2>1. S \in SUBSET Nat
      OBVIOUS
    <2> HIDE DEF S
    <2> QED
      BY <1>6, <1>13, <1>14, <2>1, Induct
  <1>16. RightWheel(moved[Len(list)], TimersOf(e) \cup Done(Len(list)), now)
    BY <1>6, <1>15
  <1> HIDE DEF Done, S
  <1> QED
    BY <1>2, <1>9, <1>16 DEF list

-----------------------------------------------------------------------------
(* A tick.  The digits up to level k of the next time become zero, and     *)
(* those above stay.                                                       *)
CarriesTo(k, next) ==
  /\ \A i \in 0..k : next % W(i) = 0
  /\ \A i \in Nat : k < i => next % W(i) # 0

LEMMA CarryExists ==
  ASSUME TW!WheelAssumption, NEW next \in Times, next # 0, next % TIME_NEAR = 0
  PROVE  \E k \in 0..TopLevel : CarriesTo(k, next)
  <1> DEFINE S == {i \in Nat : next % W(i + 1) # 0}
  <1>1. next \in Nat /\ next < Around /\ TopLevel \in Nat /\ TopLevel + 1 = LEVELS
        /\ Around \in Nat /\ Around = W(LEVELS)
    BY LevelsAre DEF Around
  <1>2. TopLevel \in S
    <2>1. next % Around = next
      BY <1>1
    <2> QED
      BY <1>1, <2>1
  <1>3. PICK k \in S : \A i \in S : k <= i
    <2>1. S \in SUBSET Nat
      OBVIOUS
    <2> HIDE DEF S
    <2> QED
      BY <1>2, <2>1, LeastOf
  <1>4. k \in Nat /\ k <= TopLevel /\ next % W(k + 1) # 0
    BY <1>2, <1>3
  <1>5. next % W(k) = 0
    <2>1. CASE k = 0
      BY <2>1, LevelsAre
    <2>2. CASE k # 0
      <3>1. k - 1 \in Nat /\ (k - 1) + 1 = k /\ ~ (k <= k - 1)
        BY <1>4, <2>2
      <3>2. k - 1 \notin S
        BY <1>3, <3>1
      <3> QED
        BY <3>1, <3>2
    <2> QED
      BY <2>1, <2>2
  <1> HIDE DEF S
  <1>6. ASSUME NEW i \in 0..k PROVE next % W(i) = 0
    <2>1. i \in Nat /\ i <= k
      BY <1>4
    <2> QED
      BY <1>1, <1>4, <1>5, <2>1, MultipleDown
  <1>7. ASSUME NEW i \in Nat, k < i PROVE next % W(i) # 0
    <2>1. k + 1 \in Nat /\ k + 1 <= i
      BY <1>4, <1>7
    <2> QED
      BY <1>1, <1>4, <2>1, MultipleDown
  <1>8. k \in 0..TopLevel /\ CarriesTo(k, next)
    BY <1>1, <1>4, <1>6, <1>7 DEF CarriesTo
  <1> QED
    BY <1>8

(* What Shift moves.                                                       *)
LEMMA ShiftAround ==
  ASSUME TW!WheelAssumption, NEW w
  PROVE  TW!Shift(w, 0) = TW!move_list(w, TopLevel, 0, 0)
  BY DEF TW!Shift, TopLevel

DueAt(next) == {i \in 0..LEVELS - 1 : next % W(i) = 0 /\ (next \div W(i)) % TIME_LEVEL # 0}

LEMMA ShiftIs ==
  ASSUME NEW w, NEW next, next # 0
  PROVE  /\ DueAt(next) = {} => TW!Shift(w, next) = w
         /\ \A k : DueAt(next) = {k} /\ k \in Nat =>
              TW!Shift(w, next) = TW!move_list(w, k, (next \div W(k)) % TIME_LEVEL, next)
  <1> DEFINE due == {i \in 0..LEVELS - 1 : next % TW!Width[i] = 0 /\ (next \div TW!Width[i]) % TIME_LEVEL # 0}
             i == CHOOSE j \in due : \A k \in due : j <= k
  <1>1. TW!Shift(w, next) = IF due = {} THEN w
                            ELSE TW!move_list(w, i, (next \div TW!Width[i]) % TIME_LEVEL, next)
    BY DEF TW!Shift
  <1>2. due = DueAt(next)
    BY DEF DueAt, W
  <1> HIDE DEF due
  <1>3. ASSUME NEW k, DueAt(next) = {k}, k \in Nat PROVE i = k
    BY <1>2, <1>3
  <1> HIDE DEF i
  <1> QED
    BY <1>1, <1>2, <1>3 DEF W

LEMMA DueIs ==
  ASSUME TW!WheelAssumption, NEW next \in Times
  PROVE  /\ next % TIME_NEAR # 0 => DueAt(next) = {}
         /\ \A k \in 0..TopLevel : CarriesTo(k, next) => DueAt(next) = {k}
  <1>1. next \in Nat /\ TopLevel \in Nat /\ TopLevel = LEVELS - 1 /\ TIME_LEVEL \in Nat \ {0}
    BY LevelsAre DEF TopLevel
  <1>2. \A i \in 0..TopLevel : i \in Nat /\ 0 <= i
    BY <1>1
  <1>3. ASSUME NEW i \in Nat
        PROVE  next % W(i + 1) = 0 <=> next % W(i) = 0 /\ (next \div W(i)) % TIME_LEVEL = 0
    <2>1. W(i) \in Nat \ {0} /\ W(i + 1) = TIME_LEVEL * W(i)
      BY WidthIs
    <2>2. next % (TIME_LEVEL * W(i)) = 0 <=> next % W(i) = 0 /\ (next \div W(i)) % TIME_LEVEL = 0
      BY <1>1, <2>1, MultipleDivides
    <2> QED
      BY <2>1, <2>2
  <1>4. ASSUME next % TIME_NEAR # 0 PROVE DueAt(next) = {}
    <2>1. \A i \in Nat : next % W(i) # 0
      <3>1. W(0) = TIME_NEAR
        BY LevelsAre
      <3> QED
        BY <1>1, <1>4, <3>1, MultipleDown
    <2> QED
      BY <1>1, <1>2, <2>1 DEF DueAt
  <1>5. ASSUME NEW k \in 0..TopLevel, CarriesTo(k, next) PROVE DueAt(next) = {k}
    <2>1. k \in Nat /\ k + 1 \in Nat /\ k < k + 1 /\ k \in 0..k
      BY <1>1
    <2>2. next % W(k) = 0 /\ next % W(k + 1) # 0
      BY <1>5, <2>1 DEF CarriesTo
    <2>3. k \in DueAt(next)
      BY <1>1, <1>3, <2>1, <2>2 DEF DueAt
    <2>4. ASSUME NEW i \in 0..TopLevel, next % W(i) = 0, (next \div W(i)) % TIME_LEVEL # 0 PROVE i = k
      <3>1. i \in Nat /\ i + 1 \in Nat
        BY <1>2
      <3>2. ~ (k < i)
        BY <1>5, <2>4, <3>1 DEF CarriesTo
      <3>3. next % W(i + 1) # 0
        BY <1>3, <2>4, <3>1
      <3>4. ~ (i < k)
        <4>1. i < k => i + 1 \in 0..k
          BY <2>1, <3>1
        <4> QED
          BY <1>5, <3>3, <4>1 DEF CarriesTo
      <3> QED
        BY <2>1, <3>1, <3>2, <3>4
    <2> QED
      BY <1>1, <2>3, <2>4 DEF DueAt
  <1> QED
    BY <1>4, <1>5

(* What a tick does to the quotients of a time.                            *)
LEMMA TickDigits ==
  ASSUME TW!WheelAssumption, NEW now \in Nat, NEW i \in Nat
  PROVE  /\ now \div W(i) \in Nat /\ W(i) \in Nat \ {0}
         /\ (now + 1) % W(i) = 0 => (now + 1) \div W(i) = (now \div W(i)) + 1
         /\ (now + 1) % W(i) # 0 => (now + 1) \div W(i) = now \div W(i)
  <1>1. W(i) \in Nat \ {0}
    BY WidthIs
  <1> QED
    BY <1>1, DivNext, DivMod

(* A timer that is near, and not of this tick, is of a later one.          *)
NowPlace(now) == <<LEVELS, now % TIME_NEAR>>

LEMMA NotNow ==
  ASSUME TW!WheelAssumption, NEW now \in Times, NEW e \in Times, NEW k \in WheelPlaces,
         k # NowPlace(now), InPlace(k, e, now)
  PROVE  e # now /\ (k[1] # TopLevel => now + 1 <= e)
  <1>1. now \in Nat /\ e \in Nat /\ WheelPlace(k)
    BY LevelsAre, PlacesAre
  <1>2. CASE k[1] = LEVELS
    <2>1. k = <<LEVELS, k[2]>>
      BY <1>1, <1>2 DEF WheelPlace
    <2>2. e % TIME_NEAR = k[2] /\ now <= e
      BY <1>2 DEF InPlace, IsNear
    <2>3. e # now
      BY <2>1, <2>2 DEF NowPlace
    <2> QED
      BY <1>1, <2>2, <2>3
  <1>3. CASE k[1] # LEVELS /\ k[1] = TopLevel
    BY <1>3 DEF InPlace, IsFar
  <1>4. CASE k[1] # LEVELS /\ k[1] # TopLevel
    <2>1. k[1] \in Nat
      BY <1>1, <1>4, LevelsAre DEF WheelPlace
    <2>2. now \div W(k[1]) < e \div W(k[1])
      BY <1>4 DEF InPlace, IsBetween
    <2>3. W(k[1]) \in Nat \ {0} /\ now \div W(k[1]) \in Nat /\ e \div W(k[1]) \in Nat
      BY <1>1, <2>1, TickDigits
    <2>4. e <= now => e \div W(k[1]) <= now \div W(k[1])
      BY <1>1, <2>3, DivGrows
    <2> QED
      BY <1>1, <2>2, <2>3, <2>4
  <1> QED
    BY <1>2, <1>3, <1>4

(* Where the time does not wrap around and no digit changes.               *)
LEMMA StaysInPlace ==
  ASSUME TW!WheelAssumption, NEW now \in Times, NEW next \in Times, next = now + 1,
         next % TIME_NEAR # 0, NEW e \in Times, NEW k \in WheelPlaces, k # NowPlace(now),
         InPlace(k, e, now)
  PROVE  InPlace(k, e, next)
  <1>1. now \in Nat /\ next \in Nat /\ e \in Nat /\ WheelPlace(k) /\ TopLevel \in Nat
    BY LevelsAre, PlacesAre
  <1>2. \A i \in Nat : next \div W(i) = now \div W(i)
    <2> SUFFICES ASSUME NEW i \in Nat PROVE next \div W(i) = now \div W(i)
      OBVIOUS
    <2>1. W(0) = TIME_NEAR /\ 0 <= i
      BY LevelsAre
    <2>2. next % W(i) # 0
      BY <1>1, <2>1, MultipleDown
    <2> QED
      BY <1>1, <2>2, TickDigits
  <1>3. e # now /\ (k[1] # TopLevel => next <= e)
    BY NotNow
  <1>4. CASE k[1] = LEVELS
    <2>1. next \div TIME_NEAR = now \div TIME_NEAR
      BY <1>2, LevelsAre
    <2>2. next <= e
      BY <1>3, <1>4, LevelsAre
    <2> QED
      BY <1>4, <2>1, <2>2 DEF InPlace, IsNear
  <1>5. CASE k[1] # LEVELS /\ k[1] = TopLevel
    BY <1>1, <1>2, <1>5 DEF InPlace, IsFar
  <1>6. CASE k[1] # LEVELS /\ k[1] # TopLevel
    <2>1. k[1] \in Nat /\ k[1] + 1 \in Nat
      BY <1>1, <1>6 DEF WheelPlace
    <2> QED
      BY <1>2, <1>6, <2>1 DEF InPlace, IsBetween
  <1> QED
    BY <1>4, <1>5, <1>6

(* Where digits up to level c change: the slot moved holds timers that are *)
(* ahead, and the others stay.                                             *)
DuePlace(c, next) == <<c, (next \div W(c)) % TIME_LEVEL>>

LEMMA CarryKeeps ==
  ASSUME TW!WheelAssumption, NEW now \in Times, NEW next \in Times, next = now + 1,
         NEW c \in 0..TopLevel, CarriesTo(c, next), NEW e \in Times, NEW k \in WheelPlaces,
         k # NowPlace(now), InPlace(k, e, now)
  PROVE  IF k = DuePlace(c, next) THEN Ahead(e, next) ELSE InPlace(k, e, next)
  <1>1. /\ now \in Nat /\ next \in Nat /\ e \in Nat /\ WheelPlace(k) /\ TopLevel \in Nat
        /\ c \in Nat /\ c <= TopLevel /\ c # LEVELS /\ next <= e <=> now + 1 <= e
    BY LevelsAre, PlacesAre
  <1>2. /\ \A i \in 0..c : next % W(i) = 0 /\ next \div W(i) = (now \div W(i)) + 1
        /\ \A i \in Nat : c < i => next \div W(i) = now \div W(i)
    <2>1. ASSUME NEW i \in 0..c PROVE next % W(i) = 0 /\ next \div W(i) = (now \div W(i)) + 1
      <3>1. next % W(i) = 0 /\ i \in Nat
        BY <1>1 DEF CarriesTo
      <3> QED
        BY <1>1, <3>1, TickDigits
    <2>2. ASSUME NEW i \in Nat, c < i PROVE next \div W(i) = now \div W(i)
      <3>1. next % W(i) # 0
        BY <2>2 DEF CarriesTo
      <3> QED
        BY <1>1, <3>1, TickDigits
    <2> QED
      BY <2>1, <2>2
  <1>3. e # now /\ (k[1] # TopLevel => next <= e)
    BY NotNow
  <1>4. \A i \in Nat : /\ W(i) \in Nat \ {0} /\ next \div W(i) \in Nat /\ now \div W(i) \in Nat
                       /\ e \div W(i) \in Nat
    BY <1>1, TickDigits
  <1>5. ASSUME NEW i \in 0..c PROVE next <= e <=> next \div W(i) <= e \div W(i)
    <2>1. i \in Nat /\ next % W(i) = 0
      BY <1>1, <1>2
    <2> QED
      BY <1>1, <1>4, <2>1, MultipleBelow
  <1>6. CASE k[1] = LEVELS
    <2>1. 0 \in 0..c /\ 0 \in Nat /\ W(0) = TIME_NEAR
      BY <1>1, LevelsAre
    <2>2. e \div W(0) = now \div W(0)
      BY <1>6, <2>1 DEF InPlace, IsNear
    <2>3. next \div W(0) = (now \div W(0)) + 1 /\ now \div W(0) \in Nat
      BY <1>2, <1>4, <2>1
    <2>4. ~ (next <= e)
      BY <1>5, <2>1, <2>2, <2>3
    <2> QED
      BY <1>3, <1>6, <2>4, LevelsAre
  <1>7. CASE k[1] # LEVELS /\ k[1] = TopLevel
    <2>1. e \div W(TopLevel) = k[2] /\ e \div W(TopLevel) # now \div W(TopLevel)
      BY <1>7 DEF InPlace, IsFar
    <2>2. CASE c = TopLevel
      <3>1. k = DuePlace(c, next) <=> k[2] = next \div W(TopLevel)
        <4>1. DuePlace(c, next) = <<TopLevel, next \div W(TopLevel)>>
          BY <2>2, LastDigit DEF DuePlace
        <4>2. k = <<k[1], k[2]>>
          BY <1>1, <1>7 DEF WheelPlace
        <4> QED
          BY <1>7, <4>1, <4>2
      <3>2. CASE k[2] = next \div W(TopLevel)
        <4>1. c \in 0..c /\ next \div W(c) = e \div W(c) /\ next \div W(c) \in Nat
          BY <1>1, <1>4, <2>1, <2>2, <3>2
        <4>2. next <= e
          BY <1>5, <4>1
        <4> QED
          BY <3>1, <3>2, <4>2 DEF Ahead
      <3>3. CASE k[2] # next \div W(TopLevel)
        BY <1>7, <2>1, <3>1, <3>3 DEF InPlace, IsFar
      <3> QED
        BY <3>2, <3>3
    <2>3. CASE c # TopLevel
      <3>1. next \div W(TopLevel) = now \div W(TopLevel)
        BY <1>1, <1>2, <2>3
      <3>2. InPlace(k, e, next)
        BY <1>7, <2>1, <3>1 DEF InPlace, IsFar
      <3>3. k # DuePlace(c, next)
        BY <1>7, <2>3 DEF DuePlace
      <3> QED
        BY <3>2, <3>3
    <2> QED
      BY <2>2, <2>3
  <1>8. CASE k[1] # LEVELS /\ k[1] # TopLevel
    <2> DEFINE i == k[1]
    <2>1. /\ i \in Nat /\ i + 1 \in Nat /\ next <= e /\ k = <<i, k[2]>>
          /\ (e \div W(i)) % TIME_LEVEL = k[2] /\ e \div W(i + 1) = now \div W(i + 1)
          /\ now \div W(i) < e \div W(i)
      BY <1>1, <1>3, <1>8 DEF WheelPlace, InPlace, IsBetween
    <2> HIDE DEF i
    <2>2. ~ (i < c)
      <3> SUFFICES ASSUME i < c PROVE FALSE
        OBVIOUS
      <3>1. i + 1 \in 0..c
        BY <1>1, <2>1
      <3>2. next \div W(i + 1) = (now \div W(i + 1)) + 1 /\ now \div W(i + 1) \in Nat
        BY <1>2, <1>4, <2>1, <3>1
      <3>3. next \div W(i + 1) <= e \div W(i + 1)
        BY <1>5, <2>1, <3>1
      <3> QED
        BY <2>1, <3>2, <3>3
    <2>3. next \div W(i + 1) = now \div W(i + 1)
      BY <1>1, <1>2, <2>1, <2>2
    <2>4. CASE i = c
      <3>1. k = DuePlace(c, next) <=> k[2] = (next \div W(i)) % TIME_LEVEL
        BY <2>1, <2>4 DEF DuePlace
      <3>2. CASE k[2] = (next \div W(i)) % TIME_LEVEL
        BY <2>1, <3>1, <3>2 DEF Ahead
      <3>3. CASE k[2] # (next \div W(i)) % TIME_LEVEL
        <4>1. i \in 0..c
          BY <1>1, <2>4
        <4>2. next \div W(i) <= e \div W(i) /\ next \div W(i) \in Nat /\ e \div W(i) \in Nat
          BY <1>4, <1>5, <2>1, <4>1
        <4>3. next \div W(i) < e \div W(i)
          <5>1. next \div W(i) # e \div W(i)
            BY <2>1, <3>3
          <5> QED
            BY <4>2, <5>1
        <4>4. IsBetween(i, k[2], e, next)
          BY <2>1, <2>3, <4>3 DEF IsBetween
        <4> QED
          BY <1>8, <3>1, <3>3, <4>4 DEF InPlace, i
      <3> QED
        BY <3>2, <3>3
    <2>5. CASE i # c
      <3>1. next \div W(i) = now \div W(i)
        BY <1>1, <1>2, <2>1, <2>2, <2>5
      <3>2. IsBetween(i, k[2], e, next)
        BY <2>1, <2>3, <3>1 DEF IsBetween
      <3>3. k # DuePlace(c, next)
        BY <2>1, <2>5 DEF DuePlace
      <3> QED
        BY <1>8, <3>2, <3>3 DEF InPlace, i
    <2> QED
      BY <2>4, <2>5
  <1> QED
    BY <1>6, <1>7, <1>8

(* Where the time wraps around, only the first slot of the highest level   *)
(* holds timers that are not in place.                                     *)
LEMMA WrapKeeps ==
  ASSUME TW!WheelAssumption, NEW now \in Times, now + 1 = Around, NEW e \in Times,
         NEW k \in WheelPlaces, k # NowPlace(now), InPlace(k, e, now)
  PROVE  IF k = <<TopLevel, 0>> THEN Ahead(e, 0) ELSE InPlace(k, e, 0)
  <1>1. now \in Nat /\ e \in Nat /\ e < Around /\ Around \in Nat /\ W(TopLevel) \in Nat \ {0}
        /\ TopLevel # LEVELS /\ WheelPlace(k)
    BY LevelsAre, PlacesAre
  <1>2. k[1] = TopLevel
    BY <1>1, NotNow
  <1>3. k = <<TopLevel, k[2]>>
    BY <1>1, <1>2 DEF WheelPlace
  <1>4. 0 \div W(TopLevel) = 0
    BY <1>1
  <1>5. e \div W(TopLevel) = k[2]
    BY <1>1, <1>2 DEF InPlace, IsFar
  <1>6. CASE k[2] = 0
    BY <1>1, <1>3, <1>6 DEF Ahead
  <1>7. CASE k[2] # 0
    BY <1>1, <1>2, <1>3, <1>4, <1>5, <1>7 DEF InPlace, IsFar
  <1> QED
    BY <1>6, <1>7

(* So a tick leaves a wheel that is right, with the same timers.           *)
ReadyBut(w, place, next) ==
  \A k \in WheelPlaces : \A p \in 1..Len(SlotAt(w, k)) :
    IF k = place THEN Ahead(SlotAt(w, k)[p].expire, next) ELSE InPlace(k, SlotAt(w, k)[p].expire, next)

LEMMA MoveReady ==
  ASSUME TW!WheelAssumption, NEW w \in Wheels, Once(w), NEW next \in Times,
         NEW level \in 0..TopLevel, NEW idx \in 0..TIME_LEVEL - 1, ReadyBut(w, <<level, idx>>, next)
  PROVE  RightWheel(TW!move_list(w, level, idx, next), TimersOf(w), next)
  <1> DEFINE e == Emptied(w, level, idx)
             place == <<level, idx>>
  <1>1. /\ e \in Wheels /\ place \in WheelPlaces /\ SlotAt(w, place) = w.t[level][idx]
        /\ \A l \in WheelPlaces : SlotAt(e, l) = IF l = place THEN <<>> ELSE SlotAt(w, l)
    BY EmptiedIs
  <1>2. \A k \in WheelPlaces : \A p \in 1..Len(SlotAt(w, k)) :
          IF k = place THEN Ahead(SlotAt(w, k)[p].expire, next)
          ELSE InPlace(k, SlotAt(w, k)[p].expire, next)
    BY DEF ReadyBut
  <1> HIDE DEF e, place
  <1>3. \A p \in 1..Len(w.t[level][idx]) : Ahead(w.t[level][idx][p].expire, next)
    BY <1>1, <1>2
  <1>4. ASSUME NEW l \in WheelPlaces, NEW p \in 1..Len(SlotAt(e, l))
        PROVE  InPlace(l, SlotAt(e, l)[p].expire, next)
    <2>1. l # place
      <3>1. Len(<<>>) = 0 /\ 1..0 = {}
        OBVIOUS
      <3> QED
        BY <1>1, <3>1
    <2> QED
      BY <1>1, <1>2, <2>1
  <1>5. AllInPlace(e, next)
    BY <1>4 DEF AllInPlace
  <1> QED
    BY <1>3, <1>5, MoveKeeps DEF e

LEMMA ShiftKeeps ==
  ASSUME TW!WheelAssumption, NEW w, NEW nodes, NEW now \in Times, RightWheel(w, nodes, now),
         SlotAt(w, NowPlace(now)) = <<>>
  PROVE  /\ (now + 1) % Around \in Times
         /\ RightWheel(TW!Shift(w, (now + 1) % Around), nodes, (now + 1) % Around)
  <1> DEFINE next == (now + 1) % Around
  <1>1. w \in Wheels /\ AllInPlace(w, now) /\ Once(w) /\ TimersOf(w) = nodes
    BY DEF RightWheel
  <1>2. now \in Nat /\ now < Around /\ Around \in Nat \ {0} /\ TopLevel \in Nat /\ TIME_LEVEL \in Nat \ {0}
        /\ \A x \in Nat : x < Around => x \in Times
    BY LevelsAre DEF Times
  <1>3. next = (IF now + 1 = Around THEN 0 ELSE now + 1) /\ next \in Nat /\ next < Around
    BY <1>2
  <1>4. next \in Times
    BY <1>2, <1>3
  <1> HIDE DEF next
  <1>5. ASSUME NEW k \in WheelPlaces, NEW p \in 1..Len(SlotAt(w, k))
        PROVE  /\ SlotAt(w, k)[p].expire \in Times /\ k # NowPlace(now)
               /\ InPlace(k, SlotAt(w, k)[p].expire, now)
    <2>1. SlotAt(w, k)[p] \in TimerNodes
      BY <1>1, SlotIs
    <2>2. k # NowPlace(now)
      <3>1. Len(<<>>) = 0 /\ 1..0 = {}
        OBVIOUS
      <3> QED
        BY <3>1
    <2> QED
      BY <1>1, <2>1, <2>2 DEF AllInPlace, TimerNodes
  <1>6. CASE now + 1 = Around
    <2>1. next = 0 /\ 0 \in 0..TopLevel /\ 0 \in 0..TIME_LEVEL - 1
      BY <1>2, <1>3, <1>6
    <2>2. ReadyBut(w, <<TopLevel, 0>>, 0)
      <3> SUFFICES ASSUME NEW k \in WheelPlaces, NEW p \in 1..Len(SlotAt(w, k))
                   PROVE  IF k = <<TopLevel, 0>> THEN Ahead(SlotAt(w, k)[p].expire, 0)
                          ELSE InPlace(k, SlotAt(w, k)[p].expire, 0)
        BY DEF ReadyBut
      <3> QED
        BY <1>5, <1>6, WrapKeeps
    <2>3. 0 \in Times /\ TopLevel \in 0..TopLevel
      BY <1>2, <1>4, <2>1
    <2>4. RightWheel(TW!move_list(w, TopLevel, 0, 0), TimersOf(w), 0)
      BY <1>1, <2>1, <2>2, <2>3, MoveReady
    <2> QED
      BY <1>1, <1>4, <2>1, <2>4, ShiftAround DEF next
  <1>7. CASE now + 1 # Around /\ next % TIME_NEAR # 0
    <2>1. next = now + 1 /\ next # 0
      BY <1>2, <1>3, <1>7
    <2>2. AllInPlace(w, next)
      <3> SUFFICES ASSUME NEW k \in WheelPlaces, NEW p \in 1..Len(SlotAt(w, k))
                   PROVE  InPlace(k, SlotAt(w, k)[p].expire, next)
        BY DEF AllInPlace
      <3> QED
        BY <1>4, <1>5, <1>7, <2>1, StaysInPlace
    <2>3. TW!Shift(w, next) = w
      <3>1. DueAt(next) = {}
        BY <1>4, <1>7, DueIs
      <3> QED
        BY <2>1, <3>1, ShiftIs
    <2>4. RightWheel(w, nodes, next)
      BY <1>1, <2>2 DEF RightWheel
    <2> QED
      BY <1>4, <2>3, <2>4 DEF next
  <1>8. CASE now + 1 # Around /\ next % TIME_NEAR = 0
    <2>1. next = now + 1 /\ next # 0
      BY <1>2, <1>3, <1>8
    <2>2. PICK c \in 0..TopLevel : CarriesTo(c, next)
      BY <1>4, <1>8, <2>1, CarryExists
    <2> DEFINE idx == (next \div W(c)) % TIME_LEVEL
    <2>3. TW!Shift(w, next) = TW!move_list(w, c, idx, next)
      <3>1. DueAt(next) = {c} /\ c \in Nat
        BY <1>4, <2>2, DueIs
      <3> QED
        BY <2>1, <3>1, ShiftIs
    <2>4. idx \in 0..TIME_LEVEL - 1
      <3>1. c \in Nat
        BY <1>2
      <3>2. next \div W(c) \in Nat
        BY <1>3, <3>1, TickDigits
      <3> QED
        BY <1>2, <3>2, DivMod
    <2>5. ReadyBut(w, DuePlace(c, next), next)
      <3> SUFFICES ASSUME NEW k \in WheelPlaces, NEW p \in 1..Len(SlotAt(w, k))
                   PROVE  IF k = DuePlace(c, next) THEN Ahead(SlotAt(w, k)[p].expire, next)
                          ELSE InPlace(k, SlotAt(w, k)[p].expire, next)
        BY DEF ReadyBut
      <3> QED
        BY <1>4, <1>5, <2>1, <2>2, CarryKeeps
    <2>6. DuePlace(c, next) = <<c, idx>>
      BY DEF DuePlace
    <2> HIDE DEF idx
    <2>7. RightWheel(TW!move_list(w, c, idx, next), TimersOf(w), next)
      BY <1>1, <1>4, <2>4, <2>5, <2>6, MoveReady
    <2> QED
      BY <1>1, <1>4, <2>3, <2>7 DEF next
  <1> QED
    BY <1>6, <1>7, <1>8

-----------------------------------------------------------------------------
(* How long timers have still to run, as Alarms counts it.                 *)
Way(e, now) == (e + W(LEVELS) - now) % W(LEVELS)

Pending(nodes, now) ==
  [h \in {node.handle : node \in nodes} |-> Way((CHOOSE node \in nodes : node.handle = h).expire, now)]

Distinct(nodes) ==
  nodes \in SUBSET TimerNodes /\ \A a, b \in nodes : a.handle = b.handle => a = b

CountsDown(P, nodes, now) ==
  /\ DOMAIN P = {node.handle : node \in nodes}
  /\ P = [h \in DOMAIN P |-> P[h]]
  /\ \A node \in nodes : node.handle \in DOMAIN P /\ P[node.handle] = Way(node.expire, now)
  /\ \A h \in DOMAIN P : \E node \in nodes : h = node.handle

LEMMA PendingIs ==
  ASSUME NEW nodes, Distinct(nodes), NEW now
  PROVE  CountsDown(Pending(nodes, now), nodes, now)
  <1> DEFINE P == Pending(nodes, now)
  <1>1. DOMAIN P = {node.handle : node \in nodes} /\ P = [h \in DOMAIN P |-> P[h]]
        /\ \A h \in DOMAIN P : P[h] = Way((CHOOSE node \in nodes : node.handle = h).expire, now)
    BY DEF Pending
  <1>2. ASSUME NEW node \in nodes PROVE (CHOOSE x \in nodes : x.handle = node.handle) = node
    BY DEF Distinct
  <1> HIDE DEF P
  <1>3. ASSUME NEW node \in nodes PROVE node.handle \in DOMAIN P /\ P[node.handle] = Way(node.expire, now)
    <2>1. node.handle \in DOMAIN P
      BY <1>1
    <2>2. P[node.handle] = Way((CHOOSE x \in nodes : x.handle = node.handle).expire, now)
      BY <1>1, <2>1
    <2> QED
      BY <1>2, <2>1, <2>2
  <1> QED
    BY <1>1, <1>3 DEF P, CountsDown

(* One tick less, each of them, if none is of now.                         *)
LEMMA WayTick ==
  ASSUME TW!WheelAssumption, NEW now \in Times, NEW e \in Times, e # now
  PROVE  /\ Way(e, now) > 0
         /\ (now + 1) % Around \in Times /\ Way(e, (now + 1) % Around) = Way(e, now) - 1
  <1>1. now \in Nat /\ e \in Nat /\ now < Around /\ e < Around /\ Around \in Nat \ {0} /\ W(LEVELS) = Around
    BY LevelsAre DEF Around
  <1>2. \A x \in Nat : x < Around => x \in 0..Around - 1
    BY <1>1
  <1> DEFINE next == (now + 1) % Around
  <1>3. next = (IF now + 1 = Around THEN 0 ELSE now + 1) /\ next \in Nat /\ next < Around
    BY <1>1
  <1> HIDE DEF next
  <1>4. Way(e, now) = IF now <= e THEN e - now ELSE (e + Around) - now
    BY <1>1, <1>2, Distance DEF Way
  <1>5. Way(e, next) = IF next <= e THEN e - next ELSE (e + Around) - next
    BY <1>1, <1>2, <1>3, Distance DEF Way
  <1>6. Way(e, now) > 0 /\ Way(e, next) = Way(e, now) - 1
    BY <1>1, <1>3, <1>4, <1>5
  <1> QED
    BY <1>2, <1>3, <1>6 DEF next, Times

LEMMA PendingTick ==
  ASSUME TW!WheelAssumption, NEW nodes, Distinct(nodes), NEW now \in Times,
         \A node \in nodes : node.expire # now
  PROVE  /\ \A h \in DOMAIN Pending(nodes, now) : Pending(nodes, now)[h] > 0
         /\ Pending(nodes, (now + 1) % Around)
              = [h \in DOMAIN Pending(nodes, now) |-> Pending(nodes, now)[h] - 1]
  <1> DEFINE P == Pending(nodes, now)
             Q == Pending(nodes, (now + 1) % Around)
  <1>1. ASSUME NEW node \in nodes
        PROVE  Way(node.expire, now) > 0 /\ Way(node.expire, (now + 1) % Around) = Way(node.expire, now) - 1
    <2>1. node.expire \in Times /\ node.expire # now
      BY DEF Distinct, TimerNodes
    <2> QED
      BY <2>1, WayTick
  <1>2. /\ DOMAIN P = {node.handle : node \in nodes} /\ DOMAIN Q = {node.handle : node \in nodes}
        /\ Q = [h \in DOMAIN Q |-> Q[h]]
        /\ \A node \in nodes : P[node.handle] = Way(node.expire, now)
                               /\ Q[node.handle] = Way(node.expire, (now + 1) % Around)
        /\ \A h \in DOMAIN P : \E node \in nodes : h = node.handle
    <2>1. CountsDown(P, nodes, now) /\ CountsDown(Q, nodes, (now + 1) % Around)
      BY PendingIs
    <2> HIDE DEF P, Q
    <2> QED
      BY <2>1 DEF CountsDown
  <1> HIDE DEF P, Q
  <1>3. \A h \in DOMAIN P : P[h] > 0 /\ Q[h] = P[h] - 1
    BY <1>1, <1>2
  <1>4. Q = [h \in DOMAIN P |-> P[h] - 1]
    <2>1. DOMAIN Q = DOMAIN P
      BY <1>2
    <2> QED
      BY <1>2, <1>3, <2>1
  <1> QED
    BY <1>3, <1>4 DEF P, Q

(* The one called back is no longer there.                                 *)
LEMMA PendingFire ==
  ASSUME TW!WheelAssumption, NEW nodes, Distinct(nodes), NEW now \in Times,
         NEW node \in nodes, node.expire = now
  PROVE  /\ node.handle \in DOMAIN Pending(nodes, now) /\ Pending(nodes, now)[node.handle] = 0
         /\ Pending(nodes \ {node}, now)
              = [k \in DOMAIN Pending(nodes, now) \ {node.handle} |-> Pending(nodes, now)[k]]
  <1> DEFINE rest == nodes \ {node}
             P == Pending(nodes, now)
             Q == Pending(rest, now)
  <1>1. Distinct(rest) /\ \A x \in rest : x \in nodes /\ x.handle # node.handle
    BY DEF Distinct
  <1>2. /\ DOMAIN P = {x.handle : x \in nodes}
        /\ \A x \in nodes : x.handle \in DOMAIN P /\ P[x.handle] = Way(x.expire, now)
    <2>1. CountsDown(P, nodes, now)
      BY PendingIs
    <2> HIDE DEF P
    <2> QED
      BY <2>1 DEF CountsDown
  <1>3. /\ DOMAIN Q = {x.handle : x \in rest} /\ Q = [h \in DOMAIN Q |-> Q[h]]
        /\ \A x \in rest : Q[x.handle] = Way(x.expire, now)
        /\ \A h \in DOMAIN Q : \E x \in rest : h = x.handle
    <2>1. CountsDown(Q, rest, now)
      BY <1>1, PendingIs
    <2> HIDE DEF Q, rest
    <2> QED
      BY <2>1 DEF CountsDown
  <1>4. Way(now, now) = 0
    <2>1. Around \in Nat \ {0} /\ now \in 0..Around - 1 /\ now \in Nat
      BY LevelsAre DEF Times
    <2> QED
      BY <2>1, Distance DEF Way, Around
  <1>5. DOMAIN P \ {node.handle} = {x.handle : x \in rest}
    <2>1. \A x \in nodes : x \in rest \/ x = node
      OBVIOUS
    <2> HIDE DEF rest, P
    <2> QED
      BY <1>1, <1>2, <2>1
  <1> HIDE DEF rest, P, Q
  <1>6. \A h \in DOMAIN Q : Q[h] = P[h]
    BY <1>1, <1>2, <1>3
  <1>7. DOMAIN Q = DOMAIN P \ {node.handle}
    BY <1>3, <1>5
  <1>8. Q = [k \in DOMAIN P \ {node.handle} |-> P[k]]
    BY <1>3, <1>6, <1>7
  <1> QED
    BY <1>2, <1>4, <1>8 DEF P, Q, rest

(* A timer set is ahead, and has the ticks asked for.                      *)
LEMMA SetAhead ==
  ASSUME TW!WheelAssumption, NEW now \in Times, NEW d \in Delays
  PROVE  /\ (now + d) % Around \in Times /\ Ahead((now + d) % Around, now)
         /\ Way((now + d) % Around, now) = d
  <1> DEFINE e == (now + d) % Around
             w == W(TopLevel)
  <1>1. now \in Nat /\ now < Around /\ Around \in Nat \ {0} /\ W(LEVELS) = Around
        /\ w \in Nat \ {0} /\ Around = TIME_LEVEL * w /\ TIME_LEVEL \in Nat \ {0, 1}
    BY LevelsAre DEF Around
  <1>2. d \in Nat /\ d > 0 /\ d + d < Around
    <2>1. d \in 1..(Around \div 2 - 1)
      BY <1>1 DEF TW!WheelAssumption, W
    <2> QED
      BY <1>1, <2>1
  <1> HIDE DEF w
  <1>3. w + w <= Around
    BY <1>1
  <1>4. e = (IF now + d < Around THEN now + d ELSE (now + d) - Around) /\ e \in Nat /\ e < Around
    <2>1. now \in 0..Around - 1 /\ d \in 0..Around - 1
      BY <1>1, <1>2
    <2>2. e = IF now + d < Around THEN now + d ELSE (now + d) - Around
      BY <1>1, <2>1, Later
    <2> HIDE DEF e
    <2> QED
      BY <1>1, <1>2, <2>2
  <1> HIDE DEF e
  <1>5. e \in 0..Around - 1 /\ now \in 0..Around - 1
    BY <1>1, <1>4
  <1>6. Way(e, now) = IF now <= e THEN e - now ELSE (e + Around) - now
    BY <1>1, <1>5, Distance DEF Way
  <1>7. Way(e, now) = d
    BY <1>1, <1>2, <1>4, <1>6
  <1>8. ASSUME e \div w = now \div w PROVE now <= e
    <2>1. now - e < w
      BY <1>1, <1>4, <1>8, Close
    <2> QED
      BY <1>1, <1>2, <1>3, <1>4, <2>1
  <1>9. Ahead(e, now)
    BY <1>8 DEF Ahead, w
  <1> QED
    BY <1>5, <1>7, <1>9 DEF e, Times

Longer(P, h, d) == [k \in DOMAIN P \cup {h} |-> IF k = h THEN d ELSE P[k]]

Another(nodes, node, now, d) ==
  /\ Distinct(nodes) /\ node \in TimerNodes /\ Way(node.expire, now) = d
  /\ \A x \in nodes : x.handle # node.handle

LEMMA PendingSet ==
  ASSUME NEW nodes, NEW node, NEW now, NEW d, Another(nodes, node, now, d)
  PROVE  /\ Distinct(nodes \cup {node}) /\ node.handle \notin DOMAIN Pending(nodes, now)
         /\ Pending(nodes \cup {node}, now) = Longer(Pending(nodes, now), node.handle, d)
  <1> DEFINE more == nodes \cup {node}
             P == Pending(nodes, now)
             Q == Pending(more, now)
  <1>0. /\ Distinct(nodes) /\ node \in TimerNodes /\ Way(node.expire, now) = d
        /\ \A x \in nodes : x.handle # node.handle
    BY DEF Another
  <1>1. Distinct(more)
    BY <1>0 DEF Distinct
  <1>2. /\ DOMAIN P = {x.handle : x \in nodes}
        /\ \A x \in nodes : P[x.handle] = Way(x.expire, now)
        /\ \A h \in DOMAIN P : \E x \in nodes : h = x.handle
    <2>1. CountsDown(P, nodes, now)
      BY <1>0, PendingIs
    <2> HIDE DEF P
    <2> QED
      BY <2>1 DEF CountsDown
  <1>3. /\ DOMAIN Q = {x.handle : x \in more} /\ Q = [h \in DOMAIN Q |-> Q[h]]
        /\ \A x \in more : Q[x.handle] = Way(x.expire, now)
    <2>1. CountsDown(Q, more, now)
      BY <1>1, PendingIs
    <2> HIDE DEF Q, more
    <2> QED
      BY <2>1 DEF CountsDown
  <1>4. DOMAIN Q = DOMAIN P \cup {node.handle}
    <2> HIDE DEF P, Q
    <2> QED
      BY <1>2, <1>3
  <1>5. \A x \in nodes : x \in more
    OBVIOUS
  <1>6. node \in more
    OBVIOUS
  <1> HIDE DEF more, P, Q
  <1>7. node.handle \notin DOMAIN P
    BY <1>0, <1>2
  <1>8. ASSUME NEW h \in DOMAIN Q PROVE Q[h] = IF h = node.handle THEN d ELSE P[h]
    <2>1. CASE h = node.handle
      BY <1>0, <1>3, <1>6, <2>1
    <2>2. CASE h # node.handle
      <3>1. PICK x \in nodes : h = x.handle
        BY <1>2, <1>4, <2>2
      <3> QED
        BY <1>2, <1>3, <1>5, <2>2, <3>1
    <2> QED
      BY <2>1, <2>2
  <1>9. Q = [k \in DOMAIN P \cup {node.handle} |-> IF k = node.handle THEN d ELSE P[k]]
    BY <1>3, <1>4, <1>8
  <1> QED
    BY <1>1, <1>7, <1>9 DEF more, P, Q, Longer

-----------------------------------------------------------------------------
(* The timers of the wheel and those that are being called back: the       *)
(* latter are of this tick, and no timer is there twice.                   *)
Listed(list) == {list[p] : p \in 1..Len(list)}
AllTimers(w, list) == TimersOf(w) \cup Listed(list)

TimersRight(w, list, now) ==
  /\ now \in Times /\ RightWheel(w, TimersOf(w), now) /\ list \in Seq(TimerNodes)
  /\ \A p \in 1..Len(list) : list[p].expire = now /\ \A x \in TimersOf(w) : x.handle # list[p].handle
  /\ \A p, r \in 1..Len(list) : list[p].handle = list[r].handle => p = r

LEMMA AllDistinct ==
  ASSUME TW!WheelAssumption, NEW w, NEW list, NEW now, TimersRight(w, list, now)
  PROVE  Distinct(AllTimers(w, list))
  <1>1. w \in Wheels /\ Once(w) /\ list \in Seq(TimerNodes)
    BY DEF TimersRight, RightWheel
  <1>2. /\ TimersOf(w) \in SUBSET TimerNodes
        /\ \A x \in TimersOf(w) :
             \E k \in WheelPlaces : \E p \in 1..Len(SlotAt(w, k)) : x = SlotAt(w, k)[p]
    BY <1>1, TimersAre
  <1>3. ASSUME NEW x \in TimersOf(w), NEW y \in TimersOf(w), x.handle = y.handle PROVE x = y
    <2>1. PICK k \in WheelPlaces : \E p \in 1..Len(SlotAt(w, k)) : x = SlotAt(w, k)[p]
      BY <1>2
    <2>2. PICK p \in 1..Len(SlotAt(w, k)) : x = SlotAt(w, k)[p]
      BY <2>1
    <2>3. PICK l \in WheelPlaces : \E r \in 1..Len(SlotAt(w, l)) : y = SlotAt(w, l)[r]
      BY <1>2
    <2>4. PICK r \in 1..Len(SlotAt(w, l)) : y = SlotAt(w, l)[r]
      BY <2>3
    <2> QED
      BY <1>1, <1>3, <2>2, <2>4 DEF Once
  <1>4. /\ \A p \in 1..Len(list) : list[p] \in TimerNodes
                                   /\ \A x \in TimersOf(w) : x.handle # list[p].handle
        /\ \A p, r \in 1..Len(list) : list[p].handle = list[r].handle => p = r
    BY DEF TimersRight
  <1>5. Listed(list) \in SUBSET TimerNodes /\ \A x \in Listed(list) : \E p \in 1..Len(list) : x = list[p]
    BY <1>4 DEF Listed
  <1>6. ASSUME NEW x \in Listed(list), NEW y \in Listed(list), x.handle = y.handle PROVE x = y
    BY <1>4, <1>5, <1>6
  <1>7. ASSUME NEW x \in TimersOf(w), NEW y \in Listed(list) PROVE x.handle # y.handle
    BY <1>4, <1>5
  <1> QED
    BY <1>2, <1>3, <1>5, <1>6, <1>7 DEF Distinct, AllTimers

(* timer_add.                                                              *)
LEMMA SetKeeps ==
  ASSUME TW!WheelAssumption, NEW w, NEW list, NEW now, TimersRight(w, list, now),
         NEW node \in TimerNodes, Ahead(node.expire, now),
         \A x \in AllTimers(w, list) : x.handle # node.handle
  PROVE  /\ TimersRight(TW!add_node(w, node, now), list, now)
         /\ AllTimers(TW!add_node(w, node, now), list) = AllTimers(w, list) \cup {node}
  <1> DEFINE a == TW!add_node(w, node, now)
  <1>1. now \in Times /\ RightWheel(w, TimersOf(w), now) /\ \A x \in TimersOf(w) : x.handle # node.handle
    BY DEF TimersRight, AllTimers
  <1>2. RightWheel(a, TimersOf(w) \cup {node}, now)
    BY <1>1, AddKeeps
  <1> HIDE DEF a
  <1>3. TimersOf(a) = TimersOf(w) \cup {node}
    BY <1>2 DEF RightWheel
  <1>4. \A p \in 1..Len(list) : list[p].handle # node.handle
    BY DEF AllTimers, Listed
  <1>5. TimersRight(a, list, now)
    BY <1>2, <1>3, <1>4 DEF TimersRight
  <1>6. AllTimers(a, list) = AllTimers(w, list) \cup {node}
    BY <1>3 DEF AllTimers
  <1> QED
    BY <1>5, <1>6 DEF a

(* dispatch_list calls back the first of the list.                         *)
LEMMA CallKeeps ==
  ASSUME TW!WheelAssumption, NEW w, NEW list, NEW now, TimersRight(w, list, now), list # <<>>
  PROVE  /\ TimersRight(w, Tail(list), now)
         /\ Head(list) \in AllTimers(w, list) /\ Head(list).expire = now
         /\ AllTimers(w, Tail(list)) = AllTimers(w, list) \ {Head(list)}
  <1>1. list \in Seq(TimerNodes)
    BY DEF TimersRight
  <1>2. /\ Len(list) \in Nat \ {0} /\ 1 \in 1..Len(list) /\ Head(list) = list[1]
        /\ Tail(list) \in Seq(TimerNodes) /\ Len(Tail(list)) = Len(list) - 1
        /\ \A p \in 1..Len(Tail(list)) : Tail(list)[p] = list[p + 1] /\ p + 1 \in 1..Len(list) /\ p + 1 # 1
        /\ \A p \in 1..Len(list) : p # 1 => p - 1 \in 1..Len(Tail(list)) /\ list[p] = Tail(list)[p - 1]
    BY <1>1
  <1>3. /\ \A p \in 1..Len(list) :
             list[p].expire = now /\ \A x \in TimersOf(w) : x.handle # list[p].handle
        /\ \A p, r \in 1..Len(list) : list[p].handle = list[r].handle => p = r
    BY DEF TimersRight
  <1> DEFINE rest == Tail(list)
  <1>4. ASSUME NEW p \in 1..Len(rest), NEW r \in 1..Len(rest), rest[p].handle = rest[r].handle PROVE p = r
    <2>1. p + 1 = r + 1
      BY <1>2, <1>3, <1>4
    <2> QED
      BY <2>1
  <1>5. TimersRight(w, rest, now)
    <2>1. \A p \in 1..Len(rest) : rest[p].expire = now /\ \A x \in TimersOf(w) : x.handle # rest[p].handle
      BY <1>2, <1>3
    <2> HIDE DEF rest
    <2> QED
      BY <1>2, <1>4, <2>1 DEF TimersRight, rest
  <1>6. Listed(rest) = Listed(list) \ {list[1]}
    <2>1. ASSUME NEW x \in Listed(rest) PROVE x \in Listed(list) /\ x # list[1]
      <3>1. PICK p \in 1..Len(rest) : x = rest[p]
        BY <2>1 DEF Listed
      <3>2. x = list[p + 1] /\ p + 1 \in 1..Len(list) /\ p + 1 # 1
        BY <1>2, <3>1
      <3> QED
        BY <1>2, <1>3, <3>2 DEF Listed
    <2>2. ASSUME NEW x \in Listed(list), x # list[1] PROVE x \in Listed(rest)
      <3>1. PICK p \in 1..Len(list) : x = list[p]
        BY <2>2 DEF Listed
      <3>2. p - 1 \in 1..Len(rest) /\ x = rest[p - 1]
        BY <1>2, <2>2, <3>1
      <3> QED
        BY <3>2 DEF Listed
    <2> QED
      BY <2>1, <2>2
  <1>7. list[1] \in Listed(list) /\ list[1] \notin TimersOf(w)
    BY <1>2, <1>3 DEF Listed
  <1> HIDE DEF rest
  <1>8. AllTimers(w, rest) = AllTimers(w, list) \ {list[1]}
    BY <1>6, <1>7 DEF AllTimers
  <1> QED
    BY <1>2, <1>3, <1>5, <1>7, <1>8 DEF rest, AllTimers

(* timer_execute takes the slot of now.                                    *)
Taken(w, now) == [w EXCEPT !.near[now % TIME_NEAR] = <<>>]

LEMMA TakenIs ==
  ASSUME TW!WheelAssumption, NEW w \in Wheels, NEW now \in Times
  PROVE  /\ Taken(w, now) \in Wheels /\ NowPlace(now) \in WheelPlaces
         /\ SlotAt(w, NowPlace(now)) = w.near[now % TIME_NEAR]
         /\ \A k \in WheelPlaces :
              SlotAt(Taken(w, now), k) = IF k = NowPlace(now) THEN <<>> ELSE SlotAt(w, k)
  <1> DEFINE a == Taken(w, now)
             idx == now % TIME_NEAR
             row == [w.near EXCEPT ![idx] = <<>>]
  <1>1. w.near \in [0..TIME_NEAR - 1 -> Seq(TimerNodes)]
        /\ w.t \in [0..TopLevel -> [0..TIME_LEVEL - 1 -> Seq(TimerNodes)]]
    BY DEF Wheels
  <1>2. idx \in 0..TIME_NEAR - 1
    <2>1. TIME_NEAR \in Nat \ {0} /\ now \in Nat
      BY LevelsAre
    <2> QED
      BY <2>1, DivMod
  <1> HIDE DEF idx
  <1>3. row \in [0..TIME_NEAR - 1 -> Seq(TimerNodes)]
        /\ \A i \in 0..TIME_NEAR - 1 : row[i] = IF i = idx THEN <<>> ELSE w.near[i]
    <2>1. <<>> \in Seq(TimerNodes)
      OBVIOUS
    <2> QED
      BY <1>1, <1>2, <2>1
  <1> HIDE DEF row
  <1>4. a = [near |-> row, t |-> w.t]
    BY DEF Taken, Wheels, row, idx
  <1> HIDE DEF a
  <1>5. a.near = row /\ a.t = w.t /\ a \in Wheels
    BY <1>1, <1>3, <1>4 DEF Wheels
  <1>6. ASSUME NEW k \in WheelPlaces
        PROVE  SlotAt(a, k) = IF k = <<LEVELS, idx>> THEN <<>> ELSE SlotAt(w, k)
    <2>1. WheelPlace(k)
      BY PlacesAre
    <2>2. CASE k[1] = LEVELS
      <3>1. k[2] \in 0..TIME_NEAR - 1 /\ k = <<LEVELS, k[2]>>
        BY <2>1, <2>2 DEF WheelPlace
      <3>2. SlotAt(a, k) = row[k[2]] /\ SlotAt(w, k) = w.near[k[2]]
        BY <1>5, <2>2 DEF SlotAt
      <3>3. k = <<LEVELS, idx>> <=> k[2] = idx
        BY <3>1
      <3> QED
        BY <1>3, <3>1, <3>2, <3>3
    <2>3. CASE k[1] # LEVELS
      <3>1. k # <<LEVELS, idx>>
        BY <2>3
      <3> QED
        BY <1>5, <2>3, <3>1 DEF SlotAt
    <2> QED
      BY <2>2, <2>3
  <1>7. <<LEVELS, idx>> \in WheelPlaces
    BY <1>2 DEF WheelPlaces
  <1>8. SlotAt(w, <<LEVELS, idx>>) = w.near[idx]
    BY DEF SlotAt
  <1> QED
    BY <1>5, <1>6, <1>7, <1>8 DEF a, idx, NowPlace

(* Its timers are of now.                                                  *)
LEMMA NearIsNow ==
  ASSUME TW!WheelAssumption, NEW now \in Times, NEW e \in Times, InPlace(NowPlace(now), e, now)
  PROVE  e = now
  <1>1. e % TIME_NEAR = now % TIME_NEAR /\ e \div TIME_NEAR = now \div TIME_NEAR
    BY DEF InPlace, IsNear, NowPlace
  <1>2. TIME_NEAR \in Nat \ {0} /\ e \in Nat /\ now \in Nat
    BY LevelsAre
  <1>3. e = TIME_NEAR * (e \div TIME_NEAR) + (e % TIME_NEAR)
        /\ now = TIME_NEAR * (now \div TIME_NEAR) + (now % TIME_NEAR)
    BY <1>2, DivMod
  <1> QED
    BY <1>1, <1>3

LEMMA TakeKeeps ==
  ASSUME TW!WheelAssumption, NEW w, NEW now, TimersRight(w, <<>>, now)
  PROVE  /\ TimersRight(Taken(w, now), w.near[now % TIME_NEAR], now)
         /\ AllTimers(Taken(w, now), w.near[now % TIME_NEAR]) = AllTimers(w, <<>>)
  <1> DEFINE a == Taken(w, now)
             here == NowPlace(now)
             list == w.near[now % TIME_NEAR]
  <1>1. w \in Wheels /\ now \in Times /\ AllInPlace(w, now) /\ Once(w)
    BY DEF TimersRight, RightWheel
  <1>2. /\ a \in Wheels /\ here \in WheelPlaces /\ SlotAt(w, here) = list
        /\ \A k \in WheelPlaces : SlotAt(a, k) = IF k = here THEN <<>> ELSE SlotAt(w, k)
    BY <1>1, TakenIs
  <1> HIDE DEF a, here, list
  <1>3. list \in Seq(TimerNodes) /\ \A p \in 1..Len(list) : list[p] \in TimerNodes /\ list[p].expire \in Times
    <2>1. list \in Seq(TimerNodes) /\ \A p \in 1..Len(list) : list[p] \in TimerNodes
      BY <1>1, <1>2, SlotIs
    <2> QED
      BY <2>1 DEF TimerNodes
  <1>4. ASSUME NEW k \in WheelPlaces, NEW p \in 1..Len(SlotAt(a, k))
        PROVE  k # here /\ p \in 1..Len(SlotAt(w, k)) /\ SlotAt(a, k)[p] = SlotAt(w, k)[p]
    <2>1. k # here
      <3> SUFFICES ASSUME k = here PROVE FALSE
        OBVIOUS
      <3>1. SlotAt(a, k) = <<>>
        BY <1>2
      <3> QED
        BY <3>1
    <2> QED
      BY <1>2, <2>1
  <1>5. ASSUME NEW p \in 1..Len(list) PROVE list[p].expire = now
    <2>1. InPlace(here, list[p].expire, now)
      BY <1>1, <1>2 DEF AllInPlace
    <2> QED
      BY <1>1, <1>3, <2>1, NearIsNow DEF here
  <1>6. AllInPlace(a, now)
    BY <1>1, <1>4 DEF AllInPlace
  <1>7. Once(a)
    <2> SUFFICES ASSUME NEW k \in WheelPlaces, NEW l \in WheelPlaces,
                        NEW p \in 1..Len(SlotAt(a, k)), NEW r \in 1..Len(SlotAt(a, l)),
                        SlotAt(a, k)[p].handle = SlotAt(a, l)[r].handle
                 PROVE  k = l /\ p = r
      BY DEF Once
    <2> QED
      BY <1>1, <1>4 DEF Once
  <1>8. \A x : x \in TimersOf(a) <=>
          \E k \in WheelPlaces : \E p \in 1..Len(SlotAt(a, k)) : x = SlotAt(a, k)[p]
    BY <1>2, TimersAre
  <1>9. \A x : x \in TimersOf(w) <=>
          \E k \in WheelPlaces : \E p \in 1..Len(SlotAt(w, k)) : x = SlotAt(w, k)[p]
    BY <1>1, TimersAre
  <1>10. ASSUME NEW x \in TimersOf(a), NEW p \in 1..Len(list) PROVE x.handle # list[p].handle
    <2>1. PICK k \in WheelPlaces : \E r \in 1..Len(SlotAt(a, k)) : x = SlotAt(a, k)[r]
      BY <1>8
    <2>2. PICK r \in 1..Len(SlotAt(a, k)) : x = SlotAt(a, k)[r]
      BY <2>1
    <2>3. k # here /\ r \in 1..Len(SlotAt(w, k)) /\ x = SlotAt(w, k)[r]
      BY <1>4, <2>2
    <2>4. p \in 1..Len(SlotAt(w, here)) /\ list[p] = SlotAt(w, here)[p]
      BY <1>2
    <2> QED
      BY <1>1, <1>2, <2>3, <2>4 DEF Once
  <1>11. \A p, r \in 1..Len(list) : list[p].handle = list[r].handle => p = r
    BY <1>1, <1>2 DEF Once
  <1>12. TimersRight(a, list, now)
    BY <1>1, <1>2, <1>3, <1>5, <1>6, <1>7, <1>10, <1>11 DEF TimersRight, RightWheel
  <1>13. TimersOf(w) = TimersOf(a) \cup Listed(list)
    <2>1. ASSUME NEW x \in TimersOf(w), x \notin Listed(list) PROVE x \in TimersOf(a)
      <3>1. PICK k \in WheelPlaces : \E p \in 1..Len(SlotAt(w, k)) : x = SlotAt(w, k)[p]
        BY <1>9
      <3>2. PICK p \in 1..Len(SlotAt(w, k)) : x = SlotAt(w, k)[p]
        BY <3>1
      <3>3. k # here
        BY <1>2, <2>1, <3>2 DEF Listed
      <3>4. SlotAt(a, k) = SlotAt(w, k)
        BY <1>2, <3>3
      <3> QED
        BY <1>8, <3>2, <3>4
    <2>2. ASSUME NEW x \in TimersOf(a) PROVE x \in TimersOf(w)
      <3>1. PICK k \in WheelPlaces : \E r \in 1..Len(SlotAt(a, k)) : x = SlotAt(a, k)[r]
        BY <1>8
      <3>2. PICK r \in 1..Len(SlotAt(a, k)) : x = SlotAt(a, k)[r]
        BY <3>1
      <3> QED
        BY <1>4, <1>9, <3>2
    <2>3. ASSUME NEW x \in Listed(list) PROVE x \in TimersOf(w)
      <3>1. PICK p \in 1..Len(list) : x = list[p]
        BY DEF Listed
      <3> QED
        BY <1>2, <1>9, <3>1
    <2> QED
      BY <2>1, <2>2, <2>3
  <1>14. Listed(<<>>) = {}
    BY DEF Listed
  <1> QED
    BY <1>12, <1>13, <1>14 DEF AllTimers, a, list

(* timer_shift: where nothing is left to call back, no timer is of now.    *)
LEMMA TickKeeps ==
  ASSUME TW!WheelAssumption, NEW w, NEW now, TimersRight(w, <<>>, now),
         w.near[now % TIME_NEAR] = <<>>
  PROVE  /\ TimersRight(TW!Shift(w, (now + 1) % Around), <<>>, (now + 1) % Around)
         /\ AllTimers(TW!Shift(w, (now + 1) % Around), <<>>) = AllTimers(w, <<>>)
         /\ \A x \in AllTimers(w, <<>>) : x.expire # now
  <1> DEFINE next == (now + 1) % Around
             a == TW!Shift(w, next)
  <1>1. w \in Wheels /\ now \in Times /\ AllInPlace(w, now) /\ RightWheel(w, TimersOf(w), now)
    BY DEF TimersRight, RightWheel
  <1>2. SlotAt(w, NowPlace(now)) = <<>>
    BY DEF SlotAt, NowPlace
  <1>3. next \in Times /\ RightWheel(a, TimersOf(w), next)
    BY <1>1, <1>2, ShiftKeeps
  <1> HIDE DEF next, a
  <1>4. TimersOf(a) = TimersOf(w)
    BY <1>3 DEF RightWheel
  <1>5. Listed(<<>>) = {} /\ <<>> \in Seq(TimerNodes) /\ 1..Len(<<>>) = {}
    BY DEF Listed
  <1>6. TimersRight(a, <<>>, next)
    BY <1>3, <1>4, <1>5 DEF TimersRight
  <1>7. ASSUME NEW x \in TimersOf(w) PROVE x.expire # now
    <2>1. PICK k \in WheelPlaces : \E p \in 1..Len(SlotAt(w, k)) : x = SlotAt(w, k)[p]
      BY <1>1, TimersAre
    <2>2. PICK p \in 1..Len(SlotAt(w, k)) : x = SlotAt(w, k)[p]
      BY <2>1
    <2>3. k # NowPlace(now)
      <3> SUFFICES ASSUME k = NowPlace(now) PROVE FALSE
        OBVIOUS
      <3>1. Len(SlotAt(w, k)) = 0
        BY <1>2
      <3> QED
        BY <2>2, <3>1
    <2>4. x \in TimerNodes /\ x.expire \in Times
      <3>1. x \in TimerNodes
        BY <1>1, <2>2, SlotIs
      <3> QED
        BY <3>1 DEF TimerNodes
    <2>5. InPlace(k, x.expire, now)
      BY <1>1, <2>2 DEF AllInPlace
    <2> QED
      BY <1>1, <2>3, <2>4, <2>5, NotNow
  <1> QED
    BY <1>4, <1>5, <1>6, <1>7 DEF AllTimers, a, next

-----------------------------------------------------------------------------
(* The state of the timing wheel, and what it is for Alarms.               *)
TheWheel == [near |-> near, t |-> far]
TimerInv == TimersRight(TheWheel, dispatching, ticked)

SlotsIn(n, f) == {n[idx] : idx \in DOMAIN n} \cup UNION {{f[i][idx] : idx \in DOMAIN f[i]} : i \in DOMAIN f}
NodesIn(n, f, list) == UNION {ToSet(slot) : slot \in SlotsIn(n, f) \cup {list}}

LEMMA NodesAre ==
  ASSUME TW!WheelAssumption, NEW n, NEW f, NEW list, NEW now,
         TimersRight([near |-> n, t |-> f], list, now)
  PROVE  NodesIn(n, f, list) = AllTimers([near |-> n, t |-> f], list)
  <1> DEFINE w == [near |-> n, t |-> f]
  <1>1. w \in Wheels /\ w.near = n /\ w.t = f /\ list \in Seq(TimerNodes)
    BY DEF TimersRight, RightWheel
  <1>2. n \in [0..TIME_NEAR - 1 -> Seq(TimerNodes)]
        /\ f \in [0..TopLevel -> [0..TIME_LEVEL - 1 -> Seq(TimerNodes)]]
    BY <1>1 DEF Wheels
  <1> HIDE DEF w
  <1>3. \A i \in 0..TopLevel : DOMAIN f[i] = 0..TIME_LEVEL - 1
    BY <1>2
  <1>4. DOMAIN n = 0..TIME_NEAR - 1 /\ DOMAIN f = 0..TopLevel
    BY <1>2
  <1>5. ToSet(list) = Listed(list)
    BY <1>1 DEF ToSet, Listed
  <1>6. ASSUME NEW slot \in SlotsIn(n, f)
        PROVE  \E k \in WheelPlaces : slot = SlotAt(w, k)
    <2>1. CASE slot \in {n[idx] : idx \in DOMAIN n}
      <3>1. PICK idx \in 0..TIME_NEAR - 1 : slot = n[idx]
        BY <1>4, <2>1
      <3>2. <<LEVELS, idx>> \in WheelPlaces /\ SlotAt(w, <<LEVELS, idx>>) = slot
        BY <1>1, <3>1 DEF WheelPlaces, SlotAt
      <3> QED
        BY <3>2
    <2>2. CASE slot \in UNION {{f[i][idx] : idx \in DOMAIN f[i]} : i \in DOMAIN f}
      <3>1. PICK i \in DOMAIN f : slot \in {f[i][idx] : idx \in DOMAIN f[i]}
        BY <2>2
      <3>2. PICK idx \in DOMAIN f[i] : slot = f[i][idx]
        BY <3>1
      <3>3. i \in 0..TopLevel /\ idx \in 0..TIME_LEVEL - 1
        BY <1>3, <1>4, <3>2
      <3>4. i # LEVELS
        BY <3>3, LevelsAre
      <3>5. <<i, idx>> \in WheelPlaces /\ SlotAt(w, <<i, idx>>) = slot
        BY <1>1, <3>2, <3>3, <3>4 DEF WheelPlaces, SlotAt
      <3> QED
        BY <3>5
    <2> QED
      BY <2>1, <2>2 DEF SlotsIn
  <1>7. ASSUME NEW k \in WheelPlaces PROVE SlotAt(w, k) \in SlotsIn(n, f)
    <2>1. WheelPlace(k)
      BY PlacesAre
    <2>2. CASE k[1] = LEVELS
      <3>1. k[2] \in 0..TIME_NEAR - 1
        BY <2>1, <2>2 DEF WheelPlace
      <3>2. SlotAt(w, k) = n[k[2]]
        BY <1>1, <2>2 DEF SlotAt
      <3> QED
        BY <1>4, <3>1, <3>2 DEF SlotsIn
    <2>3. CASE k[1] # LEVELS
      <3>1. k[1] \in 0..TopLevel /\ k[2] \in 0..TIME_LEVEL - 1
        BY <2>1, <2>3 DEF WheelPlace
      <3>2. SlotAt(w, k) = f[k[1]][k[2]]
        BY <1>1, <2>3 DEF SlotAt
      <3>3. k[1] \in DOMAIN f /\ k[2] \in DOMAIN f[k[1]]
        BY <1>3, <1>4, <3>1
      <3> QED
        BY <3>2, <3>3 DEF SlotsIn
    <2> QED
      BY <2>2, <2>3
  <1>8. \A x : x \in NodesIn(n, f, list) <=> (x \in ToSet(list) \/ \E slot \in SlotsIn(n, f) : x \in ToSet(slot))
    BY DEF NodesIn
  <1>9. \A x : x \in NodesIn(n, f, list) <=> x \in AllTimers(w, list)
    BY <1>5, <1>6, <1>7, <1>8 DEF AllTimers, TimersOf
  <1> QED
    BY <1>9 DEF w

LEMMA TimerInit ==
  ASSUME TW!WheelAssumption, TW!Init
  PROVE  TimerInv /\ TW!Ideal!Init
  <1> DEFINE w == TheWheel
  <1>1. /\ near = [idx \in 0..TIME_NEAR - 1 |-> <<>>]
        /\ far = [i \in 0..TopLevel |-> [idx \in 0..TIME_LEVEL - 1 |-> <<>>]]
        /\ ticked = 0 /\ dispatching = <<>>
    BY DEF TW!Init, TopLevel
  <1>2. w.near = near /\ w.t = far
    BY DEF TheWheel
  <1>3. w \in Wheels
    <2>1. <<>> \in Seq(TimerNodes)
      OBVIOUS
    <2> QED
      BY <1>1, <2>1 DEF Wheels, TheWheel
  <1> HIDE DEF w
  <1>4. ASSUME NEW k \in WheelPlaces PROVE SlotAt(w, k) = <<>> /\ 1..Len(SlotAt(w, k)) = {}
    <2>1. WheelPlace(k)
      BY PlacesAre
    <2>2. SlotAt(w, k) = <<>>
      <3>1. CASE k[1] = LEVELS
        BY <1>1, <1>2, <2>1, <3>1 DEF WheelPlace, SlotAt
      <3>2. CASE k[1] # LEVELS
        BY <1>1, <1>2, <2>1, <3>2 DEF WheelPlace, SlotAt
      <3> QED
        BY <3>1, <3>2
    <2>3. 1..Len(<<>>) = {}
      OBVIOUS
    <2> QED
      BY <2>2, <2>3
  <1>5. AllInPlace(w, 0) /\ Once(w)
    BY <1>4 DEF AllInPlace, Once
  <1>6. TimersOf(w) = {} /\ Listed(<<>>) = {}
    <2>1. \A x : ~ (x \in TimersOf(w))
      BY <1>3, <1>4, TimersAre
    <2> QED
      BY <2>1 DEF Listed
  <1>7. 0 \in Times
    BY LevelsAre DEF Times
  <1>8. TimersRight(w, <<>>, 0)
    BY <1>3, <1>5, <1>6, <1>7 DEF TimersRight, RightWheel
  <1>9. TimerInv
    BY <1>1, <1>8 DEF TimerInv, w
  <1>10. TW!Nodes = {}
    <2>1. NodesIn(near, far, dispatching) = AllTimers(w, <<>>)
      BY <1>1, <1>8, NodesAre DEF TheWheel, w
    <2>2. TW!Nodes = NodesIn(near, far, dispatching)
      BY DEF TW!Nodes, TW!Slots, TW!Range, ToSet, NodesIn, SlotsIn
    <2> QED
      BY <1>6, <2>1, <2>2 DEF AllTimers
  <1>11. TW!Ideal!Init
    BY <1>10 DEF TW!Ideal!Init
  <1> QED
    BY <1>9, <1>11

(* The pending timers of Alarms, as the ones of the wheel.                 *)
NowPending == Pending(TW!Nodes, ticked)

LEMMA NowNodes ==
  ASSUME TW!WheelAssumption
  PROVE  /\ TimerInv => TW!Nodes = AllTimers(TheWheel, dispatching)
         /\ TimerInv' => (TW!Nodes)' = AllTimers(TheWheel', dispatching')
  <1>1. TW!Nodes = NodesIn(near, far, dispatching) /\ (TW!Nodes)' = NodesIn(near', far', dispatching')
    BY DEF TW!Nodes, TW!Slots, TW!Range, ToSet, NodesIn, SlotsIn
  <1>2. ASSUME TimerInv PROVE NodesIn(near, far, dispatching) = AllTimers(TheWheel, dispatching)
    <2>1. TimersRight([near |-> near, t |-> far], dispatching, ticked)
      BY <1>2 DEF TimerInv, TheWheel
    <2> QED
      BY <2>1, NodesAre DEF TheWheel
  <1>3. ASSUME TimerInv' PROVE NodesIn(near', far', dispatching') = AllTimers(TheWheel', dispatching')
    <2>1. TimersRight([near |-> near', t |-> far'], dispatching', ticked')
      BY <1>3 DEF TimerInv, TheWheel
    <2> QED
      BY <2>1, NodesAre DEF TheWheel
  <1> QED
    BY <1>1, <1>2, <1>3

LEMMA WheelOf ==
  ASSUME NEW w \in Wheels
  PROVE  w = [near |-> w.near, t |-> w.t]
  BY DEF Wheels

(* Where the timers and the time stay, it is a stutter.                    *)
LEMMA Stays ==
  ASSUME (TW!Nodes)' = TW!Nodes, ticked' = ticked
  PROVE  UNCHANGED TW!Ideal!vars
  BY DEF TW!Ideal!vars, TW!Left

LEMMA IsTick ==
  ASSUME \A h \in DOMAIN NowPending : NowPending[h] > 0,
         NowPending' = [h \in DOMAIN NowPending |-> NowPending[h] - 1]
  PROVE  TW!Ideal!Tick
  BY DEF NowPending, Pending, Way, W, TW!Ideal!Tick, TW!Left

LEMMA IsFire ==
  ASSUME NEW h, h \in DOMAIN NowPending, NowPending[h] = 0,
         NowPending' = [k \in DOMAIN NowPending \ {h} |-> NowPending[k]]
  PROVE  TW!Ideal!Fire(h)
  BY DEF NowPending, Pending, Way, W, TW!Ideal!Fire, TW!Left

LEMMA IsSet ==
  ASSUME NEW h, NEW d, h \notin DOMAIN NowPending,
         NowPending' = Longer(NowPending, h, d)
  PROVE  TW!Ideal!Set(h, d)
  BY DEF Longer, NowPending, Pending, Way, W, TW!Ideal!Set, TW!Left

(* Each step of the wheel keeps it right, and is one of Alarms.            *)
TimerStep == TimerInv' /\ [TW!Ideal!Next]_(TW!Ideal!vars)

LEMMA SetStep ==
  ASSUME TW!WheelAssumption, TimerInv, NEW h \in Handles, NEW d \in Delays, TW!timeout(h, d)
  PROVE  TimerStep
  <1>0. PICK node : node = [handle |-> h, expire |-> (ticked + d) % Around]
    OBVIOUS
  <1> DEFINE wheel == TW!add_node(TheWheel, node, ticked)
  <1>1. /\ h \notin {x.handle : x \in TW!Nodes} /\ near' = wheel.near /\ far' = wheel.t
        /\ ticked' = ticked /\ dispatching' = dispatching
    BY <1>0 DEF TW!timeout, TW!timer_add, TheWheel, Around, W
  <1>2. TimersRight(TheWheel, dispatching, ticked) /\ ticked \in Times
    BY DEF TimerInv, TimersRight
  <1>3. node.expire \in Times /\ Ahead(node.expire, ticked) /\ Way(node.expire, ticked) = d
    BY <1>0, <1>2, SetAhead
  <1>4. node \in TimerNodes /\ node.handle = h
    BY <1>0, <1>3 DEF TimerNodes
  <1>5. TW!Nodes = AllTimers(TheWheel, dispatching)
    BY NowNodes
  <1>6. \A x \in AllTimers(TheWheel, dispatching) : x.handle # node.handle
    BY <1>1, <1>4, <1>5
  <1>7. /\ TimersRight(wheel, dispatching, ticked)
        /\ AllTimers(wheel, dispatching) = AllTimers(TheWheel, dispatching) \cup {node}
    BY <1>2, <1>3, <1>4, <1>6, SetKeeps
  <1>8. wheel \in Wheels
    BY <1>7 DEF TimersRight, RightWheel
  <1> HIDE DEF wheel
  <1>9. TheWheel' = wheel
    BY <1>1, <1>8, WheelOf DEF TheWheel
  <1>10. TimerInv'
    BY <1>1, <1>7, <1>9 DEF TimerInv
  <1>11. (TW!Nodes)' = TW!Nodes \cup {node}
    BY <1>1, <1>5, <1>7, <1>9, <1>10, NowNodes
  <1>12. Distinct(TW!Nodes)
    BY <1>2, <1>5, AllDistinct
  <1>13. /\ node.handle \notin DOMAIN Pending(TW!Nodes, ticked)
         /\ Pending(TW!Nodes \cup {node}, ticked) = Longer(Pending(TW!Nodes, ticked), node.handle, d)
    <2>1. \A x \in TW!Nodes : x.handle # node.handle
      BY <1>5, <1>6
    <2>2. Another(TW!Nodes, node, ticked, d)
      BY <1>3, <1>4, <1>12, <2>1 DEF Another
    <2> QED
      BY <2>2, PendingSet
  <1>14. NowPending' = Pending(TW!Nodes \cup {node}, ticked)
    BY <1>1, <1>11 DEF NowPending
  <1>15. TW!Ideal!Set(h, d)
    BY <1>4, <1>13, <1>14, IsSet DEF NowPending
  <1> QED
    BY <1>10, <1>15 DEF TimerStep, TW!Ideal!Next

LEMMA CallStep ==
  ASSUME TW!WheelAssumption, TimerInv, TW!dispatch_list
  PROVE  TimerStep
  <1>0. PICK node : node = Head(dispatching)
    OBVIOUS
  <1>1. /\ dispatching # <<>> /\ dispatching' = Tail(dispatching)
        /\ near' = near /\ far' = far /\ ticked' = ticked
    BY DEF TW!dispatch_list
  <1>2. TimersRight(TheWheel, dispatching, ticked) /\ ticked \in Times
    BY DEF TimerInv, TimersRight
  <1>3. /\ TimersRight(TheWheel, Tail(dispatching), ticked)
        /\ node \in AllTimers(TheWheel, dispatching) /\ node.expire = ticked
        /\ AllTimers(TheWheel, Tail(dispatching)) = AllTimers(TheWheel, dispatching) \ {node}
    BY <1>1, <1>2, <1>0, CallKeeps
  <1>4. TheWheel' = TheWheel
    BY <1>1 DEF TheWheel
  <1>5. TimerInv'
    BY <1>1, <1>3, <1>4 DEF TimerInv
  <1>6. TW!Nodes = AllTimers(TheWheel, dispatching)
    BY NowNodes
  <1>7. (TW!Nodes)' = TW!Nodes \ {node}
    BY <1>1, <1>3, <1>4, <1>5, <1>6, NowNodes
  <1>8. Distinct(TW!Nodes)
    BY <1>2, <1>6, AllDistinct
  <1>9. node \in TW!Nodes /\ node.handle \in Handles
    BY <1>3, <1>6, <1>8 DEF Distinct, TimerNodes
  <1>10. /\ node.handle \in DOMAIN Pending(TW!Nodes, ticked) /\ Pending(TW!Nodes, ticked)[node.handle] = 0
         /\ Pending(TW!Nodes \ {node}, ticked)
              = [k \in DOMAIN Pending(TW!Nodes, ticked) \ {node.handle} |-> Pending(TW!Nodes, ticked)[k]]
    BY <1>2, <1>3, <1>8, <1>9, PendingFire
  <1>11. NowPending' = Pending(TW!Nodes \ {node}, ticked)
    BY <1>1, <1>7 DEF NowPending
  <1>12. TW!Ideal!Fire(node.handle)
    BY <1>10, <1>11, IsFire DEF NowPending
  <1> QED
    BY <1>5, <1>9, <1>12 DEF TimerStep, TW!Ideal!Next

LEMMA ShiftStep ==
  ASSUME TW!WheelAssumption, TimerInv, TW!timer_shift
  PROVE  TimerStep
  <1> DEFINE next == (ticked + 1) % Around
             wheel == TW!Shift(TheWheel, next)
  <1>1. /\ dispatching = <<>> /\ near[ticked % TIME_NEAR] = <<>> /\ dispatching' = <<>>
        /\ ticked' = next /\ near' = wheel.near /\ far' = wheel.t
    BY DEF TW!timer_shift, TW!now_idx, TheWheel, Around, W
  <1>2. TimersRight(TheWheel, <<>>, ticked) /\ ticked \in Times
    BY <1>1 DEF TimerInv, TimersRight
  <1>3. TheWheel.near = near
    BY DEF TheWheel
  <1>4. /\ TimersRight(wheel, <<>>, next) /\ AllTimers(wheel, <<>>) = AllTimers(TheWheel, <<>>)
        /\ \A x \in AllTimers(TheWheel, <<>>) : x.expire # ticked
    BY <1>1, <1>2, <1>3, TickKeeps
  <1>5. wheel \in Wheels
    BY <1>4 DEF TimersRight, RightWheel
  <1> HIDE DEF wheel
  <1>6. TheWheel' = wheel
    BY <1>1, <1>5, WheelOf DEF TheWheel
  <1>7. TimerInv'
    BY <1>1, <1>4, <1>6 DEF TimerInv
  <1>8. TW!Nodes = AllTimers(TheWheel, <<>>)
    BY <1>1, NowNodes
  <1>9. (TW!Nodes)' = TW!Nodes
    BY <1>1, <1>4, <1>6, <1>7, <1>8, NowNodes
  <1>10. Distinct(TW!Nodes)
    BY <1>2, <1>8, AllDistinct
  <1>11. /\ \A h \in DOMAIN Pending(TW!Nodes, ticked) : Pending(TW!Nodes, ticked)[h] > 0
         /\ Pending(TW!Nodes, next)
              = [h \in DOMAIN Pending(TW!Nodes, ticked) |-> Pending(TW!Nodes, ticked)[h] - 1]
    BY <1>2, <1>4, <1>8, <1>10, PendingTick
  <1> HIDE DEF next
  <1>12. NowPending' = Pending(TW!Nodes, next)
    BY <1>1, <1>9 DEF NowPending
  <1>13. TW!Ideal!Tick
    BY <1>11, <1>12, IsTick DEF NowPending
  <1> QED
    BY <1>7, <1>13 DEF TimerStep, TW!Ideal!Next

LEMMA ExecuteStep ==
  ASSUME TW!WheelAssumption, TimerInv, TW!timer_execute
  PROVE  TimerStep
  <1> DEFINE wheel == Taken(TheWheel, ticked)
  <1>1. /\ dispatching = <<>> /\ dispatching' = near[ticked % TIME_NEAR]
        /\ near' = [near EXCEPT ![ticked % TIME_NEAR] = <<>>] /\ far' = far /\ ticked' = ticked
    BY DEF TW!timer_execute, TW!now_idx
  <1>2. TimersRight(TheWheel, <<>>, ticked)
    BY <1>1 DEF TimerInv
  <1>3. TheWheel' = wheel /\ TheWheel.near = near
    BY <1>1 DEF TheWheel, Taken
  <1>4. /\ TimersRight(wheel, dispatching', ticked)
        /\ AllTimers(wheel, dispatching') = AllTimers(TheWheel, <<>>)
    BY <1>1, <1>2, <1>3, TakeKeeps
  <1> HIDE DEF wheel
  <1>5. TimerInv'
    BY <1>1, <1>3, <1>4 DEF TimerInv
  <1>6. (TW!Nodes)' = TW!Nodes
    BY <1>1, <1>3, <1>4, <1>5, NowNodes
  <1> QED
    BY <1>1, <1>5, <1>6, Stays DEF TimerStep

(* What does not touch the timers.                                         *)
LEMMA RestStep ==
  ASSUME TW!WheelAssumption, TimerInv, UNCHANGED <<near, far, ticked, dispatching>>
  PROVE  TimerStep
  <1>1. TimerInv'
    BY DEF TimerInv, TheWheel
  <1>2. (TW!Nodes)' = TW!Nodes
    BY DEF TW!Nodes, TW!Slots, TW!Range
  <1> QED
    BY <1>1, <1>2, Stays DEF TimerStep

LEMMA TimerNext ==
  ASSUME TW!WheelAssumption, TimerInv, TW!Next \/ UNCHANGED twVars
  PROVE  TimerStep
  <1>1. CASE \E h \in Handles, d \in Delays : TW!timeout(h, d)
    BY <1>1, SetStep
  <1>2. CASE \E passed \in 0..MaxDiff : TW!updatetime(passed)
    BY <1>2, RestStep DEF TW!updatetime
  <1>3. CASE TW!timer_execute
    BY <1>3, ExecuteStep
  <1>4. CASE TW!dispatch_list
    BY <1>4, CallStep
  <1>5. CASE TW!timer_shift
    BY <1>5, ShiftStep
  <1>6. CASE TW!EndOfUpdate
    BY <1>6, RestStep DEF TW!EndOfUpdate
  <1>7. CASE UNCHANGED twVars
    BY <1>7, RestStep DEF twVars
  <1> QED
    BY <1>1, <1>2, <1>3, <1>4, <1>5, <1>6, <1>7 DEF TW!Next

(* timer.c calls every timer back once, when as many ticks have passed as  *)
(* were asked for: however wide the levels are, whatever slots it comes    *)
(* through, when time wraps around, when the clock jumps, and when the     *)
(* callbacks of a tick set others.                                         *)
THEOREM TimersFire == STSpec => FiresOnTime
  <1> USE StructuresAssumption
  <1>1. STInit => TimerInv /\ TW!Ideal!Init
    BY TimerInit DEF STInit
  <1>2. TimerInv /\ [InList \/ InLogger \/ InTimer]_stVars
          => TimerInv' /\ [TW!Ideal!Next]_(TW!Ideal!vars)
    <2> SUFFICES ASSUME TimerInv, [InList \/ InLogger \/ InTimer]_stVars
                 PROVE  TimerInv' /\ [TW!Ideal!Next]_(TW!Ideal!vars)
      OBVIOUS
    <2>1. TW!Next \/ UNCHANGED twVars
      BY DEF InList, InLogger, InTimer, stVars
    <2> QED
      BY <2>1, TimerNext DEF TimerStep
  <1> QED
    BY <1>1, <1>2, PTL DEF STSpec, FiresOnTime, TW!FiresOnTime, TW!Ideal!Spec
=============================================================================
