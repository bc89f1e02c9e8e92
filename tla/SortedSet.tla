----------------------------- MODULE SortedSet -----------------------------
(***************************************************************************)
(* What depends/lua-zset/skiplist.c promises to zset.lua: a set of members *)
(* in an order, from which members are taken by name or by rank, and which *)
(* answers which rank a member has and which members a range of ranks or   *)
(* scores holds.  SkipList, the same list with a timestamp beside the      *)
(* score, does it with links and spans.                                    *)
(***************************************************************************)
EXTENDS Naturals, Sequences, FiniteSets, SequencesExt

CONSTANTS
  Objs,            \* the members there may be
  Score(_),        \* the score of a member
  Before(_, _),    \* the order, first by score
  Alike(_, _)      \* members the callers never have in one list

VARIABLES
  members,
  answer    \* the last call, and the members it removed, in order
vars == <<members, answer>>

(* The members in order: as many are before each as its place says.        *)
Sorted(set) ==
  [r \in 1..Cardinality(set) |->
     CHOOSE e \in set : Cardinality({m \in set : Before(m, e)}) = r - 1]

slCreate == members = {}
Answer(call, removed) == [call |-> call, removed |-> removed]

Init == slCreate /\ answer = Answer(<<>>, <<>>)

(* zset.lua looks in its table first: a member is never inserted twice.    *)
slInsert(e) ==
  /\ \A m \in members : ~Alike(m, e)
  /\ members' = members \cup {e} /\ answer' = Answer(<<>>, <<>>)

slDelete(e) ==
  /\ members' = members \ {e} /\ answer' = Answer(<<e>>, Sorted({e} \cap members))

slDeleteByRank(start, end) ==
  SubSeq(Sorted(members), IF start = 0 THEN 1 ELSE start,
         IF end < Cardinality(members) THEN end ELSE Cardinality(members))

(* The ranks may come in either order.                                     *)
_delete_by_rank(r1, r2) ==
  LET removed == IF r1 > r2 THEN slDeleteByRank(r2, r1) ELSE slDeleteByRank(r1, r2)
  IN  members' = members \ ToSet(removed) /\ answer' = Answer(<<r1, r2>>, removed)

Next ==
  \/ \E e \in Objs : slInsert(e) \/ slDelete(e)
  \/ \E r1, r2 \in 0..Cardinality(Objs) : _delete_by_rank(r1, r2)

Spec == Init /\ [][Next]_vars

-----------------------------------------------------------------------------
slGetRank(e) == IF e \notin members THEN 0
                ELSE CHOOSE r \in DOMAIN Sorted(members) : Sorted(members)[r] = e

(* No member is an empty sequence here, and one member a sequence of one.  *)
slGetNodeByRank(rank) == IF rank \in DOMAIN Sorted(members) THEN <<Sorted(members)[rank]>> ELSE <<>>

slIsInRange(min, max) ==
  /\ min <= max
  /\ \E m \in members : Score(m) >= min
  /\ \E m \in members : Score(m) <= max

slFirstInRange(min, max) ==
  IF ~slIsInRange(min, max) THEN <<>>
  ELSE <<Sorted({m \in members : Score(m) >= min})[1]>>

slLastInRange(min, max) ==
  IF ~slIsInRange(min, max) THEN <<>>
  ELSE <<Last(Sorted({m \in members : Score(m) <= max}))>>

(* A range from high to low is listed from high to low.                    *)
_get_rank_range(r1, r2) ==
  LET n == Cardinality(members)
      Cut(low, high) == SubSeq(Sorted(members), low, IF high < n THEN high ELSE n) IN
  IF r1 = 0 \/ r1 > n THEN <<>>
  ELSE IF r1 <= r2 THEN Cut(r1, r2)
  ELSE Reverse(Cut(IF r2 = 0 THEN 1 ELSE r2, r1))

_get_score_range(s1, s2) ==
  LET Between(low, high) == Sorted({m \in members : low <= Score(m) /\ Score(m) <= high}) IN
  IF s1 <= s2 THEN Between(s1, s2) ELSE Reverse(Between(s2, s1))
=============================================================================
