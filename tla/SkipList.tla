------------------------------ MODULE SkipList ------------------------------
(***************************************************************************)
(* depends/lua-timezset/timeskiplist.c, the list that keeps the rankings   *)
(* of tzset.lua in order.  A node is linked at a random number of levels;  *)
(* a link has a span, the number of nodes it leads on, so that a rank is   *)
(* found by adding up spans.                                               *)
(*                                                                         *)
(* A node is the object it holds; an object stands for its score, its      *)
(* timestamp and its name.  Levels are counted from 1.                     *)
(***************************************************************************)
EXTENDS Integers, Sequences, FiniteSets, SequencesExt

CONSTANTS
  N,                         \* how many objects there may be
  score, timestamp, ptr,     \* what is in each of them
  SKIPLIST_MAXLEVEL

ListAssumption ==
  /\ N \in Nat /\ SKIPLIST_MAXLEVEL \in Nat \ {0}
  /\ score \in [1..N -> Int] /\ timestamp \in [1..N -> Int] /\ ptr \in [1..N -> Int]
  /\ \A a, b \in 1..N :
       score[a] = score[b] /\ timestamp[a] = timestamp[b] /\ ptr[a] = ptr[b] => a = b

VARIABLES
  sl,       \* the list: level, length, tail, and at, the nodes
  answer    \* the last call, and the objects it removed
vars == <<sl, answer>>

Listable == 1..N
header == 0
null == -1

(* Of two objects with one score the one with the later timestamp is       *)
(* first, so that it is last when the list is read from its end.           *)
compareslObj(a, b) == IF timestamp[a] = timestamp[b] THEN ptr[a] - ptr[b]
                      ELSE IF timestamp[b] > timestamp[a] THEN 1 ELSE -1

Before(a, b) == score[a] < score[b] \/ (score[a] = score[b] /\ compareslObj(a, b) < 0)
equalslObj(a, b) == compareslObj(a, b) = 0

slCreateNode(level, forward, span, backward) ==
  [forward |-> [i \in 1..level |-> forward[i]], span |-> [i \in 1..level |-> span[i]],
   backward |-> backward]

slCreate ==
  [level |-> 1, length |-> 0, tail |-> null,
   at |-> [x \in {header} |-> slCreateNode(SKIPLIST_MAXLEVEL, [i \in 1..SKIPLIST_MAXLEVEL |-> null],
                                           [i \in 1..SKIPLIST_MAXLEVEL |-> 0], null)]]

Answer(call, removed) == [call |-> call, removed |-> removed]

Init == sl = slCreate /\ answer = Answer(<<>>, <<>>)

-----------------------------------------------------------------------------
(* One turn of the loop that goes down from the top level: on a level it   *)
(* goes on as long as ahead holds of the next node and its rank; then the  *)
(* node and its rank are noted, and it goes on below.                      *)
Turn(s, ahead, p) ==
  LET next == s.at[p.node].forward[p.i]
      after == p.rank + s.at[p.node].span[p.i] IN
  IF p.i = 0 THEN p
  ELSE IF next # null /\ ahead[<<next, after>>] THEN [p EXCEPT !.node = next, !.rank = after]
  ELSE [p EXCEPT !.i = @ - 1, !.path[p.i] = [node |-> p.node, rank |-> p.rank]]

(* What the loop leaves: the last node on each level and that node's rank, *)
(* update and rank.                                                        *)
Descend(s, ahead) ==
  LET top == [i |-> s.level, node |-> header, rank |-> 0,
              path |-> [i \in 1..s.level |-> [node |-> header, rank |-> 0]]]
      turn[n \in Nat] == IF n = 0 THEN top ELSE Turn(s, ahead, turn[n - 1]) IN
  turn[N + s.level].path

(* What ahead says of an object and the rank it has.                       *)
Places == Listable \X Int
Lower(e) == [n \in Places |-> Before(n[1], e)]
RankBelow(r) == [n \in Places |-> n[2] < r]

(* Mutant: a level that comes into use keeps the span it had.              *)
SpanStale(s, x, i) == s.at[x].span[i]

(* A level that comes into use has a span over the whole list.             *)
SpanOf(s, x, i) == IF i <= s.level THEN s.at[x].span[i] ELSE s.length

slInsert(s, e, level) ==
  LET path == Descend(s, Lower(e))
      update(i) == IF i <= s.level THEN path[i] ELSE [node |-> header, rank |-> 0]
      skipped(i) == update(1).rank - update(i).rank
      next == s.at[update(1).node].forward[1]
      node == slCreateNode(level, [i \in 1..level |-> s.at[update(i).node].forward[i]],
                           [i \in 1..level |-> SpanOf(s, update(i).node, i) - skipped(i)],
                           IF update(1).node = header THEN null ELSE update(1).node)
      Linked(x, n) ==
        [forward |-> [i \in DOMAIN n.forward |->
                        IF i <= level /\ update(i).node = x THEN e ELSE n.forward[i]],
         span |-> [i \in DOMAIN n.span |->
                     IF i <= level /\ update(i).node = x THEN skipped(i) + 1
                     ELSE IF i <= s.level /\ i > level /\ update(i).node = x THEN n.span[i] + 1
                     ELSE n.span[i]],
         backward |-> IF x = next THEN e ELSE n.backward] IN
  [level |-> IF level > s.level THEN level ELSE s.level, length |-> s.length + 1,
   tail |-> IF next = null THEN e ELSE s.tail,
   at |-> [x \in DOMAIN s.at \cup {e} |-> IF x = e THEN node ELSE Linked(x, s.at[x])]]

(* Levels that are empty now are given up; their spans stay behind.        *)
slDeleteNode(s, x, update) ==
  LET gone == s.at[x]
      Unlinked(y, n) ==
        [forward |-> [i \in DOMAIN n.forward |->
                        IF i <= s.level /\ update[i] = y /\ n.forward[i] = x THEN gone.forward[i]
                        ELSE n.forward[i]],
         span |-> [i \in DOMAIN n.span |->
                     IF i > s.level \/ update[i] # y THEN n.span[i]
                     ELSE IF n.forward[i] = x THEN n.span[i] + gone.span[i] - 1
                     ELSE n.span[i] - 1],
         backward |-> IF y = gone.forward[1] THEN gone.backward ELSE n.backward]
      at == [y \in DOMAIN s.at \ {x} |-> Unlinked(y, s.at[y])]
      used == {i \in 2..s.level : at[header].forward[i] # null} \cup {1} IN
  [level |-> CHOOSE i \in used : \A j \in used : j <= i, length |-> s.length - 1,
   tail |-> IF gone.forward[1] = null THEN gone.backward ELSE s.tail, at |-> at]

(* Mutant: what comes next is deleted, be it the object or not.            *)
DeleteNext(s, e) ==
  LET path == Descend(s, Lower(e))
      x == s.at[path[1].node].forward[1] IN
  IF x # null
  THEN [list |-> slDeleteNode(s, x, [i \in 1..s.level |-> path[i].node]), removed |-> <<x>>]
  ELSE [list |-> s, removed |-> <<>>]

slDelete(s, e) ==
  LET path == Descend(s, Lower(e))
      x == s.at[path[1].node].forward[1] IN
  IF x # null /\ score[x] = score[e] /\ equalslObj(x, e)
  THEN [list |-> slDeleteNode(s, x, [i \in 1..s.level |-> path[i].node]), removed |-> <<x>>]
  ELSE [list |-> s, removed |-> <<>>]

(* One turn of the loop that deletes: the next node is looked up first.    *)
DeleteTurn(end, update, p) ==
  IF p.x = null \/ p.traversed > end THEN p
  ELSE [list |-> slDeleteNode(p.list, p.x, update), x |-> p.list.at[p.x].forward[1],
        traversed |-> p.traversed + 1, removed |-> Append(p.removed, p.x)]

slDeleteByRank(s, start, end) ==
  LET path == Descend(s, RankBelow(start))
      update == [i \in 1..s.level |-> path[i].node]
      first == [list |-> s, x |-> s.at[path[1].node].forward[1],
                traversed |-> path[1].rank + 1, removed |-> <<>>]
      turn[n \in Nat] == IF n = 0 THEN first ELSE DeleteTurn(end, update, turn[n - 1]) IN
  [list |-> turn[N].list, removed |-> turn[N].removed]

-----------------------------------------------------------------------------
(* The functions lua calls.  tzset.lua inserts a name only once.           *)
_insert(e, level) ==
  /\ \A x \in DOMAIN sl.at \ {header} : ptr[x] # ptr[e]
  /\ sl' = slInsert(sl, e, level) /\ answer' = Answer(<<>>, <<>>)

_delete(e) ==
  LET deleted == slDelete(sl, e)
  IN  sl' = deleted.list /\ answer' = Answer(<<e>>, deleted.removed)

_delete_by_rank(r1, r2) ==
  LET deleted == IF r1 > r2 THEN slDeleteByRank(sl, r2, r1) ELSE slDeleteByRank(sl, r1, r2)
  IN  sl' = deleted.list /\ answer' = Answer(<<r1, r2>>, deleted.removed)

slRandomLevel == 1..SKIPLIST_MAXLEVEL

Next ==
  \/ \E e \in Listable, level \in slRandomLevel : _insert(e, level)
  \/ \E e \in Listable : _delete(e)
  \/ \E r1, r2 \in 0..N : _delete_by_rank(r1, r2)

Spec == Init /\ [][Next]_vars

-----------------------------------------------------------------------------
(* What the list is asked.  The first level on which the way down ends at  *)
(* what is looked for gives the answer.                                    *)
UpToObj(e) ==
  [n \in Places |-> Before(n[1], e) \/ (score[n[1]] = score[e] /\ equalslObj(n[1], e))]
RankUpTo(r) == [n \in Places |-> n[2] <= r]
ScoreBelow(min) == [n \in Places |-> score[n[1]] < min]
ScoreUpTo(max) == [n \in Places |-> score[n[1]] <= max]

slGetRank(e) ==
  LET path == Descend(sl, UpToObj(e))
      hits == {i \in DOMAIN path : path[i].node # header /\ equalslObj(path[i].node, e)} IN
  IF hits = {} THEN 0 ELSE path[CHOOSE i \in hits : \A j \in hits : j <= i].rank

slGetNodeByRank(rank) ==
  LET path == Descend(sl, RankUpTo(rank))
      hits == {i \in DOMAIN path : path[i].rank = rank} IN
  IF rank = 0 \/ rank > sl.length \/ hits = {} THEN null
  ELSE path[CHOOSE i \in hits : \A j \in hits : j <= i].node

slIsInRange(min, max) ==
  /\ min <= max
  /\ sl.tail # null /\ score[sl.tail] >= min
  /\ sl.at[header].forward[1] # null /\ score[sl.at[header].forward[1]] <= max

slFirstInRange(min, max) ==
  IF ~slIsInRange(min, max) THEN null
  ELSE sl.at[Descend(sl, ScoreBelow(min))[1].node].forward[1]

slLastInRange(min, max) ==
  IF ~slIsInRange(min, max) THEN null
  ELSE Descend(sl, ScoreUpTo(max))[1].node

(* The nodes from one on along links, and up to one that is not wanted.    *)
FollowTurn(link, p) ==
  IF p.x = null THEN p ELSE [x |-> link[p.x], seen |-> Append(p.seen, p.x)]

Follow(link, x) ==
  LET turn[n \in Nat] == IF n = 0 THEN [x |-> x, seen |-> <<>>]
                         ELSE FollowTurn(link, turn[n - 1])
  IN  turn[N].seen

Chain(x) == Follow([y \in DOMAIN sl.at |-> sl.at[y].forward[1]], x)
Backwards(x) == Follow([y \in DOMAIN sl.at |-> sl.at[y].backward], x)
UpTo(chain, n) == SubSeq(chain, 1, IF n < Len(chain) THEN n ELSE Len(chain))
While(chain, In(_)) ==
  UpTo(chain, CHOOSE n \in 0..Len(chain) : /\ \A i \in 1..n : In(chain[i])
                                           /\ n < Len(chain) => ~In(chain[n + 1]))

_get_rank_range(r1, r2) ==
  LET node == slGetNodeByRank(r1) IN
  IF r1 <= r2 THEN UpTo(Chain(node), r2 - r1 + 1) ELSE UpTo(Backwards(node), r1 - r2 + 1)

_get_score_range(s1, s2) ==
  IF s1 <= s2 THEN While(Chain(slFirstInRange(s1, s2)), LAMBDA x : score[x] <= s2)
  ELSE While(Backwards(slLastInRange(s2, s1)), LAMBDA x : score[x] >= s2)

_dump_out == Chain(sl.at[header].forward[1])

-----------------------------------------------------------------------------
List == INSTANCE SortedSet WITH
  Objs <- Listable, Score <- LAMBDA e : score[e], Before <- Before,
  Alike <- LAMBDA a, b : ptr[a] = ptr[b],
  members <- DOMAIN sl.at \ {header}, answer <- answer

(* Each level links, in order, the nodes that are that high, each span is  *)
(* the distance to the next, and the way back is the way forward reversed. *)
Rank(x) == IF x = header THEN 0 ELSE IF x = null THEN sl.length + 1 ELSE List!slGetRank(x)
SpansAreRight ==
  LET nodes == DOMAIN sl.at \ {header}
      Height(x) == Len(sl.at[x].forward)
      Next1(x, i) == {y \in nodes : Rank(y) > Rank(x) /\ Height(y) >= i} IN
  /\ sl.length = Cardinality(nodes)
  /\ sl.tail = (IF nodes = {} THEN null ELSE Last(_dump_out))
  /\ sl.level \in 1..SKIPLIST_MAXLEVEL /\ \A x \in nodes : Height(x) <= sl.level
  /\ \A x \in DOMAIN sl.at, i \in 1..sl.level : i <= Height(x) =>
       LET next == sl.at[x].forward[i] IN
       /\ IF Next1(x, i) = {} THEN next = null
          ELSE next \in Next1(x, i) /\ \A y \in Next1(x, i) : Rank(next) <= Rank(y)
       /\ sl.at[x].span[i] = (IF next = null THEN sl.length ELSE Rank(next)) - Rank(x)
  /\ \A x \in nodes : sl.at[x].backward = (IF Rank(x) = 1 THEN null
                                           ELSE List!slGetNodeByRank(Rank(x) - 1)[1])

(* Whatever levels chance gave the nodes, the list answers as a sorted set *)
(* does.                                                                   *)
(* tzset.lua knows the score a name has and asks with that.                *)
Asked(e) == \A x \in DOMAIN sl.at \ {header} : equalslObj(x, e) => x = e
Found(x) == IF x = null THEN <<>> ELSE <<x>>
QueriesAreRight ==
  LET scores == {score[e] : e \in Listable} IN
  /\ _dump_out = List!Sorted(DOMAIN sl.at \ {header})
  /\ \A e \in Listable : Asked(e) => slGetRank(e) = List!slGetRank(e)
  /\ \A r \in 0..N + 1 : Found(slGetNodeByRank(r)) = List!slGetNodeByRank(r)
  /\ \A min, max \in scores : Found(slFirstInRange(min, max)) = List!slFirstInRange(min, max)
  /\ \A min, max \in scores : Found(slLastInRange(min, max)) = List!slLastInRange(min, max)
  /\ \A r1, r2 \in 0..N + 1 : _get_rank_range(r1, r2) = List!_get_rank_range(r1, r2)
  /\ \A s1, s2 \in scores : _get_score_range(s1, s2) = List!_get_score_range(s1, s2)

(* Both: the spans, which no caller sees, and the ranks found with them.   *)
RanksAreRight == SpansAreRight /\ QueriesAreRight

(* The list is changed as a sorted set is.                                 *)
ImplementsSortedSet == List!Spec
=============================================================================
