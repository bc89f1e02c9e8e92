------------------------------- MODULE Uthash -------------------------------
(***************************************************************************)
(* depends/libfaketime/src/uthash.h, the hash table in which libfaketime   *)
(* keeps the condition variables that wait on the monotonic clock.  Every  *)
(* element is linked twice: in the order of the application (prev, next)   *)
(* and in its bucket (hh_prev, hh_next).  A bucket that grows too long     *)
(* doubles the number of buckets, and expand_mult, ineff_expands and       *)
(* noexpand keep a bad hash function from doubling it for ever.            *)
(*                                                                         *)
(* An element stands for its handle, and has a key, the hash of that key   *)
(* and a rank for the compare function.  Two elements may have one key:    *)
(* HASH_ADD does not look.  The handle of an element that has left is      *)
(* forgotten.  A hash that is NULL is NoTable.  The build has no           *)
(* HASH_BLOOM, no HASH_NONFATAL_OOM, and malloc does not fail.             *)
(***************************************************************************)
EXTENDS Integers, Sequences, FiniteSets, SequencesExt

CONSTANTS
  N,                           \* how many elements there are
  key, hashv, rank,            \* what is in each of them
  Chosen,                      \* the elements the condition of HASH_SELECT holds of
  HASH_INITIAL_NUM_BUCKETS, HASH_BKT_CAPACITY_THRESH,
  MaxBuckets, MaxItems,        \* bounds: no call that would make more buckets, or elements
  MaxReordered                 \* bound: a larger hash is only added to at its end, and emptied

VARIABLES
  head,      \* the hash
  dst        \* the hash HASH_SELECT makes of it, through a second handle
vars == <<head, dst>>

Elems == 1..N
null == 0

EmptyBucket == [hh_head |-> null, count |-> 0, expand_mult |-> 0]

NoTable ==
  [head |-> null, tail |-> null, num_items |-> 0, ideal_chain_maxlen |-> 0,
   nonideal_items |-> 0, ineff_expands |-> 0, noexpand |-> FALSE, buckets |-> <<>>, hh |-> <<>>]

num_buckets(t) == Cardinality(DOMAIN t.buckets)

(* The number of buckets is a power of two.                                *)
HASH_TO_BKT(h, n) == h % n

(* The handle of e, when e is not NULL, with v in its field f.             *)
Patch(hh, e, f, v) == IF e = null THEN hh ELSE [hh EXCEPT ![e][f] = v]
NewHandle(prev, next) == [prev |-> prev, next |-> next, hh_prev |-> null, hh_next |-> null]

(* The elements on a chain of links, from e on.                            *)
Along(t, link, e) ==
  LET along[x \in Nat] == IF x = null THEN <<>> ELSE <<x>> \o along[t.hh[x][link]] IN along[e]
Visited(t) == Along(t, "next", t.head)
Chain(t, b) == Along(t, "hh_next", t.buckets[b].hh_head)
Chains(t) == FlattenSeq([i \in 1..num_buckets(t) |-> Chain(t, i - 1)])

HASH_MAKE_TABLE(add) ==
  [NoTable EXCEPT !.head = add, !.tail = add, !.hh = add :> NewHandle(null, null),
                  !.buckets = [b \in 0..HASH_INITIAL_NUM_BUCKETS - 1 |-> EmptyBucket]]

-----------------------------------------------------------------------------
HASH_FIND_IN_BKT(t, b, k) ==
  LET found == SelectSeq(Chain(t, b), LAMBDA x : key[x] = k)
  IN  IF found = <<>> THEN null ELSE found[1]

HASH_FIND(t, k, h) ==
  IF t.head = null THEN null ELSE HASH_FIND_IN_BKT(t, HASH_TO_BKT(h, num_buckets(t)), k)

(* Every element moves to the head of its bucket among twice as many.      *)
HASH_EXPAND_BUCKETS(t) ==
  LET n == 2 * num_buckets(t)
      ideal == (t.num_items \div n) + (IF t.num_items % n # 0 THEN 1 ELSE 0)
      Move(s, e) ==
        LET b == HASH_TO_BKT(hashv[e], n)
            old == s.buckets[b].hh_head
            count == s.buckets[b].count + 1
            over == count > ideal IN
        [s EXCEPT !.nonideal_items = IF over THEN @ + 1 ELSE @,
                  !.buckets[b] = [hh_head |-> e, count |-> count,
                                  expand_mult |-> IF over THEN count \div ideal ELSE @.expand_mult],
                  !.hh = Patch(Patch(Patch(@, e, "hh_prev", null), e, "hh_next", old), old, "hh_prev", e)]
      empty == [t EXCEPT !.ideal_chain_maxlen = ideal, !.nonideal_items = 0,
                         !.buckets = [b \in 0..n - 1 |-> EmptyBucket]]
      moved == FoldLeft(Move, empty, Chains(t))
      ineff == IF moved.nonideal_items > t.num_items \div 2 THEN t.ineff_expands + 1 ELSE 0
  IN  [moved EXCEPT !.ineff_expands = ineff, !.noexpand = @ \/ ineff > 1]

HASH_ADD_TO_BKT(t, b, add) ==
  LET old == t.buckets[b].hh_head
      in == [t EXCEPT !.buckets[b].count = @ + 1, !.buckets[b].hh_head = add,
                      !.hh = Patch(Patch(@, add, "hh_next", old), old, "hh_prev", add)] IN
  IF /\ in.buckets[b].count >= (in.buckets[b].expand_mult + 1) * HASH_BKT_CAPACITY_THRESH
     /\ ~in.noexpand
  THEN HASH_EXPAND_BUCKETS(in)
  ELSE in

HASH_DEL_IN_BKT(t, b, del) ==
  LET h == t.hh[del] IN
  [t EXCEPT !.buckets[b].count = @ - 1,
            !.buckets[b].hh_head = IF @ = del THEN h.hh_next ELSE @,
            !.hh = Patch(Patch(@, h.hh_prev, "hh_next", h.hh_next), h.hh_next, "hh_prev", h.hh_prev)]

-----------------------------------------------------------------------------
HASH_APPEND_LIST(t, add) ==
  [t EXCEPT !.hh = add :> NewHandle(t.tail, null) @@ Patch(@, t.tail, "next", add), !.tail = add]

(* The first element from the head that is greater, NULL when none is.     *)
HASH_AKBI_INNER_LOOP(t, add) ==
  LET greater == SelectSeq(Visited(t), LAMBDA x : rank[x] > rank[add])
  IN  IF greater = <<>> THEN null ELSE greater[1]

LinkBefore(t, iter, add) ==
  LET prev == t.hh[iter].prev IN
  [t EXCEPT !.hh = add :> NewHandle(prev, iter) @@ Patch(Patch(@, prev, "next", add), iter, "prev", add),
            !.head = IF prev = null THEN add ELSE @]

HASH_ADD_TO_TABLE(t, add) ==
  HASH_ADD_TO_BKT([t EXCEPT !.num_items = @ + 1], HASH_TO_BKT(hashv[add], num_buckets(t)), add)

HASH_ADD_KEYPTR(t, add) ==
  HASH_ADD_TO_TABLE(IF t.head = null THEN HASH_MAKE_TABLE(add) ELSE HASH_APPEND_LIST(t, add), add)

HASH_ADD_KEYPTR_INORDER(t, add) ==
  LET iter == HASH_AKBI_INNER_LOOP(t, add) IN
  HASH_ADD_TO_TABLE(IF t.head = null THEN HASH_MAKE_TABLE(add)
                    ELSE IF iter # null THEN LinkBefore(t, iter, add)
                    ELSE HASH_APPEND_LIST(t, add), add)

(* A bug: the tail stays where it was.                                     *)
HASH_DELETE_HH_tail(t, del) ==
  LET h == t.hh[del]
      unlinked == [t EXCEPT !.head = IF h.prev = null THEN h.next ELSE @, !.num_items = @ - 1,
                            !.hh = Patch(Patch(@, h.prev, "next", h.next), h.next, "prev", h.prev)]
      out == HASH_DEL_IN_BKT(unlinked, HASH_TO_BKT(hashv[del], num_buckets(t)), del) IN
  IF h.prev = null /\ h.next = null THEN NoTable
  ELSE [out EXCEPT !.hh = [e \in DOMAIN @ \ {del} |-> @[e]]]

HASH_DELETE_HH(t, del) ==
  LET h == t.hh[del]
      unlinked == [t EXCEPT !.tail = IF @ = del THEN h.prev ELSE @,
                            !.head = IF h.prev = null THEN h.next ELSE @,
                            !.num_items = @ - 1,
                            !.hh = Patch(Patch(@, h.prev, "next", h.next), h.next, "prev", h.prev)]
      out == HASH_DEL_IN_BKT(unlinked, HASH_TO_BKT(hashv[del], num_buckets(t)), del) IN
  IF h.prev = null /\ h.next = null THEN NoTable
  ELSE [out EXCEPT !.hh = [e \in DOMAIN @ \ {del} |-> @[e]]]

HASH_REPLACE(t, add) ==
  LET replaced == HASH_FIND(t, key[add], hashv[add])
  IN  HASH_ADD_KEYPTR(IF replaced = null THEN t ELSE HASH_DELETE_HH(t, replaced), add)

(* A bug: among equals the second run's element comes first.               *)
MergeUnstable(p, q) ==
  LET merge[i \in 1..Len(p) + 1, j \in 1..Len(q) + 1] ==
        IF i > Len(p) THEN SubSeq(q, j, Len(q))
        ELSE IF j > Len(q) \/ rank[p[i]] < rank[q[j]] THEN <<p[i]>> \o merge[i + 1, j]
        ELSE <<q[j]>> \o merge[i, j + 1]
  IN  merge[1, 1]

(* Two runs become one, the first run's element first among equals.        *)
Merge(p, q) ==
  LET merge[i \in 1..Len(p) + 1, j \in 1..Len(q) + 1] ==
        IF i > Len(p) THEN SubSeq(q, j, Len(q))
        ELSE IF j > Len(q) \/ rank[p[i]] <= rank[q[j]] THEN <<p[i]>> \o merge[i + 1, j]
        ELSE <<q[j]>> \o merge[i, j + 1]
  IN  merge[1, 1]

(* Passes that merge neighbouring runs of insize elements, until one merge *)
(* was enough; then the links, the tail and the head follow the list.      *)
HASH_SRT(t) ==
  LET Cut(list, from, n) == SubSeq(list, from, IF from + n - 1 < Len(list) THEN from + n - 1 ELSE Len(list))
      pass[list \in Seq(Elems), insize \in Nat] ==
        IF list = <<>> THEN <<>>
        ELSE Merge(Cut(list, 1, insize), Cut(list, insize + 1, insize))
               \o pass[SubSeq(list, 2 * insize + 1, Len(list)), insize]
      sort[list \in Seq(Elems), insize \in Nat] ==
        LET next == pass[list, insize]
        IN  IF Len(list) <= 2 * insize THEN next ELSE sort[next, 2 * insize]
      list == sort[Visited(t), 1]
      At(i) == IF i \in DOMAIN list THEN list[i] ELSE null IN
  IF t.head = null THEN t
  ELSE [t EXCEPT !.head = At(1), !.tail = At(Len(list)),
                 !.hh = [e \in DOMAIN @ |->
                           LET i == CHOOSE i \in DOMAIN list : list[i] = e
                           IN  [@[e] EXCEPT !.prev = At(i - 1), !.next = At(i + 1)]]]

(* The elements chosen, bucket by bucket, into a hash that is NULL.  The   *)
(* tail stays at the first of them, and num_items follows the bucket.      *)
HASH_SELECT(t) ==
  LET Take(s, e) ==
        LET linked == IF s.last = null THEN HASH_MAKE_TABLE(e)
                      ELSE [s.table EXCEPT !.hh = e :> NewHandle(s.last, null)
                                                    @@ Patch(@, s.last, "next", e)]
            in == HASH_ADD_TO_BKT(linked, HASH_TO_BKT(hashv[e], num_buckets(linked)), e)
        IN  [table |-> [in EXCEPT !.num_items = @ + 1], last |-> e]
  IN  FoldLeft(Take, [table |-> NoTable, last |-> null],
               SelectSeq(Chains(t), LAMBDA e : e \in Chosen)).table

-----------------------------------------------------------------------------
Init == head = NoTable /\ dst = NoTable

(* The two hashes share nothing, their handles are different fields: while *)
(* there is a second one the first is left as it is.                       *)
Becomes(t) ==
  /\ dst.head = null
  /\ num_buckets(t) <= MaxBuckets /\ t.num_items <= MaxItems
  /\ head' = t /\ UNCHANGED dst
Small(t) == t.num_items <= MaxReordered

AddPtr(e) == Becomes(HASH_ADD_KEYPTR(head, e))
AddInOrder(e) == Small(head) /\ Becomes(HASH_ADD_KEYPTR_INORDER(head, e))
Replace(e) == Small(head) /\ Becomes(HASH_REPLACE(head, e))

Delete(e) ==
  \/ e \in DOMAIN head.hh /\ Becomes(HASH_DELETE_HH(head, e))
  \/ e \in DOMAIN dst.hh /\ dst' = HASH_DELETE_HH(dst, e) /\ UNCHANGED head

Sort ==
  \/ Small(head) /\ Becomes(HASH_SRT(head))
  \/ dst' = HASH_SRT(dst) /\ UNCHANGED head

Select == dst.head = null /\ Small(head) /\ dst' = HASH_SELECT(head) /\ UNCHANGED head

Clear ==
  \/ Becomes(NoTable)
  \/ dst' = NoTable /\ UNCHANGED head

Next ==
  \/ \E e \in Elems \ DOMAIN head.hh : AddPtr(e) \/ AddInOrder(e) \/ Replace(e)
  \/ \E e \in Elems : Delete(e)
  \/ Sort \/ Select \/ Clear

Spec == Init /\ [][Next]_vars

-----------------------------------------------------------------------------
(* HASH_FSCK, the check a HASH_DEBUG build makes: the links back agree     *)
(* with the links on, in the buckets and in the list, and both hold as     *)
(* many elements as the counts say.                                        *)
HASH_FSCK(t) ==
  LET BackAlong(list, link) ==
        \A i \in DOMAIN list : t.hh[list[i]][link] = IF i = 1 THEN null ELSE list[i - 1] IN
  t.head # null =>
    /\ \A b \in DOMAIN t.buckets : /\ BackAlong(Chain(t, b), "hh_prev")
                                   /\ t.buckets[b].count = Len(Chain(t, b))
    /\ Len(Chains(t)) = t.num_items
    /\ BackAlong(Visited(t), "prev")
    /\ Len(Visited(t)) = t.num_items

(* Whatever was added, deleted, sorted and selected, and however often the *)
(* buckets were doubled, both hashes pass the header's own check, no       *)
(* element is lost, a key is found exactly when an element has it, and the *)
(* hash an element can be added to ends at its tail.                       *)
FindsEveryElement ==
  /\ head.head # null => head.tail = Last(Visited(head))
  /\ \A t \in {head, dst} :
       /\ HASH_FSCK(t)
       /\ ToSet(Visited(t)) = DOMAIN t.hh
       /\ \A e \in Elems :
            LET found == HASH_FIND(t, key[e], hashv[e]) IN
            IF \E x \in DOMAIN t.hh : key[x] = key[e]
            THEN found \in DOMAIN t.hh /\ key[found] = key[e]
            ELSE found = null

(* Buckets and links implement the map in the application's order.         *)
Map == INSTANCE OrderedMap WITH order <- Visited(head), selected <- Visited(dst)
ImplementsOrderedMap == Map!Spec
=============================================================================
