----------------------------- MODULE OrderedMap -----------------------------
(***************************************************************************)
(* What uthash.h promises to a program: the elements of a hash are visited *)
(* in the order they were added in (or sorted into), an element is found   *)
(* by its key, and HASH_SELECT gives a second hash of the elements chosen. *)
(* Uthash does it with buckets and two doubly linked lists.                *)
(***************************************************************************)
EXTENDS Naturals, Sequences, FiniteSets, SequencesExt

CONSTANTS
  Elems,           \* the elements there may be
  key, rank,       \* the key of each, and its place for the compare function
  Chosen           \* the elements HASH_SELECT's condition holds of

VARIABLES
  order,           \* the elements of the hash, in the order they are visited
  selected         \* those of the hash HASH_SELECT made
vars == <<order, selected>>

Init == order = <<>> /\ selected = <<>>

Without(list, e) == SelectSeq(list, LAMBDA x : x # e)

(* Equal elements keep their order.                                        *)
Sorted(list) ==
  LET In(i, j) == rank[list[i]] < rank[list[j]] \/ (rank[list[i]] = rank[list[j]] /\ i < j)
      places == SetToSortSeq(DOMAIN list, In)
  IN  [i \in DOMAIN list |-> list[places[i]]]

(* Before the first element that is greater, wherever that is.             *)
InOrder(list, e) ==
  LET greater == {i \in DOMAIN list : rank[list[i]] > rank[e]} IN
  IF greater = {} THEN Append(list, e)
  ELSE InsertAt(list, CHOOSE i \in greater : \A j \in greater : i <= j, e)

HASH_ADD(e) == order' = Append(order, e) /\ UNCHANGED selected
HASH_ADD_INORDER(e) == order' = InOrder(order, e) /\ UNCHANGED selected

(* One element with that key, when there is one, makes place for the new.  *)
HASH_REPLACE(e) ==
  LET alike == {x \in ToSet(order) : key[x] = key[e]} IN
  /\ \/ alike = {} /\ order' = Append(order, e)
     \/ \E x \in alike : order' = Append(Without(order, x), e)
  /\ UNCHANGED selected

HASH_DELETE(e) ==
  \/ e \in ToSet(order) /\ order' = Without(order, e) /\ UNCHANGED selected
  \/ e \in ToSet(selected) /\ selected' = Without(selected, e) /\ UNCHANGED order

HASH_SORT ==
  \/ order' = Sorted(order) /\ UNCHANGED selected
  \/ selected' = Sorted(selected) /\ UNCHANGED order

(* In which order the elements chosen are visited is not said.             *)
HASH_SELECT ==
  /\ selected = <<>>
  /\ selected' \in SetToSeqs(ToSet(order) \cap Chosen)
  /\ UNCHANGED order

HASH_CLEAR ==
  \/ order' = <<>> /\ UNCHANGED selected
  \/ selected' = <<>> /\ UNCHANGED order

Next ==
  \/ HASH_CLEAR \/ HASH_SORT \/ HASH_SELECT
  \/ \E e \in Elems : HASH_DELETE(e)
  \/ \E e \in Elems \ ToSet(order) : HASH_ADD(e) \/ HASH_ADD_INORDER(e) \/ HASH_REPLACE(e)

Spec == Init /\ [][Next]_vars
=============================================================================
