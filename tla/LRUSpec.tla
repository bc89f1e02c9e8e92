------------------------------ MODULE LRUSpec ------------------------------
(***************************************************************************)
(* What a least recently used cache promises: its entries in the order of  *)
(* their last use, of which a new one pushes out the last.  An entry may   *)
(* also be removed, or have expired, at any time.                          *)
(***************************************************************************)
EXTENDS Naturals, Sequences

CONSTANTS Keys, Values, nil

VARIABLES
  maxSize,
  entries,   \* pairs <<key, value>>, last used first
  lastUsed   \* the key last used
vars == <<maxSize, entries, lastUsed>>

Init == maxSize \in Nat /\ entries = <<>> /\ lastUsed = nil

Has(k) == \E i \in 1..Len(entries) : entries[i][1] = k
Place(k) == CHOOSE i \in 1..Len(entries) : entries[i][1] = k
ValueOf(k) == entries[Place(k)][2]
Without(k) ==
  IF Has(k) THEN SubSeq(entries, 1, Place(k) - 1) \o SubSeq(entries, Place(k) + 1, Len(entries))
  ELSE entries

SetMaxSize == maxSize' \in Nat /\ UNCHANGED <<entries, lastUsed>>

Get(k) ==
  /\ Has(k) /\ entries' = <<<<k, ValueOf(k)>>>> \o Without(k)
  /\ lastUsed' = k /\ UNCHANGED maxSize

(* A forced entry makes room for itself.                                   *)
Set(k, v, room) ==
  LET rest == Without(k) IN
  /\ maxSize >= 1 /\ maxSize' = maxSize + room /\ lastUsed' = k
  /\ entries' = <<<<k, v>>>> \o (IF Has(k) \/ Len(rest) < maxSize' THEN rest
                                 ELSE SubSeq(rest, 1, maxSize' - 1))

Leaves(k) == entries' = Without(k) /\ UNCHANGED <<maxSize, lastUsed>>

Clean == entries' = <<>> /\ UNCHANGED <<maxSize, lastUsed>>

Next ==
  \/ SetMaxSize
  \/ \E k \in Keys : \/ Get(k) \/ Leaves(k)
                     \/ \E v \in Values, room \in 0..1 : Set(k, v, room)
  \/ Clean

Spec == Init /\ [][Next]_vars
=============================================================================
