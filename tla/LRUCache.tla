------------------------------ MODULE LRUCache ------------------------------
(***************************************************************************)
(* LRUCacheExt.lua: a least recently used cache whose entries also expire. *)
(* Nodes are doubly linked from cacheHead, the last used, to cacheTail,    *)
(* and found by key in key2Node; removeFunc is called with what is pushed  *)
(* out, expired or cleaned, but not with what is removed.                  *)
(*                                                                         *)
(* removeFunc may wait, so others use the cache in the middle of Set's     *)
(* callbacks and of timeoutCheck; it is assumed to raise no error.  Nodes  *)
(* are numbered in the order they are made; the one Set uses again when    *)
(* the cache holds just one is a new one here.  Sizes are those a caller   *)
(* may set.                                                                *)
(***************************************************************************)
EXTENDS Integers, Sequences, FiniteSets

CONSTANTS
  Keys, Values, nil,
  Sizes,                 \* of New and SetMaxSize
  delayTime,             \* after which an entry has expired
  MaxNodes, MaxTime, MaxForced   \* bounds: nodes made, the clock, the size

ASSUME ValuesAssumption == nil \notin Keys \cup Values \cup Nat
ASSUME SizesAssumption == Sizes \subseteq Nat
ASSUME BoundAssumption == {delayTime, MaxNodes, MaxTime, MaxForced} \subseteq Nat

Nodes == 1..MaxNodes

VARIABLES
  now, maxSize,
  key2Node, cacheHead, cacheTail, count,
  node, preNode, nextNode,  \* of each node made: key, value, time; its neighbours
  rmKeys,                   \* keys timeoutCheck has yet to remove
  checked,                  \* the key2Node it looks them up in, or nil: the present one
  calls,                    \* nodes removeFunc has yet to be called with
  handed,                   \* history: how often it was called with each node
  taken,                    \* history: nodes removed by Remove
  lastUsed,                 \* history: the key last set or got
  spoilt                    \* history: whether Set has "failed", and whether the
                            \* cache was "cleaned" while timeoutCheck waited
links == <<key2Node, cacheHead, cacheTail, count, node, preNode, nextNode>>
timer == <<rmKeys, checked>>
history == <<handed, taken, lastUsed, spoilt>>
vars == <<now, maxSize, links, timer, calls, history>>

Init ==
  /\ now = 0 /\ maxSize \in Sizes
  /\ key2Node = [k \in Keys |-> nil] /\ cacheHead = nil /\ cacheTail = nil /\ count = 0
  /\ node = <<>> /\ preNode = [n \in Nodes |-> nil] /\ nextNode = [n \in Nodes |-> nil]
  /\ rmKeys = {} /\ checked = nil /\ calls = {}
  /\ handed = [n \in Nodes |-> 0] /\ taken = {}
  /\ lastUsed = nil /\ spoilt = {}

Made == 1..Len(node)
InTable == {n \in Made : key2Node[node[n].key] = n}

SetMaxSize(m) ==
  /\ m > 0 /\ maxSize' = m
  /\ UNCHANGED <<now, links, timer, calls, history>>

(* Mutant: the tail is not moved.                                          *)
PushFrontKeepsTail(n) ==
  IF n = cacheHead THEN UNCHANGED <<cacheHead, cacheTail, preNode, nextNode>>
  ELSE /\ cacheHead' = n
       /\ nextNode' = [nextNode EXCEPT ![preNode[n]] = nextNode[n], ![n] = cacheHead]
       /\ preNode' = [m \in Nodes |-> IF m = n THEN nil
                                      ELSE IF m = cacheHead THEN n
                                      ELSE IF m = nextNode[n] THEN preNode[n] ELSE preNode[m]]
       /\ UNCHANGED cacheTail

PushFront(n) ==
  IF n = cacheHead THEN UNCHANGED <<cacheHead, cacheTail, preNode, nextNode>>
  ELSE /\ cacheHead' = n
       /\ cacheTail' = IF n = cacheTail THEN preNode[n] ELSE cacheTail
       /\ nextNode' = [nextNode EXCEPT ![preNode[n]] = nextNode[n], ![n] = cacheHead]
       /\ preNode' = [m \in Nodes |-> IF m = n THEN nil
                                      ELSE IF m = cacheHead THEN n
                                      ELSE IF m = nextNode[n] THEN preNode[n] ELSE preNode[m]]

(* Mutant: what is got is not the last used.                               *)
GetInPlace(k) ==
  /\ cacheHead # nil /\ key2Node[k] # nil /\ lastUsed' = k
  /\ UNCHANGED <<now, maxSize, links, timer, calls, handed, taken, spoilt>>

Get(k) ==
  /\ cacheHead # nil /\ key2Node[k] # nil
  /\ PushFront(key2Node[k]) /\ lastUsed' = k
  /\ UNCHANGED <<now, maxSize, key2Node, count, node, timer, calls, handed, taken, spoilt>>

(* The i-th node from the tail.                                            *)
FromTail[i \in Nat] == IF i = 0 THEN cacheTail ELSE preNode[FromTail[i - 1]]

(* How many a new entry pushes out, and which.                             *)
Excess(max) == IF count < max THEN 0 ELSE count - max + 1
PushedOut(max) == {FromTail[i] : i \in 0..Excess(max) - 1}

(* Set, when the key has a node.                                           *)
SetOld(k, v, max) ==
  LET n == key2Node[k] IN
  /\ n # nil /\ maxSize' = max
  /\ node' = [node EXCEPT ![n].value = v]
  /\ PushFront(n) /\ lastUsed' = k
  /\ UNCHANGED <<now, key2Node, count, timer, calls, handed, taken, spoilt>>

(* A new node in front of what is left.                                    *)
Insert(k, v, max) ==
  LET n == Len(node) + 1
      out == PushedOut(max)
      last == FromTail[Excess(max)] IN
  /\ n \in Nodes /\ node' = Append(node, [key |-> k, value |-> v, time |-> now])
  /\ key2Node' = [x \in Keys |-> IF x = k THEN n
                                 ELSE IF \E m \in out : node[m].key = x THEN nil ELSE key2Node[x]]
  /\ cacheHead' = n /\ count' = count - Excess(max) + 1
  /\ IF count = Excess(max)
     THEN /\ cacheTail' = n
          /\ UNCHANGED <<preNode, nextNode>>
     ELSE /\ cacheTail' = last
          /\ nextNode' = [nextNode EXCEPT ![last] = nil, ![n] = cacheHead]
          /\ preNode' = [preNode EXCEPT ![cacheHead] = n]
  /\ calls' = calls \cup out /\ lastUsed' = k

(* Set, when it has none: the nodes beyond the size are pushed out.        *)
SetNew(k, v, max) ==
  /\ key2Node[k] = nil /\ maxSize' = max /\ (Excess(max) < count \/ count <= 1)
  /\ Insert(k, v, max)
  /\ UNCHANGED <<now, timer, handed, taken, spoilt>>

(* The size was set to one and there are more: the loop that pushes them   *)
(* out comes to the head, which has no preNode, and ends with an error.    *)
SetFails(k, max) ==
  /\ key2Node[k] = nil /\ maxSize' = max /\ Excess(max) = count /\ count > 1
  /\ key2Node' = [x \in Keys |-> IF \E m \in PushedOut(max) : node[m].key = x
                                 THEN nil ELSE key2Node[x]]
  /\ cacheTail' = cacheHead /\ nextNode' = [nextNode EXCEPT ![cacheHead] = nil]
  /\ count' = 1
  /\ spoilt' = spoilt \cup {"failed"}
  /\ UNCHANGED <<now, cacheHead, node, preNode, timer, calls, handed, taken, lastUsed>>

(* Set; a forced entry makes the cache larger.                             *)
Set(k, v, force) ==
  LET max == IF force THEN maxSize + 1 ELSE maxSize IN
  /\ maxSize >= 1 /\ max <= MaxForced
  /\ SetOld(k, v, max) \/ SetNew(k, v, max) \/ SetFails(k, max)

(* Remove, when the key has a node.                                        *)
Unlink(k) ==
  LET n == key2Node[k]
      before == preNode[n]  after == nextNode[n] IN
  /\ cacheHead # nil /\ n # nil
  /\ cacheHead' = IF n = cacheHead THEN after ELSE cacheHead
  /\ cacheTail' = IF n = cacheTail THEN before ELSE cacheTail
  /\ preNode' = [m \in Nodes |-> IF m = after THEN before ELSE preNode[m]]
  /\ nextNode' = [m \in Nodes |-> IF m = before THEN after ELSE nextNode[m]]
  /\ key2Node' = [key2Node EXCEPT ![k] = nil] /\ count' = count - 1
  /\ UNCHANGED node

Remove(k) ==
  /\ Unlink(k) /\ taken' = taken \cup {key2Node[k]}
  /\ UNCHANGED <<now, maxSize, timer, calls, handed, lastUsed, spoilt>>

Hand(n) == handed' = [handed EXCEPT ![n] = @ + 1]

Expired == {k \in Keys : key2Node[k] # nil /\ now - node[key2Node[k]].time > delayTime}

(* timeoutCheck lists the keys of the nodes that have expired, removes the *)
(* first and calls removeFunc with it.                                     *)
timeoutCheck(k) ==
  /\ rmKeys = {} /\ k \in Expired
  /\ rmKeys' = Expired \ {k}
  /\ Unlink(k) /\ Hand(key2Node[k])
  /\ UNCHANGED <<now, maxSize, checked, calls, taken, lastUsed, spoilt>>

(* removeFunc has returned, and timeoutCheck removes the next key, if that *)
(* has a node in the table it took, which after a clean is not the cache's *)
(* any more.                                                               *)
removeExpired(k) ==
  LET n == IF checked = nil THEN key2Node[k] ELSE checked[k] IN
  /\ k \in rmKeys /\ rmKeys' = rmKeys \ {k}
  /\ IF n = nil THEN UNCHANGED <<links, handed>>
     ELSE /\ Hand(n)
          /\ Unlink(k) \/ (key2Node[k] = nil /\ UNCHANGED links)
  /\ checked' = IF rmKeys' = {} THEN nil ELSE checked
  /\ UNCHANGED <<now, maxSize, calls, taken, lastUsed, spoilt>>

(* removeFunc is called with a node Set has pushed out or clean has forked *)
(* it for.                                                                 *)
executeRemoveFunc(n) ==
  /\ n \in calls /\ calls' = calls \ {n} /\ Hand(n)
  /\ UNCHANGED <<now, maxSize, links, timer, taken, lastUsed, spoilt>>

(* timeoutCheck goes on with the table by key that clean has replaced.     *)
LateClean ==
  /\ checked' = IF rmKeys # {} /\ checked = nil THEN key2Node ELSE checked
  /\ spoilt' = IF rmKeys # {} THEN spoilt \cup {"cleaned"} ELSE spoilt

(* Mutant: clean empties the cache without the callbacks.                  *)
cleanSilently ==
  /\ key2Node' = [k \in Keys |-> nil] /\ cacheHead' = nil /\ cacheTail' = nil /\ count' = 0
  /\ LateClean
  /\ UNCHANGED <<now, maxSize, node, preNode, nextNode, rmKeys, calls, handed, taken, lastUsed>>

clean ==
  /\ calls' = calls \cup ({key2Node[k] : k \in Keys} \ {nil})
  /\ key2Node' = [k \in Keys |-> nil] /\ cacheHead' = nil /\ cacheTail' = nil /\ count' = 0
  /\ LateClean
  /\ UNCHANGED <<now, maxSize, node, preNode, nextNode, rmKeys, handed, taken, lastUsed>>

Tick ==
  /\ now < MaxTime /\ now' = now + 1
  /\ UNCHANGED <<maxSize, links, timer, calls, history>>

Next ==
  \/ \E m \in Sizes : SetMaxSize(m)
  \/ \E k \in Keys : \/ Get(k) \/ Remove(k) \/ timeoutCheck(k) \/ removeExpired(k)
                     \/ \E v \in Values, force \in BOOLEAN : Set(k, v, force)
  \/ (\E n \in calls : executeRemoveFunc(n)) \/ clean \/ Tick

Spec == Init /\ [][Next]_vars

-----------------------------------------------------------------------------
(* Types; at most the nodes of one table are listed by timeoutCheck.       *)
TypeOK ==
  /\ now \in Nat /\ maxSize \in Nat /\ count \in Nat
  /\ key2Node \in [Keys -> Made \cup {nil}]
  /\ cacheHead \in Made \cup {nil} /\ cacheTail \in Made \cup {nil}
  /\ node \in Seq([key : Keys, value : Values, time : Nat])
  /\ preNode \in [Nodes -> Made \cup {nil}] /\ nextNode \in [Nodes -> Made \cup {nil}]
  /\ rmKeys \subseteq Keys /\ calls \subseteq Made /\ taken \subseteq Made
  /\ checked # nil => rmKeys # {} /\ checked \in [Keys -> Made \cup {nil}]
  /\ handed \in [Nodes -> Nat] /\ lastUsed \in Keys \cup {nil}
  /\ spoilt \subseteq {"failed", "cleaned"}

FromHead[i \in Nat] == IF i = 0 THEN cacheHead ELSE nextNode[FromHead[i - 1]]
Listed == {FromHead[i] : i \in 0..count - 1}

(* The two directions of the list, its ends, its length and the table by   *)
(* key agree, after whatever sequence of operations and shrinking.         *)
LinksAgree ==
  /\ TypeOK
  /\ count = 0 <=> cacheHead = nil
  /\ \A i \in 0..count - 1 : preNode[FromHead[i]] = IF i = 0 THEN nil ELSE FromHead[i - 1]
  /\ FromHead[count] = nil /\ (count > 0 => cacheTail = FromHead[count - 1])
  /\ \A k \in Keys : key2Node[k] # nil => key2Node[k] \in Listed /\ node[key2Node[k]].key = k

(* What is in the list is found by its key: nothing takes up room that no  *)
(* Get can reach.  Set leaves such a node when it fails.                   *)
EveryNodeIsFound == "failed" \notin spoilt => Listed \subseteq InTable

(* Both: the list and the table are about the same nodes.                  *)
ListIsSound == LinksAgree /\ EveryNodeIsFound

(* What leaves the cache, but for Remove, is handed to removeFunc once,    *)
(* whatever happens while a removeFunc waits; but what Set pushed out when *)
(* it fails is not, nor is what timeoutCheck removes after a clean, when   *)
(* it hands the node of the old table over again.                          *)
HandedOverOnce ==
  spoilt = {} =>
    \A n \in Made : handed[n] + (IF n \in calls THEN 1 ELSE 0) =
                      IF n \in InTable \cup taken THEN 0 ELSE 1

(* Nothing is in the cache that is not found, or was handed over.          *)
CacheIsSound == ListIsSound /\ HandedOverOnce

(* The list is the order of use LRUSpec has.                               *)
LRU == INSTANCE LRUSpec WITH
  entries <- [i \in 1..count |-> <<node[FromHead[i - 1]].key, node[FromHead[i - 1]].value>>]

(* Every operation has the effect on the order of use that it should have, *)
(* and pushes out the entries not used for longest, until Set fails.       *)
ImplementsLRU == LRU!Init /\ [][LRU!Next \/ "failed" \in spoilt']_(LRU!vars)
=============================================================================
