------------------------------- MODULE LQueue -------------------------------
(***************************************************************************)
(* game/liblua/lqueue.lua: the queue of redisPersistence, a list of nodes  *)
(* linked by next.  While it has one node, last is nil.                    *)
(*                                                                         *)
(* A node is named by the push that made it, so node pushed + 1 is the new *)
(* table of the next push; the Lua nil is noNode, 0.                       *)
(***************************************************************************)
EXTENDS Naturals, Sequences

CONSTANTS Objs,      \* the objects put in
          None,      \* the nil that pop returns
          MaxNodes   \* bound: pushes in a run

NodesAssumption == MaxNodes \in Nat

VARIABLES head, last, size, obj, next, pushed, returned
vars == <<head, last, size, obj, next, pushed, returned>>

Nodes == 1..MaxNodes
noNode == 0

Init == /\ head = noNode /\ last = noNode /\ size = 0
        /\ obj = [n \in Nodes |-> None] /\ next = [n \in Nodes |-> noNode]
        /\ pushed = 0 /\ returned = None

(* Mutant: the third case forgets to move last.                            *)
PushToForgetsLast(o, node) ==
  \/ /\ head = noNode
     /\ head' = node /\ size' = 1
     /\ UNCHANGED <<last, next>>
  \/ /\ head # noNode /\ last = noNode
     /\ last' = node /\ next' = [next EXCEPT ![head] = node] /\ size' = size + 1
     /\ UNCHANGED head
  \/ /\ head # noNode /\ last # noNode
     /\ next' = [next EXCEPT ![last] = node] /\ size' = size + 1
     /\ UNCHANGED <<head, last>>

(* The new node and where it is linked.                                    *)
PushTo(o, node) ==
  \/ /\ head = noNode
     /\ head' = node /\ size' = 1
     /\ UNCHANGED <<last, next>>
  \/ /\ head # noNode /\ last = noNode
     /\ last' = node /\ next' = [next EXCEPT ![head] = node] /\ size' = size + 1
     /\ UNCHANGED head
  \/ /\ head # noNode /\ last # noNode
     /\ next' = [next EXCEPT ![last] = node] /\ last' = node /\ size' = size + 1
     /\ UNCHANGED head

push(o) ==
  LET node == pushed + 1 IN
  /\ pushed < MaxNodes
  /\ pushed' = node
  /\ obj' = [obj EXCEPT ![node] = o]
  /\ PushTo(o, node)
  /\ returned' = None

(* Mutant: last keeps the node that was popped.                            *)
popKeepsLast ==
  \/ head = noNode /\ returned' = None /\ UNCHANGED <<head, last, size, obj, next, pushed>>
  \/ /\ head # noNode
     /\ returned' = obj[head]
     /\ head' = next[head]
     /\ size' = size - 1
     /\ UNCHANGED <<last, obj, next, pushed>>

pop ==
  \/ head = noNode /\ returned' = None /\ UNCHANGED <<head, last, size, obj, next, pushed>>
  \/ /\ head # noNode
     /\ returned' = obj[head]
     /\ head' = next[head]
     /\ last' = IF head' = noNode \/ next[head'] = noNode THEN noNode ELSE last
     /\ size' = size - 1
     /\ UNCHANGED <<obj, next, pushed>>

rawGetHeadDate ==
  /\ returned' = IF head = noNode THEN None ELSE obj[head]
  /\ UNCHANGED <<head, last, size, obj, next, pushed>>

sizeOf == returned' = size /\ UNCHANGED <<head, last, size, obj, next, pushed>>

Next == (\E o \in Objs : push(o)) \/ pop \/ rawGetHeadDate \/ sizeOf

Spec == Init /\ [][Next]_vars

-----------------------------------------------------------------------------
(* Types of the nodes and pointers.                                        *)
TypeOK == /\ head \in 0..MaxNodes /\ last \in 0..MaxNodes
          /\ size \in 0..MaxNodes /\ pushed \in 0..MaxNodes
          /\ obj \in [Nodes -> Objs \cup {None}]
          /\ next \in [Nodes -> 0..MaxNodes]

(* Following next from head meets every object still inside in the order   *)
(* of the pushes and ends at noNode; last is the end of that chain exactly *)
(* when it has two nodes or more, and size its length.                     *)
Linked ==
  /\ head # noNode => /\ head <= pushed
                      /\ \A n \in head..pushed : next[n] = IF n < pushed THEN n + 1 ELSE noNode
                      /\ size = pushed + 1 - head
  /\ head = noNode => size = 0
  /\ last = IF head # noNode /\ head < pushed THEN pushed ELSE noNode

(* With their types: head, last, size and next describe one chain.         *)
ChainIsSound == TypeOK /\ Linked

(* The objects inside, by the nodes that hold them.                        *)
Held(first, end, o) == IF first = noNode THEN <<>> ELSE [i \in 1..end + 1 - first |-> o[first + i - 1]]
Items == Held(head, pushed, obj)

(* The linked nodes are a first-in first-out queue, call by call.          *)
Queue == INSTANCE FIFO WITH items <- Items
ImplementsFIFO ==
  Queue!Init /\ [][\/ \E o \in Objs : push(o) /\ Queue!Push(o)
                   \/ pop /\ Queue!Pop
                   \/ rawGetHeadDate /\ Queue!Peek
                   \/ sizeOf /\ Queue!Size]_vars
=============================================================================
