-------------------------------- MODULE FIFO --------------------------------
(* What game/liblua/lqueue.lua promises: objects come out in the order in   *)
(* which they went in.  `returned` is the result of the last call.          *)
EXTENDS Naturals, Sequences

CONSTANTS Objs, None

VARIABLES items, returned
vars == <<items, returned>>

Init == items = <<>> /\ returned = None

Push(o) == items' = Append(items, o) /\ returned' = None

Pop == \/ items = <<>> /\ returned' = None /\ UNCHANGED items
       \/ items # <<>> /\ returned' = Head(items) /\ items' = Tail(items)

Peek == /\ returned' = IF items = <<>> THEN None ELSE Head(items)
        /\ UNCHANGED items

Size == returned' = Len(items) /\ UNCHANGED items

Next == (\E o \in Objs : Push(o)) \/ Pop \/ Peek \/ Size

Spec == Init /\ [][Next]_vars
=============================================================================
