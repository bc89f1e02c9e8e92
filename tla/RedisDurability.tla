--------------------------- MODULE RedisDurability ---------------------------
(***************************************************************************)
(* What a crash can cost.  RedisPersistence with a history variable:       *)
(* recent[k] holds the contents key k has had, for its service, since the  *)
(* last moment at which none of its updates was waiting in mapValue or in  *)
(* a message.                                                              *)
(***************************************************************************)
EXTENDS RedisPersistence

VARIABLE recent
dvars == <<vars, recent>>

(* Nothing of key k is in memory only.                                     *)
Durable(k) == mapValue[k] = NoInfo /\ WritesInNet(k) = 0

DInit == Init /\ recent = [k \in Keys |-> {redis[k]}]

DNext ==
  /\ Next
  /\ recent' = [k \in Keys |-> IF Durable(k)' THEN {View'[k]} ELSE recent[k] \cup {View'[k]}]

DSpec == DInit /\ [][DNext]_dvars

-----------------------------------------------------------------------------
(* A crash at any moment, also between the two commands of one hash, finds *)
(* each key in a state made of contents it had since it was last durable:  *)
(* a value overwritten before that never comes back, an update that became *)
(* durable is never lost, and nothing is invented.  A string key is found  *)
(* as a whole; of a hash, each field on its own.                           *)
CrashKeepsRecent ==
  /\ \A k \in StringKeys : redis[k] \in recent[k]
  /\ \A k \in HashKeys : \A f \in Fields : \E c \in recent[k] : redis[k][f] = c[f]

(* Not only fields: once nothing is in memory, redis holds exactly what    *)
(* the service believes.                                                   *)
DurableIsExact == \A k \in Keys : Durable(k) => recent[k] = {redis[k]}

(* Both: what a crash costs is what was on its way, and nothing else.      *)
CrashCostsOnlyRecent == CrashKeepsRecent /\ DurableIsExact
=============================================================================
