---------------------------- MODULE KeyValueStore ----------------------------
(***************************************************************************)
(* What the persistence layer promises its callers, with no queue, no      *)
(* coalescing and no messages: a table of string keys and hash keys whose  *)
(* updates take effect at once.  RedisPersistence is shown to implement    *)
(* it, operation by operation, with `store` read as "redis, once           *)
(* everything sent and everything queued has been applied".                *)
(*                                                                         *)
(* Two steps promise less.  A field that is given a value json.encode      *)
(* rejects is left unspecified, and a crash may leave any contents behind: *)
(* the queue lives in memory only (RedisDurability says which contents).   *)
(***************************************************************************)
CONSTANTS StringKeys, HashKeys, Fields, Vals, Unencodable, Nothing

VARIABLE store

Keys == StringKeys \cup HashKeys
Value == Vals \cup {Nothing}
Good == Vals \ Unencodable
EmptyHash == [f \in Fields |-> Nothing]
Stored == Good \cup {Nothing}
Content(k) == IF k \in StringKeys THEN Stored ELSE [Fields -> Stored]
Contents == {s \in [Keys -> Stored \cup [Fields -> Stored]] : \A k \in Keys : s[k] \in Content(k)}

Init == store \in Contents

SetString(k, v) ==
  \E c \in Stored : /\ v \in Good => c = v
                    /\ store' = [store EXCEPT ![k] = c]

DeleteString(k) == store' = [store EXCEPT ![k] = Nothing]

SetFields(k, kv) ==
  \E h \in [Fields -> Stored] :
    /\ \A f \in Fields : /\ kv[f] \in Good => h[f] = kv[f]
                         /\ kv[f] = Nothing => h[f] = store[k][f]
    /\ store' = [store EXCEPT ![k] = h]

DeleteField(k, f) == store' = [store EXCEPT ![k] = [store[k] EXCEPT ![f] = Nothing]]

DeleteHash(k) == store' = [store EXCEPT ![k] = EmptyHash]

Crash == store' \in Contents

Next ==
  \/ \E k \in StringKeys : DeleteString(k) \/ \E v \in Vals : SetString(k, v)
  \/ \E k \in HashKeys : \/ DeleteHash(k)
                         \/ \E f \in Fields : DeleteField(k, f)
                         \/ \E kv \in [Fields -> Value] : SetFields(k, kv)
  \/ Crash

Spec == Init /\ [][Next]_store
=============================================================================
