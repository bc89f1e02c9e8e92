-------------------------- MODULE RedisPersistence --------------------------
(***************************************************************************)
(* game/liblua/redis/redisPersistence.lua: the write-behind queue between  *)
(* a service's cached tables and redis.                                    *)
(*                                                                         *)
(* Updates are not sent when they are made.  mapValue holds, per key, what *)
(* is still to be written, coalesced; queue holds the keys in the order in *)
(* which they became pending.  run(count) pops keys and sends redis        *)
(* commands without waiting for a reply.  redisLib picks the redis service *)
(* of a key from the bytes of the key, so the commands of one key reach    *)
(* redis in the order they were sent (net[k]); those of different keys are *)
(* not ordered.  Reads (get, getAll) are calls: the request queues behind  *)
(* the writes of the same key and the caller's coroutine yields until the  *)
(* reply.                                                                  *)
(*                                                                         *)
(* `settled` is an auxiliary variable: the contents redis reaches once it  *)
(* has executed everything in net.  It influences no action.               *)
(***************************************************************************)
EXTENDS Naturals, Sequences, FiniteSets, SequencesExt

CONSTANTS
  StringKeys,    \* keys of tables stored as one redis string
  HashKeys,      \* keys of tables stored as a redis hash
  Fields,        \* the hash fields
  Vals,          \* field and string contents
  Unencodable,   \* the contents json.encode rejects
  Nothing,       \* an absent key or field, a Lua nil
  Callers,       \* coroutines that read through get and getAll
  MaxWrites      \* bound: unexecuted write commands per key

ASSUME KeyAssumption == StringKeys \cap HashKeys = {}
ASSUME ValueAssumption == Nothing \notin Vals /\ Unencodable \subseteq Vals
ASSUME BoundAssumption == MaxWrites \in Nat

VARIABLES queue, mapValue, net, redis, settled, calls
vars == <<queue, mapValue, net, redis, settled, calls>>

Keys == StringKeys \cup HashKeys
Value == Vals \cup {Nothing}
Good == Vals \ Unencodable
EmptyHash == [f \in Fields |-> Nothing]
Stored == Good \cup {Nothing}
Content(k) == IF k \in StringKeys THEN Stored ELSE [Fields -> Stored]
Contents == {s \in [Keys -> Stored \cup [Fields -> Stored]] : \A k \in Keys : s[k] \in Content(k)}
Absent(k) == IF k \in StringKeys THEN Nothing ELSE EmptyHash

-----------------------------------------------------------------------------
(* The pending entry of a key.  The Lua table drops kv or delFields when   *)
(* it has none; here they are empty.                                       *)

NoInfo == [rtype |-> "none"]
StringInfo == [rtype : {"string"}, value : Value, isAll : BOOLEAN]
HashInfo == [rtype : {"hash"}, kv : [Fields -> Value],
             delFields : SUBSET Fields, isAll : BOOLEAN]
NewHashInfo == [rtype |-> "hash", kv |-> EmptyHash, delFields |-> {}, isAll |-> FALSE]
InfoOf(k) == {NoInfo} \cup (IF k \in StringKeys THEN StringInfo ELSE HashInfo)

(* The commands the send functions of redisLib emit, and a read request.   *)
Delete == [op |-> "delete"]
SetCmd(v) == [op |-> "set", value |-> v]
HMDel(S) == [op |-> "hMdel", fields |-> S]
HMSet(kv) == [op |-> "hMset", kv |-> kv]
Read(c) == [op |-> "read", caller |-> c]
Reads == {Read(c) : c \in Callers}
StringCmds == {Delete} \cup {SetCmd(v) : v \in Good}
HashCmds == {Delete} \cup {HMDel(S) : S \in SUBSET Fields}
                     \cup {HMSet(kv) : kv \in [Fields -> Stored]}
CmdsOf(k) == IF k \in StringKeys THEN StringCmds ELSE HashCmds

(* What redis holds under key k after a command, when it held c before.    *)
Execute(k, c, cmd) ==
  CASE cmd.op = "delete" -> Absent(k)
    [] cmd.op = "set" -> cmd.value
    [] cmd.op = "hMdel" -> [f \in Fields |-> IF f \in cmd.fields THEN Nothing ELSE c[f]]
    [] cmd.op = "hMset" -> [f \in Fields |-> IF cmd.kv[f] # Nothing THEN cmd.kv[f] ELSE c[f]]
    [] OTHER -> c

(* doString and doHash: the commands one pending entry turns into.  A      *)
(* value json.encode rejects is logged and not sent.                       *)
Encoded(kv) == [f \in Fields |-> IF kv[f] \in Good THEN kv[f] ELSE Nothing]

DoString(info) ==
  IF info.isAll THEN <<Delete>>
  ELSE IF info.value \in Good THEN <<SetCmd(info.value)>> ELSE <<>>

(* Mutant: fields to delete take the whole key with them.                  *)
DoHashDeletesKey(info) ==
  (IF info.isAll \/ info.delFields # {} THEN <<Delete>> ELSE <<>>)
  \o (IF info.kv # EmptyHash THEN <<HMSet(Encoded(info.kv))>> ELSE <<>>)

(* Mutant: the fields are written before the whole key is deleted.         *)
DoHashSetFirst(info) ==
  (IF info.kv # EmptyHash THEN <<HMSet(Encoded(info.kv))>> ELSE <<>>)
  \o (IF info.isAll THEN <<Delete>>
      ELSE IF info.delFields # {} THEN <<HMDel(info.delFields)>> ELSE <<>>)

DoHash(info) ==
  (IF info.isAll THEN <<Delete>>
   ELSE IF info.delFields # {} THEN <<HMDel(info.delFields)>> ELSE <<>>)
  \o (IF info.kv # EmptyHash THEN <<HMSet(Encoded(info.kv))>> ELSE <<>>)

Commands(info) == IF info.rtype = "string" THEN DoString(info) ELSE DoHash(info)

(* Redis contents once at most two commands are executed on c.             *)
ExecuteAll(k, c, cmds) ==
  CASE Len(cmds) = 0 -> c
    [] Len(cmds) = 1 -> Execute(k, c, cmds[1])
    [] OTHER -> Execute(k, Execute(k, c, cmds[1]), cmds[2])

(* The contents a key has for its service: the pending entry over what     *)
(* has been sent.                                                          *)
Overlay(info, c) ==
  CASE info.rtype = "string" ->
         IF info.isAll THEN Nothing ELSE IF info.value \in Good THEN info.value ELSE c
    [] info.rtype = "hash" ->
         [f \in Fields |-> IF info.kv[f] \in Good THEN info.kv[f]
                           ELSE IF info.isAll \/ f \in info.delFields THEN Nothing
                           ELSE c[f]]
    [] OTHER -> c

View == [k \in Keys |-> Overlay(mapValue[k], settled[k])]

-----------------------------------------------------------------------------
Init ==
  /\ queue = <<>>
  /\ mapValue = [k \in Keys |-> NoInfo]
  /\ net = [k \in Keys |-> <<>>]
  /\ redis \in Contents
  /\ settled = redis
  /\ calls = [c \in Callers |-> [state |-> "idle"]]

(* Mutant: every update queues its key.                                    *)
PendAgain(k, info) ==
  /\ queue' = Append(queue, k)
  /\ mapValue' = [mapValue EXCEPT ![k] = info]
  /\ UNCHANGED <<net, redis, settled, calls>>

(* Mutant: an update moves its key to the end of the queue.                *)
PendLast(k, info) ==
  /\ queue' = Append(SelectSeq(queue, LAMBDA q : q # k), k)
  /\ mapValue' = [mapValue EXCEPT ![k] = info]
  /\ UNCHANGED <<net, redis, settled, calls>>

(* A key already pending keeps its place in the queue.                     *)
Pend(k, info) ==
  /\ queue' = IF mapValue[k] = NoInfo THEN Append(queue, k) ELSE queue
  /\ mapValue' = [mapValue EXCEPT ![k] = info]
  /\ UNCHANGED <<net, redis, settled, calls>>

pushString(k, v) == Pend(k, [rtype |-> "string", value |-> v, isAll |-> FALSE])

deleteKey(k) == Pend(k, [rtype |-> "string", value |-> Nothing, isAll |-> TRUE])

(* Fields written again are taken off the list of fields to delete; a      *)
(* delete of the whole hash stays and comes first.                         *)
MergeHash(info, values) ==
  [info EXCEPT !.kv = [f \in Fields |-> IF values[f] # Nothing THEN values[f] ELSE @[f]],
               !.delFields = {f \in @ : values[f] = Nothing}]

Pending(k) == IF mapValue[k] = NoInfo THEN NewHashInfo ELSE mapValue[k]

pushHash(k, values) == Pend(k, MergeHash(Pending(k), values))

(* deleteHash with a field: after a delete of the whole hash only the      *)
(* fields written since then have to be forgotten.                         *)
DropField(info, f) ==
  [info EXCEPT !.kv = [@ EXCEPT ![f] = Nothing],
               !.delFields = IF info.isAll THEN @ ELSE @ \cup {f}]

deleteHashField(k, f) == Pend(k, DropField(Pending(k), f))

deleteHashAll(k) == Pend(k, [NewHashInfo EXCEPT !.isAll = TRUE])

(* run(count): pops up to count keys and sends what each has pending.  No  *)
(* send yields, so the whole loop is one step.  Not passing count means    *)
(* all of the queue, which is count = Len(queue).                          *)
WritesInNet(k) == Cardinality({i \in DOMAIN net[k] : net[k][i].op # "read"})
Popped(count) == {queue[i] : i \in 1..count}

run(count) ==
  /\ \A k \in Popped(count) : WritesInNet(k) + Len(Commands(mapValue[k])) <= MaxWrites
  /\ queue' = SubSeq(queue, count + 1, Len(queue))
  /\ mapValue' = [k \in Keys |-> IF k \in Popped(count) THEN NoInfo ELSE mapValue[k]]
  /\ net' = [k \in Keys |-> IF k \in Popped(count) THEN net[k] \o Commands(mapValue[k])
                            ELSE net[k]]
  /\ settled' = [k \in Keys |-> IF k \in Popped(count)
                                THEN ExecuteAll(k, settled[k], Commands(mapValue[k]))
                                ELSE settled[k]]
  /\ UNCHANGED <<redis, calls>>

-----------------------------------------------------------------------------
(* Reads.  A call record keeps, for the properties only, what the key held *)
(* when the request was sent (start) and whether an entry was pending.     *)

(* Mutant: the request overtakes the writes of the key.                    *)
SendReadFirst(c, k) ==
  /\ calls[c].state = "idle"
  /\ net' = [net EXCEPT ![k] = <<Read(c)>> \o @]
  /\ calls' = [calls EXCEPT ![c] = [state |-> "waiting", key |-> k, start |-> View[k],
                                   info |-> mapValue[k]]]
  /\ UNCHANGED <<queue, mapValue, redis, settled>>

SendRead(c, k) ==
  /\ calls[c].state = "idle"
  /\ net' = [net EXCEPT ![k] = Append(@, Read(c))]
  /\ calls' = [calls EXCEPT ![c] = [state |-> "waiting", key |-> k, start |-> View[k],
                                   info |-> mapValue[k]]]
  /\ UNCHANGED <<queue, mapValue, redis, settled>>

(* Mutant: get asks redis although a write of the key is pending.          *)
getIgnoresPending(c, k) == SendRead(c, k)

(* get answers from mapValue, without yielding, when the key is pending.   *)
get(c, k) == mapValue[k] = NoInfo /\ SendRead(c, k)

(* getAll never looks at mapValue.                                         *)
getAll(c, k) == SendRead(c, k)

Reply(c, value) ==
  [state |-> "done", key |-> calls[c].key, start |-> calls[c].start,
   info |-> calls[c].info, reply |-> value]

(* The redis service takes the next command of a key.                      *)
RedisExecute(k) ==
  /\ net[k] # <<>>
  /\ LET cmd == Head(net[k]) IN
       /\ net' = [net EXCEPT ![k] = Tail(@)]
       /\ redis' = [redis EXCEPT ![k] = Execute(k, @, cmd)]
       /\ calls' = IF cmd.op = "read"
                   THEN [calls EXCEPT ![cmd.caller] = Reply(cmd.caller, redis[k])]
                   ELSE calls
  /\ UNCHANGED <<queue, mapValue, settled>>

(* A read that fails: clusterExt.call logs the error and returns nothing,  *)
(* which get and getAll cannot tell from an absent key.                    *)
ReadFails(k) ==
  /\ net[k] # <<>> /\ Head(net[k]).op = "read"
  /\ LET c == Head(net[k]).caller IN calls' = [calls EXCEPT ![c] = Reply(c, Absent(k))]
  /\ net' = [net EXCEPT ![k] = Tail(@)]
  /\ UNCHANGED <<queue, mapValue, redis, settled>>

(* The caller's coroutine resumes with the reply.                          *)
Resume(c) ==
  /\ calls[c].state = "done"
  /\ calls' = [calls EXCEPT ![c] = [state |-> "idle"]]
  /\ UNCHANGED <<queue, mapValue, net, redis, settled>>

(* The process dies: queue, mapValue and the messages between services are *)
(* memory; redis stays as it is.                                           *)
Crash ==
  /\ queue' = <<>>
  /\ mapValue' = [k \in Keys |-> NoInfo]
  /\ net' = [k \in Keys |-> <<>>]
  /\ settled' = redis
  /\ calls' = [c \in Callers |-> [state |-> "idle"]]
  /\ UNCHANGED redis

Update ==
  \/ \E k \in StringKeys : deleteKey(k) \/ \E v \in Vals : pushString(k, v)
  \/ \E k \in HashKeys : \/ deleteHashAll(k)
                         \/ \E f \in Fields : deleteHashField(k, f)
                         \/ \E values \in [Fields -> Value] : pushHash(k, values)

Flush == \E count \in 1..Len(queue) : run(count)

Next ==
  \/ Update
  \/ Flush
  \/ \E c \in Callers : \/ \E k \in StringKeys : get(c, k)
                        \/ \E k \in HashKeys : getAll(c, k)
                        \/ Resume(c)
  \/ \E k \in Keys : RedisExecute(k) \/ ReadFails(k)
  \/ Crash

Spec == Init /\ [][Next]_vars

(* The owner of the queue calls run from a timer, again and again, and the *)
(* redis service keeps executing what it is sent.                          *)
Fairness == WF_vars(Flush) /\ \A k \in Keys : WF_vars(RedisExecute(k))

FairSpec == Spec /\ Fairness

-----------------------------------------------------------------------------
(* Types of the variables of redisPersistence.lua and of its environment.  *)
TypeOK ==
  /\ queue \in Seq(Keys)
  /\ DOMAIN mapValue = Keys /\ \A k \in Keys : mapValue[k] \in InfoOf(k)
  /\ DOMAIN net = Keys /\ \A k \in Keys : net[k] \in Seq(CmdsOf(k) \cup Reads)
  /\ redis \in Contents
  /\ settled \in Contents
  /\ DOMAIN calls = Callers

(* run pops a key and indexes mapValue with it, with no nil check: the     *)
(* queue must hold every pending key, each once, and no other.             *)
QueueMatchesMap ==
  /\ \A i, j \in 1..Len(queue) : queue[i] = queue[j] => i = j
  /\ \A k \in Keys : mapValue[k] # NoInfo <=> \E i \in 1..Len(queue) : queue[i] = k

(* Both: run can rely on the queue and the entries it takes.               *)
QueueIsSound == TypeOK /\ QueueMatchesMap

(* redisPersistence.get yields while redis answers, yet what it returns is *)
(* what the key held when it was called, even though writes of that key    *)
(* were still on their way; a failed call gives nil instead.               *)
GetIsCurrent ==
  \A c \in Callers :
    calls[c].state = "done" /\ calls[c].key \in StringKeys
      => calls[c].reply \in {calls[c].start, Nothing}

(* getAll has no such guarantee (the TODOS in it says so).  What it may    *)
(* miss is bounded: exactly the fields the pending entry touched.          *)
Touched(info) ==
  CASE info.rtype = "none" -> {}
    [] OTHER -> IF info.isAll THEN Fields
                ELSE info.delFields \cup {f \in Fields : info.kv[f] # Nothing}

GetAllMissesOnlyPending ==
  \A c \in Callers :
    calls[c].state = "done" /\ calls[c].key \in HashKeys
      => \/ calls[c].reply = EmptyHash
         \/ \A f \in Fields \ Touched(calls[c].info) : calls[c].reply[f] = calls[c].start[f]

(* The auxiliary variable means what it is said to mean: executing the     *)
(* commands in flight, in the order sent, takes redis to `settled`.  It    *)
(* rests on redisLib sending every command of a key to one service.        *)
SettledIsWhatRedisReaches ==
  \A k \in Keys :
    settled[k] = FoldLeft(LAMBDA c, cmd : Execute(k, c, cmd), redis[k], net[k])

(* What get and getAll promise, by that meaning of what redis will hold.   *)
ReadsAreCurrent == SettledIsWhatRedisReaches /\ GetIsCurrent /\ GetAllMissesOnlyPending

(* A key that becomes pending is sent in a bounded number of flushes, even *)
(* when it is updated again and again: an update never moves it back.      *)
PendingIsFlushed == \A k \in Keys : mapValue[k] # NoInfo ~> mapValue[k] = NoInfo

(* Coalescing is invisible: each operation has, on what redis will hold,   *)
(* exactly the effect it has on the plain table, and no step but an        *)
(* operation and a crash has any.  The operations are compared one by one: *)
(* that some operation of the table explains a step is not enough, since a *)
(* lost update would pass for no step at all.                              *)
KV == INSTANCE KeyValueStore WITH store <- View

SameOperation ==
  /\ \A k \in StringKeys :
       /\ deleteKey(k) => KV!DeleteString(k)
       /\ \A v \in Vals : pushString(k, v) => KV!SetString(k, v)
  /\ \A k \in HashKeys :
       /\ deleteHashAll(k) => KV!DeleteHash(k)
       /\ \A f \in Fields : deleteHashField(k, f) => KV!DeleteField(k, f)
       /\ \A values \in [Fields -> Value] : pushHash(k, values) => KV!SetFields(k, values)
  /\ Update \/ (Crash /\ KV!Crash) \/ UNCHANGED View

ImplementsStore == KV!Init /\ [][SameOperation]_vars
=============================================================================
