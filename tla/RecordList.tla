----------------------------- MODULE RecordList -----------------------------
(***************************************************************************)
(* liblua/recordListMgr.lua: the last records of every player, in the      *)
(* database and, once they are asked for, in memory.                       *)
(*                                                                         *)
(* The functions that reach the database are left to a class that extends  *)
(* this one.  They are external: what is written is sent, a query waits    *)
(* for its answer, and the database does both in the order sent, so that   *)
(* an answer has what was there when the query was sent.                   *)
(*                                                                         *)
(* A record is its id.  map and list of a player hold the same ids, and    *)
(* the model has one list for both.                                        *)
(***************************************************************************)
EXTENDS Naturals, Sequences, FiniteSets, SequencesExt

CONSTANTS
  Uids, Callers,
  limit,
  FirstId,       \* the autoId the manager is made with
  MaxId,         \* bound on the ids
  nil

LimitAssumption == limit \in Nat \ {0}
nilAssumption == nil \notin Seq(Nat) \cup [Uids -> Seq(Nat) \cup {nil}]
IdAssumption == FirstId \in Nat /\ MaxId \in Nat /\ FirstId <= MaxId

VARIABLES
  uidMap,      \* the lists in memory; nil after clean
  autoId, _relaseTag,
  lock_tb,     \* for each player, who is in its queue, the first of them inside
  calls,       \* the calls that wait
  db,          \* the database (external)
  added,       \* history: the records of a player, in the order they came
  crossed      \* history: the lists that were loaded while their records changed
vars == <<uidMap, autoId, _relaseTag, lock_tb, calls, db, added, crossed>>

Idle == [state |-> "idle"]
InOrder(list) == \A i, j \in 1..Len(list) : i < j => list[i] < list[j]
Ascending(ids) ==
  CHOOSE list \in [1..Cardinality(ids) -> ids] : InOrder(list) /\ ToSet(list) = ids
_getDefultPlayer == <<>>

Init ==
  /\ autoId = FirstId /\ _relaseTag = FALSE
  /\ \E owner \in [1..FirstId -> Uids] :
       db = [uid \in Uids |-> {rid \in 1..FirstId : owner[rid] = uid}]
  /\ added = [uid \in Uids |-> Ascending(db[uid])]
  /\ uidMap = [uid \in Uids |-> nil] /\ crossed = {}
  /\ lock_tb = [uid \in Uids |-> <<>>] /\ calls = [c \in Callers |-> Idle]

-----------------------------------------------------------------------------
(* The calls that wait for the records of this player.                     *)
Asks(c, uid) == calls[c].state = "asked" /\ uid \in DOMAIN calls[c].reply

(* Records of a player change in the database while others ask for them.   *)
Overtake(uid) ==
  [c \in Callers |-> IF Asks(c, uid) THEN [calls[c] EXCEPT !.late = @ \cup {uid}] ELSE calls[c]]

addRecord(uid) ==
  /\ ~_relaseTag /\ autoId < MaxId
  /\ autoId' = autoId + 1
  /\ LET list == IF uidMap[uid] = nil THEN <<>> ELSE Append(uidMap[uid], autoId')
         removed == IF Len(list) > limit THEN {list[1]} ELSE {} IN
     /\ uidMap' = [uidMap EXCEPT ![uid] = IF @ = nil THEN nil
                                          ELSE IF removed # {} THEN Tail(list) ELSE list]
     /\ db' = [db EXCEPT ![uid] = (@ \ removed) \cup {autoId'}]
  /\ added' = [added EXCEPT ![uid] = Append(@, autoId')]
  /\ calls' = Overtake(uid)
  /\ UNCHANGED <<_relaseTag, lock_tb, crossed>>

releaseRecords(uid) ==
  /\ uidMap # nil /\ uidMap' = [uidMap EXCEPT ![uid] = nil]
  /\ UNCHANGED <<autoId, _relaseTag, lock_tb, calls, db, added, crossed>>

clean ==
  /\ _relaseTag' = TRUE /\ uidMap' = nil
  /\ db' = [uid \in Uids |-> {}]
  /\ UNCHANGED <<autoId, lock_tb, calls, added, crossed>>

-----------------------------------------------------------------------------
(* preLoadAll asks for everything, and does not look again when it has it. *)
preLoadAll(c) ==
  /\ calls[c] = Idle /\ ~_relaseTag
  /\ calls' = [calls EXCEPT ![c] = [state |-> "asked", all |-> TRUE, reply |-> db, late |-> {}]]
  /\ UNCHANGED <<uidMap, autoId, _relaseTag, lock_tb, db, added, crossed>>

preLoadAllReturns(c) ==
  /\ calls[c].state = "asked" /\ calls[c].all
  /\ uidMap' = [uid \in Uids |-> IF calls[c].reply[uid] = {} THEN nil
                                 ELSE Ascending(calls[c].reply[uid])]
  /\ crossed' = calls[c].late
  /\ calls' = [calls EXCEPT ![c] = Idle]
  /\ UNCHANGED <<autoId, _relaseTag, lock_tb, db, added>>

(* getRecords and preLoadRecords return at once when there is a list; if   *)
(* not they lock the player and load it.                                   *)
Query(c, uid) ==
  calls' = [calls EXCEPT ![c] = [state |-> "asked", all |-> FALSE, late |-> {},
                                 reply |-> [u \in {uid} |-> db[uid]]]]

getRecords(c, uid) ==
  /\ calls[c] = Idle /\ ~_relaseTag /\ uidMap[uid] = nil
  /\ lock_tb' = [lock_tb EXCEPT ![uid] = Append(@, c)]
  /\ IF lock_tb[uid] = <<>> THEN Query(c, uid)
     ELSE calls' = [calls EXCEPT ![c] = [state |-> "waiting", uid |-> uid]]
  /\ UNCHANGED <<uidMap, autoId, _relaseTag, db, added, crossed>>

unlock(c, uid) == lock_tb' = [lock_tb EXCEPT ![uid] = Tail(@)]

(* The queue lets the next one in, who looks again.                        *)
_loadRecords(c) ==
  /\ calls[c].state = "waiting" /\ Head(lock_tb[calls[c].uid]) = c
  /\ LET uid == calls[c].uid IN
     IF _relaseTag \/ uidMap[uid] # nil
     THEN unlock(c, uid) /\ calls' = [calls EXCEPT ![c] = Idle]
     ELSE Query(c, uid) /\ UNCHANGED lock_tb
  /\ UNCHANGED <<uidMap, autoId, _relaseTag, db, added, crossed>>

(* Mutant: the oldest are kept.                                            *)
buildDataOldest(ids) ==
  LET list == Ascending(ids)
      kept == SubSeq(list, 1, IF Len(list) > limit THEN limit ELSE Len(list)) IN
  [list |-> kept, rmIds |-> ids \ ToSet(kept)]

(* The last records are kept, the others deleted.                          *)
buildData(ids) ==
  LET list == Ascending(ids)
      kept == SubSeq(list, IF Len(list) > limit THEN Len(list) - limit + 1 ELSE 1, Len(list)) IN
  [list |-> kept, rmIds |-> ids \ ToSet(kept)]

(* The answer is nil, or the query raises an error, which procssLockRet    *)
(* logs: nothing is kept of it.                                            *)
queryFails(c) ==
  /\ calls[c].state = "asked" /\ ~calls[c].all
  /\ \E uid \in DOMAIN calls[c].reply : unlock(c, uid)
  /\ calls' = [calls EXCEPT ![c] = Idle]
  /\ UNCHANGED <<uidMap, autoId, _relaseTag, db, added, crossed>>

queryReturns(c) ==
  /\ calls[c].state = "asked" /\ ~calls[c].all
  /\ \E uid \in DOMAIN calls[c].reply :
       LET data == buildData(calls[c].reply[uid]) IN
       /\ unlock(c, uid)
       /\ IF _relaseTag THEN UNCHANGED <<uidMap, db, crossed>>
          ELSE /\ uidMap' = [uidMap EXCEPT ![uid] = data.list]
               /\ db' = [db EXCEPT ![uid] = @ \ data.rmIds]
               /\ crossed' = (crossed \ {uid}) \cup calls[c].late
       /\ calls' = [IF _relaseTag \/ data.rmIds = {} THEN calls ELSE Overtake(uid)
                      EXCEPT ![c] = Idle]
  /\ UNCHANGED <<autoId, _relaseTag, added>>

Next ==
  \/ \E uid \in Uids : addRecord(uid) \/ releaseRecords(uid)
  \/ clean
  \/ \E c \in Callers :
       \/ preLoadAll(c) \/ preLoadAllReturns(c)
       \/ \E uid \in Uids : getRecords(c, uid)
       \/ _loadRecords(c) \/ queryReturns(c) \/ queryFails(c)

Spec == Init /\ [][Next]_vars

-----------------------------------------------------------------------------
TypeOK ==
  /\ uidMap = nil \/ \A uid \in Uids : uidMap[uid] = nil \/ uidMap[uid] \in Seq(1..MaxId)
  /\ autoId \in FirstId..MaxId /\ _relaseTag \in BOOLEAN
  /\ \A uid \in Uids : db[uid] \subseteq 1..autoId
  /\ crossed \subseteq Uids
  /\ \A c \in Callers : calls[c].state \in {"idle", "waiting", "asked"}

(* A list in memory has exactly the records that the database has, in      *)
(* their order: what leaves one leaves the other.  This fails when records *)
(* come while they are being loaded, of which addRecord knows nothing: they*)
(* are in the database alone until the list is released.                   *)
MemoryIsDatabase ==
  ~_relaseTag => \A uid \in Uids \ crossed :
    uidMap[uid] # nil => uidMap[uid] = Ascending(db[uid])

(* Even then the last records of a player stay in the database, and none   *)
(* of somebody else's gets there.                                          *)
Newest(uid) == LET n == Len(added[uid]) IN SubSeq(added[uid], IF n > limit THEN n - limit + 1 ELSE 1, n)
NewestAreKept ==
  ~_relaseTag => \A uid \in Uids : ToSet(Newest(uid)) \subseteq db[uid] /\ db[uid] \subseteq ToSet(added[uid])

(* After clean nothing comes back: what was on its way is not written, and *)
(* nobody loads again.                                                     *)
CleanIsFinal == _relaseTag => \A uid \in Uids : db[uid] = {}

(* One caller at a time loads a player.                                    *)
OneLoads ==
  \A uid \in Uids : Cardinality({c \in Callers : Asks(c, uid) /\ ~calls[c].all}) <= 1

(* All of these.                                                           *)
RecordsAreRight == TypeOK /\ MemoryIsDatabase /\ NewestAreKept /\ CleanIsFinal /\ OneLoads
=============================================================================
