----------------------- MODULE RedisPersistenceProofs -----------------------
(***************************************************************************)
(* Proofs about RedisPersistence, for every set of keys, fields, contents  *)
(* and callers and every bound:                                            *)
(*   TypeCorrect       Spec => []TypeOK                                    *)
(*   QueueCorrect      Spec => []QueueMatchesMap                           *)
(*   SoundCorrect      Spec => []QueueIsSound, which is both               *)
(*   Refinement        Spec => ImplementsStore                             *)
(*   BehavesLikeStore  Spec => KV!Spec                                     *)
(*   ReadsCorrect      Spec => []ReadsAreCurrent                           *)
(*   CrashCorrect      DSpec => []CrashCostsOnlyRecent                     *)
(* The inductive invariant of the first ones is TypeOK /\ QueueMatchesMap. *)
(* Neither half is inductive alone: that the commands of a popped key are  *)
(* well typed needs the key to have an entry.                              *)
(*                                                                         *)
(* The last two speak of contents that redis does not have yet, and        *)
(* ReadsCorrect of how far a reader's request has come among the commands  *)
(* of its key.  Their inductive invariants therefore say, of each key,     *)
(* that there is a run h: the contents redis[k] = h[0], h[1], ... the key  *)
(* goes through as the commands in net[k] are executed, which end in       *)
(* settled[k]; ReadsInv and CrashInv then say what holds at each of its    *)
(* positions.                                                              *)
(***************************************************************************)
EXTENDS RedisDurability, SequenceTheorems, FiniteSetTheorems,
        WellFoundedInduction, NaturalsInduction, TLAPS

(* A content of a key is what its kind of key holds.                       *)
LEMMA ContentsIsPerKey ==
  ASSUME NEW s
  PROVE s \in Contents
          <=> s = [k \in Keys |-> s[k]] /\ \A k \in Keys : s[k] \in Content(k)
  <1>1. \A k \in Keys : Content(k) \subseteq Stored \cup [Fields -> Stored]
    BY DEF Content
  <1> QED
    BY <1>1 DEF Contents

(* Encoding yields fields redis can hold.                                  *)
LEMMA EncodedType ==
  ASSUME NEW kv \in [Fields -> Value]
  PROVE Encoded(kv) \in [Fields -> Stored]
  BY DEF Encoded, Stored, Good

(* A pending entry is flushed as at most two commands of its kind of key.  *)
LEMMA CommandsType ==
  ASSUME NEW k \in Keys, NEW info \in InfoOf(k), info # NoInfo
  PROVE Commands(info) \in Seq(CmdsOf(k)) /\ Len(Commands(info)) \in 0..2
  <1>1. CASE k \in StringKeys
    <2>1. info \in StringInfo
      BY <1>1 DEF InfoOf
    <2>2. Delete \in StringCmds
          /\ (info.value \in Good => SetCmd(info.value) \in StringCmds)
      BY DEF StringCmds
    <2>3. DoString(info) \in Seq(StringCmds) /\ Len(DoString(info)) \in 0..2
      BY <2>2 DEF DoString
    <2> QED
      BY <1>1, <2>1, <2>3 DEF Commands, CmdsOf, StringInfo
  <1>2. CASE k \notin StringKeys
    <2>1. info \in HashInfo
      BY <1>2 DEF InfoOf
    <2>2. Encoded(info.kv) \in [Fields -> Stored] /\ info.delFields \in SUBSET Fields
      BY <2>1, EncodedType DEF HashInfo
    <2>3. Delete \in HashCmds /\ HMDel(info.delFields) \in HashCmds
          /\ HMSet(Encoded(info.kv)) \in HashCmds
      BY <2>2 DEF HashCmds
    <2>4. DoHash(info) \in Seq(HashCmds) /\ Len(DoHash(info)) \in 0..2
      BY <2>3 DEF DoHash
    <2> QED
      BY <1>2, <2>1, <2>4 DEF Commands, CmdsOf, HashInfo
  <1> QED
    BY <1>1, <1>2

(* A command of a key takes contents of that key to contents of that key.  *)
LEMMA ExecuteType ==
  ASSUME NEW k \in Keys, NEW c \in Content(k), NEW cmd \in CmdsOf(k)
  PROVE Execute(k, c, cmd) \in Content(k)
  <1>1. CASE k \in StringKeys
    BY <1>1 DEF Content, CmdsOf, StringCmds, Execute, Delete, SetCmd, Absent, Stored
  <1>2. CASE k \notin StringKeys
    <2>1. CASE cmd = Delete
      BY <1>2, <2>1 DEF Content, Execute, Delete, Absent, EmptyHash, Stored
    <2>2. ASSUME NEW S \in SUBSET Fields, cmd = HMDel(S)
          PROVE Execute(k, c, cmd) \in Content(k)
      BY <1>2, <2>2 DEF Content, Execute, HMDel, Stored
    <2>3. ASSUME NEW kv \in [Fields -> Stored], cmd = HMSet(kv)
          PROVE Execute(k, c, cmd) \in Content(k)
      BY <1>2, <2>3 DEF Content, Execute, HMSet
    <2> QED
      BY <1>2, <2>1, <2>2, <2>3 DEF CmdsOf, HashCmds
  <1> QED
    BY <1>1, <1>2

LEMMA ExecuteReadType ==
  ASSUME NEW k \in Keys, NEW c \in Content(k), NEW cmd \in Reads
  PROVE Execute(k, c, cmd) = c
  BY DEF Reads, Read, Execute

LEMMA ExecuteAllType ==
  ASSUME NEW k \in Keys, NEW c \in Content(k), NEW cmds \in Seq(CmdsOf(k)),
         Len(cmds) \in 0..2
  PROVE ExecuteAll(k, c, cmds) \in Content(k)
  <1>1. CASE Len(cmds) = 0
    BY <1>1 DEF ExecuteAll
  <1>2. CASE Len(cmds) = 1
    <2>1. cmds[1] \in CmdsOf(k)
      BY <1>2, ElementOfSeq
    <2> QED
      BY <1>2, <2>1, ExecuteType DEF ExecuteAll
  <1>3. CASE Len(cmds) = 2
    <2>1. 1 \in 1..Len(cmds) /\ 2 \in 1..Len(cmds)
      BY <1>3
    <2>2. cmds[1] \in CmdsOf(k) /\ cmds[2] \in CmdsOf(k)
      BY <2>1, ElementOfSeq
    <2>3. Execute(k, c, cmds[1]) \in Content(k)
      BY <2>2, ExecuteType
    <2> QED
      BY <1>3, <2>2, <2>3, ExecuteType DEF ExecuteAll
  <1> QED
    BY <1>1, <1>2, <1>3

-----------------------------------------------------------------------------
(* Every update is Pend of a key and an entry of its kind.                 *)
LEMMA UpdateIsPend ==
  ASSUME TypeOK, Update
  PROVE \E k \in Keys : \E info \in InfoOf(k) : info # NoInfo /\ Pend(k, info)
  <1>1. ASSUME NEW k \in StringKeys,
               deleteKey(k) \/ \E v \in Vals : pushString(k, v)
        PROVE \E info \in InfoOf(k) : info # NoInfo /\ Pend(k, info)
    BY <1>1 DEF deleteKey, pushString, InfoOf, StringInfo, NoInfo, Value
  <1>2. ASSUME NEW k \in HashKeys,
               \/ deleteHashAll(k)
               \/ \E f \in Fields : deleteHashField(k, f)
               \/ \E values \in [Fields -> Value] : pushHash(k, values)
        PROVE \E info \in InfoOf(k) : info # NoInfo /\ Pend(k, info)
    <2>1. k \in Keys /\ k \notin StringKeys
      BY KeyAssumption DEF Keys
    <2>2. NewHashInfo \in HashInfo
      BY DEF NewHashInfo, HashInfo, EmptyHash, Value
    <2>3. Pending(k) \in HashInfo
      BY <2>1, <2>2 DEF Pending, TypeOK, InfoOf
    <2>4. CASE deleteHashAll(k)
      <3>1. [NewHashInfo EXCEPT !.isAll = TRUE] \in HashInfo
        BY <2>2 DEF HashInfo
      <3> QED
        BY <2>1, <2>4, <3>1 DEF deleteHashAll, InfoOf, HashInfo, NoInfo
    <2>5. ASSUME NEW f \in Fields, deleteHashField(k, f)
          PROVE \E info \in InfoOf(k) : info # NoInfo /\ Pend(k, info)
      <3>1. DropField(Pending(k), f) \in HashInfo
        BY <2>3 DEF DropField, HashInfo, Value
      <3> QED
        BY <2>1, <2>5, <3>1 DEF deleteHashField, InfoOf, HashInfo, NoInfo
    <2>6. ASSUME NEW values \in [Fields -> Value], pushHash(k, values)
          PROVE \E info \in InfoOf(k) : info # NoInfo /\ Pend(k, info)
      <3>1. MergeHash(Pending(k), values) \in HashInfo
        BY <2>3 DEF MergeHash, HashInfo
      <3> QED
        BY <2>1, <2>6, <3>1 DEF pushHash, InfoOf, HashInfo, NoInfo
    <2> QED
      BY <1>2, <2>4, <2>5, <2>6
  <1> QED
    BY <1>1, <1>2 DEF Update, Keys

(* An update keeps the queue and the table of pending entries in step.     *)
LEMMA PendInvariant ==
  ASSUME TypeOK, QueueMatchesMap,
         NEW k \in Keys, NEW info \in InfoOf(k), info # NoInfo, Pend(k, info)
  PROVE TypeOK' /\ QueueMatchesMap'
  <1>1. queue' \in Seq(Keys)
    BY DEF TypeOK, Pend
  <1>2. TypeOK'
    BY <1>1 DEF TypeOK, Pend
  <1>3. CASE mapValue[k] = NoInfo
    <2>1. queue' = Append(queue, k) /\ Len(queue') = Len(queue) + 1
          /\ \A i \in 1..Len(queue) : queue'[i] = queue[i]
          /\ queue'[Len(queue) + 1] = k /\ Len(queue) \in Nat
      BY <1>3, AppendProperties, LenProperties DEF Pend, TypeOK
    <2>2. \A i \in 1..Len(queue) : queue[i] # k
      BY <1>3 DEF QueueMatchesMap
    <2>3. \A i, j \in 1..Len(queue') : queue'[i] = queue'[j] => i = j
      BY <2>1, <2>2 DEF QueueMatchesMap
    <2>4. ASSUME NEW q \in Keys
          PROVE mapValue'[q] # NoInfo <=> \E i \in 1..Len(queue') : queue'[i] = q
      <3>1. (\E i \in 1..Len(queue') : queue'[i] = q)
              <=> q = k \/ \E i \in 1..Len(queue) : queue[i] = q
        BY <2>1
      <3>2. mapValue'[q] # NoInfo <=> q = k \/ mapValue[q] # NoInfo
        BY DEF Pend, TypeOK
      <3> QED
        BY <3>1, <3>2 DEF QueueMatchesMap
    <2> QED
      BY <1>2, <2>3, <2>4 DEF QueueMatchesMap
  <1>4. CASE mapValue[k] # NoInfo
    <2>1. \A q \in Keys : mapValue'[q] # NoInfo <=> mapValue[q] # NoInfo
      BY <1>4 DEF Pend, TypeOK
    <2> QED
      BY <1>2, <1>4, <2>1 DEF QueueMatchesMap, Pend
  <1> QED
    BY <1>3, <1>4

(* A flush pops the first `count` keys: what it leaves is what was behind  *)
(* them, and each popped key had an entry of its kind.                     *)
LEMMA FlushInvariant ==
  ASSUME TypeOK, QueueMatchesMap, NEW count \in 1..Len(queue), run(count)
  PROVE TypeOK' /\ QueueMatchesMap'
  <1>1. Len(queue) \in Nat /\ \A i \in 1..Len(queue) : queue[i] \in Keys
    BY ElementOfSeq, LenProperties DEF TypeOK
  <1>2. queue' \in Seq(Keys) /\ Len(queue') = Len(queue) - count
        /\ \A i \in 1..Len(queue') : queue'[i] = queue[i + count]
    <2>1. \A i \in count + 1 .. Len(queue) : queue[i] \in Keys
      BY <1>1
    <2>2. queue' = SubSeq(queue, count + 1, Len(queue)) /\ count + 1 \in Int
      BY <1>1 DEF run
    <2> QED
      BY <1>1, <2>1, <2>2, SubSeqProperties
  <1>3. \A k \in Popped(count) : k \in Keys /\ mapValue[k] # NoInfo
    BY <1>1 DEF Popped, QueueMatchesMap
  <1>4. ASSUME NEW k \in Popped(count)
        PROVE Commands(mapValue[k]) \in Seq(CmdsOf(k))
              /\ ExecuteAll(k, settled[k], Commands(mapValue[k])) \in Content(k)
    <2>1. k \in Keys /\ mapValue[k] \in InfoOf(k) /\ mapValue[k] # NoInfo
      BY <1>3 DEF TypeOK
    <2>2. settled[k] \in Content(k)
      BY <2>1, ContentsIsPerKey DEF TypeOK
    <2>3. Commands(mapValue[k]) \in Seq(CmdsOf(k)) /\ Len(Commands(mapValue[k])) \in 0..2
      BY <2>1, CommandsType
    <2> QED
      BY <2>1, <2>2, <2>3, ExecuteAllType
  <1>5. TypeOK'
    <2>1. DOMAIN mapValue' = Keys /\ \A k \in Keys : mapValue'[k] \in InfoOf(k)
      BY DEF run, TypeOK, InfoOf
    <2>2. ASSUME NEW k \in Keys
          PROVE net'[k] \in Seq(CmdsOf(k) \cup Reads)
      <3>1. k \in Popped(count)
              => Commands(mapValue[k]) \in Seq(CmdsOf(k) \cup Reads)
        BY <1>4, SeqMonotonic
      <3>2. net[k] \in Seq(CmdsOf(k) \cup Reads)
        BY DEF TypeOK
      <3> QED
        BY <3>1, <3>2, ConcatProperties DEF run
    <2>3. settled' \in Contents
      <3>1. \A k \in Keys : settled[k] \in Content(k)
        BY ContentsIsPerKey DEF TypeOK
      <3>2. settled' = [k \in Keys |-> settled'[k]]
        BY DEF run
      <3>3. \A k \in Keys : settled'[k] \in Content(k)
        BY <1>4, <3>1 DEF run
      <3> QED
        BY <3>2, <3>3, ContentsIsPerKey
    <2>4. DOMAIN net' = Keys /\ redis' \in Contents /\ DOMAIN calls' = Callers
        
      BY DEF run, TypeOK
    <2> QED
      BY <1>2, <2>1, <2>2, <2>3, <2>4 DEF TypeOK
  <1>6. QueueMatchesMap'
    <2>1. \A i, j \in 1..Len(queue') : queue'[i] = queue'[j] => i = j
      BY <1>1, <1>2 DEF QueueMatchesMap
    <2>2. ASSUME NEW k \in Keys
          PROVE mapValue'[k] # NoInfo <=> \E i \in 1..Len(queue') : queue'[i] = k
      <3>1. mapValue'[k] # NoInfo <=> mapValue[k] # NoInfo /\ k \notin Popped(count)
        BY DEF run
      <3>2. (\E i \in 1..Len(queue') : queue'[i] = k)
              <=> \E i \in count + 1 .. Len(queue) : queue[i] = k
        <4>1. ASSUME NEW i \in 1..Len(queue'), queue'[i] = k
              PROVE \E j \in count + 1 .. Len(queue) : queue[j] = k
          <5>1. i + count \in count + 1 .. Len(queue) /\ queue[i + count] = k
            BY <1>1, <1>2, <4>1
          <5> QED
            BY <5>1
        <4>2. ASSUME NEW j \in count + 1 .. Len(queue), queue[j] = k
              PROVE \E i \in 1..Len(queue') : queue'[i] = k
          <5>1. j - count \in 1..Len(queue') /\ queue'[j - count] = queue[j]
            BY <1>1, <1>2
          <5> QED
            BY <4>2, <5>1
        <4> QED
          BY <4>1, <4>2
      <3>3. (\E i \in count + 1 .. Len(queue) : queue[i] = k)
              <=> k \notin Popped(count) /\ \E i \in 1..Len(queue) : queue[i] = k
        BY <1>1 DEF QueueMatchesMap, Popped
      <3> QED
        BY <3>1, <3>2, <3>3 DEF QueueMatchesMap
    <2> QED
      BY <2>1, <2>2 DEF QueueMatchesMap
  <1> QED
    BY <1>5, <1>6

(* The steps of the environment keep the types; they leave queue and       *)
(* mapValue alone.                                                         *)
LEMMA SendReadType ==
  ASSUME TypeOK, NEW c \in Callers, NEW k \in Keys, SendRead(c, k)
  PROVE TypeOK'
  <1>1. Read(c) \in CmdsOf(k) \cup Reads
    BY DEF Reads
  <1>2. Append(net[k], Read(c)) \in Seq(CmdsOf(k) \cup Reads)
    BY <1>1, AppendProperties DEF TypeOK
  <1>3. DOMAIN net' = Keys /\ \A q \in Keys : net'[q] \in Seq(CmdsOf(q) \cup Reads)
    BY <1>2 DEF SendRead, TypeOK
  <1> QED
    BY <1>3 DEF SendRead, TypeOK

LEMMA ReceiveType ==
  ASSUME TypeOK, NEW k \in Keys, RedisExecute(k) \/ ReadFails(k)
  PROVE TypeOK'
  <1>1. Head(net[k]) \in CmdsOf(k) \cup Reads /\ Tail(net[k]) \in Seq(CmdsOf(k) \cup Reads)
    BY HeadTailProperties DEF TypeOK, RedisExecute, ReadFails
  <1>2. DOMAIN net' = Keys /\ \A q \in Keys : net'[q] \in Seq(CmdsOf(q) \cup Reads)
    BY <1>1 DEF RedisExecute, ReadFails, TypeOK
  <1>3. redis' \in Contents
    <2>1. redis = [q \in Keys |-> redis[q]] /\ \A q \in Keys : redis[q] \in Content(q)
      BY ContentsIsPerKey DEF TypeOK
    <2>2. Execute(k, redis[k], Head(net[k])) \in Content(k)
      BY <1>1, <2>1, ExecuteType, ExecuteReadType
    <2>3. redis' = [q \in Keys |-> redis'[q]] /\ \A q \in Keys : redis'[q] \in Content(q)
      BY <2>1, <2>2 DEF RedisExecute, ReadFails
    <2> QED
      BY <2>3, ContentsIsPerKey
  <1>4. DOMAIN calls' = Callers
    BY DEF RedisExecute, ReadFails, TypeOK
  <1> QED
    BY <1>2, <1>3, <1>4 DEF RedisExecute, ReadFails, TypeOK

-----------------------------------------------------------------------------
LEMMA InitInvariant ==
  ASSUME Init
  PROVE TypeOK /\ QueueMatchesMap
  <1>1. queue = <<>> /\ Len(queue) = 0
    BY DEF Init
  <1>2. DOMAIN net = Keys /\ \A k \in Keys : net[k] \in Seq(CmdsOf(k) \cup Reads)
    BY EmptySeq DEF Init
  <1>3. TypeOK
    BY <1>1, <1>2, EmptySeq DEF Init, TypeOK, InfoOf
  <1>4. QueueMatchesMap
    BY <1>1 DEF Init, QueueMatchesMap
  <1> QED
    BY <1>3, <1>4

LEMMA NextInvariant ==
  ASSUME TypeOK, QueueMatchesMap, [Next]_vars
  PROVE TypeOK' /\ QueueMatchesMap'
  <1>1. CASE Update
    BY <1>1, UpdateIsPend, PendInvariant
  <1>2. CASE Flush
    BY <1>2, FlushInvariant DEF Flush
  <1>3. ASSUME NEW c \in Callers, NEW k \in Keys, get(c, k) \/ getAll(c, k)
        PROVE TypeOK' /\ QueueMatchesMap'
    <2>1. SendRead(c, k)
      BY <1>3 DEF get, getAll
    <2> QED
      BY <2>1, SendReadType DEF SendRead, QueueMatchesMap
  <1>4. ASSUME NEW c \in Callers, Resume(c)
        PROVE TypeOK' /\ QueueMatchesMap'
    BY <1>4 DEF Resume, TypeOK, QueueMatchesMap
  <1>5. ASSUME NEW k \in Keys, RedisExecute(k) \/ ReadFails(k)
        PROVE TypeOK' /\ QueueMatchesMap'
    BY <1>5, ReceiveType DEF RedisExecute, ReadFails, QueueMatchesMap
  <1>6. CASE Crash
    <2>1. queue' = <<>> /\ mapValue' = [k \in Keys |-> NoInfo] /\ net' = [k \in Keys |-> <<>>]
      BY <1>6 DEF Crash
    <2> QED
      BY <1>6, <2>1 DEF Crash, TypeOK, QueueMatchesMap, InfoOf
  <1>7. CASE UNCHANGED vars
    BY <1>7 DEF vars, TypeOK, QueueMatchesMap
  <1> QED
    BY <1>1, <1>2, <1>3, <1>4, <1>5, <1>6, <1>7 DEF Next, Keys

LEMMA Invariance == Spec => [](TypeOK /\ QueueMatchesMap)
  BY InitInvariant, NextInvariant, PTL DEF Spec

(* In every behaviour the variables keep their types.                      *)
THEOREM TypeCorrect == Spec => []TypeOK
  BY Invariance, PTL

(* run never pops a key that mapValue does not hold, and no pending key is *)
(* missing from the queue or in it twice.                                  *)
THEOREM QueueCorrect == Spec => []QueueMatchesMap
  BY Invariance, PTL

(* So run can rely on the queue, the entries and their types.              *)
THEOREM SoundCorrect == Spec => []QueueIsSound
  <1>1. TypeOK /\ QueueMatchesMap => QueueIsSound
    BY DEF QueueIsSound
  <1> QED
    BY <1>1, Invariance, PTL

-----------------------------------------------------------------------------
(* The abstract table.                                                     *)

LEMMA OverlayType ==
  ASSUME NEW k \in Keys, NEW info \in InfoOf(k), NEW c \in Content(k)
  PROVE Overlay(info, c) \in Content(k)
  <1>1. CASE info = NoInfo
    BY <1>1 DEF Overlay, NoInfo
  <1>2. CASE info # NoInfo /\ k \in StringKeys
    BY <1>2 DEF Overlay, InfoOf, StringInfo, Content, Stored
  <1>3. CASE info # NoInfo /\ k \notin StringKeys
    BY <1>3 DEF Overlay, InfoOf, HashInfo, Content, Stored
  <1> QED
    BY <1>1, <1>2, <1>3

LEMMA ConcatSingletons ==
  ASSUME NEW a, NEW b
  PROVE <<a>> \o <<b>> = <<a, b>> /\ <<>> \o <<b>> = <<b>>
  <1> DEFINE S == {a, b}
  <1>1. <<a>> \in Seq(S) /\ <<b>> \in Seq(S) /\ <<a, b>> \in Seq(S)
    OBVIOUS
  <1>2. <<>> \o <<b>> = <<b>>
    BY <1>1, ConcatEmptySeq
  <1>3. <<a>> \o <<b>> \in Seq(S) /\ Len(<<a>> \o <<b>>) = 2
        /\ (<<a>> \o <<b>>)[1] = a /\ (<<a>> \o <<b>>)[2] = b
    BY <1>1, ConcatProperties
  <1>4. <<a>> \o <<b>> = <<a, b>>
    <2>1. \A i \in 1..2 : (<<a>> \o <<b>>)[i] = <<a, b>>[i]
      BY <1>3
    <2> QED
      BY <1>1, <1>3, <2>1, SeqEqual
  <1> QED
    BY <1>2, <1>4

(* Sending what an entry holds has the effect the entry stands for: this   *)
(* is where the order of doHash matters.                                   *)
LEMMA FlushKeepsOverlay ==
  ASSUME NEW k \in Keys, NEW info \in InfoOf(k), info # NoInfo, NEW c \in Content(k)
  PROVE ExecuteAll(k, c, Commands(info)) = Overlay(info, c)
  <1>1. CASE k \in StringKeys
    <2>1. info \in StringInfo
      BY <1>1 DEF InfoOf
    <2>2. Commands(info) = DoString(info)
      BY <2>1 DEF Commands, StringInfo
    <2>3. CASE info.isAll
      BY <1>1, <2>1, <2>2, <2>3
         DEF DoString, ExecuteAll, Execute, Delete, Absent, Overlay, StringInfo
    <2>4. CASE ~info.isAll /\ info.value \in Good
      BY <1>1, <2>1, <2>2, <2>4
         DEF DoString, ExecuteAll, Execute, SetCmd, Overlay, StringInfo
    <2>5. CASE ~info.isAll /\ info.value \notin Good
      BY <1>1, <2>1, <2>2, <2>5 DEF DoString, ExecuteAll, Overlay, StringInfo
    <2> QED
      BY <2>3, <2>4, <2>5
  <1>2. CASE k \notin StringKeys
    <2> DEFINE first == IF info.isAll THEN <<Delete>>
                        ELSE IF info.delFields # {} THEN <<HMDel(info.delFields)>> ELSE <<>>
               second == IF info.kv # EmptyHash THEN <<HMSet(Encoded(info.kv))>> ELSE <<>>
               middle == [f \in Fields |-> IF info.isAll \/ f \in info.delFields
                                           THEN Nothing ELSE c[f]]
    <2>1. info \in HashInfo /\ c \in [Fields -> Stored]
      BY <1>2 DEF InfoOf, Content
    <2>2. Commands(info) = first \o second
      BY <2>1 DEF Commands, DoHash, HashInfo
    <2>0. info.kv # EmptyHash => second = <<HMSet(Encoded(info.kv))>>
      OBVIOUS
    <2> HIDE DEF second
    <2>3. Execute(k, c, Delete) = EmptyHash
      BY <1>2 DEF Execute, Delete, Absent
    <2>4. Execute(k, c, HMDel(info.delFields))
            = [f \in Fields |-> IF f \in info.delFields THEN Nothing ELSE c[f]]
      BY DEF Execute, HMDel
    <2>5. \A d : Execute(k, d, HMSet(Encoded(info.kv)))
                  = [f \in Fields |-> IF info.kv[f] \in Good THEN info.kv[f] ELSE d[f]]
      BY ValueAssumption DEF Execute, HMSet, Encoded, Good
    <2>6. Overlay(info, c)
            = [f \in Fields |-> IF info.kv[f] \in Good THEN info.kv[f] ELSE middle[f]]
      BY <2>1 DEF Overlay, HashInfo
    <2>7. info.kv = EmptyHash => Overlay(info, c) = middle
      BY <2>6, ValueAssumption DEF EmptyHash, Good
    <2>8. CASE info.isAll
      <3>1. middle = EmptyHash /\ first = <<Delete>>
        BY <2>8 DEF EmptyHash
      <3>2. CASE info.kv = EmptyHash
        <4>1. Commands(info) = <<Delete>>
          BY <2>2, <3>1, <3>2 DEF second
        <4> QED
          BY <2>3, <2>7, <3>1, <3>2, <4>1 DEF ExecuteAll
      <3>3. CASE info.kv # EmptyHash
        <4>1. Commands(info) = <<Delete, HMSet(Encoded(info.kv))>>
          BY <2>0, <2>2, <3>1, <3>3, ConcatSingletons
        <4> QED
          BY <2>3, <2>5, <2>6, <3>1, <4>1 DEF ExecuteAll
      <3> QED
        BY <3>2, <3>3
    <2>9. CASE ~info.isAll /\ info.delFields # {}
      <3>1. Execute(k, c, HMDel(info.delFields)) = middle
            /\ first = <<HMDel(info.delFields)>>
        BY <2>4, <2>9
      <3>2. CASE info.kv = EmptyHash
        <4>1. Commands(info) = <<HMDel(info.delFields)>>
          BY <2>2, <3>1, <3>2 DEF second
        <4> QED
          BY <2>7, <3>1, <3>2, <4>1 DEF ExecuteAll
      <3>3. CASE info.kv # EmptyHash
        <4>1. Commands(info) = <<HMDel(info.delFields), HMSet(Encoded(info.kv))>>
          BY <2>0, <2>2, <3>1, <3>3, ConcatSingletons
        <4> QED
          BY <2>5, <2>6, <3>1, <4>1 DEF ExecuteAll
      <3> QED
        BY <3>2, <3>3
    <2>10. CASE ~info.isAll /\ info.delFields = {}
      <3>1. middle = c /\ first = <<>>
        BY <2>1, <2>10
      <3>2. CASE info.kv = EmptyHash
        <4>1. Commands(info) = <<>>
          BY <2>2, <3>1, <3>2 DEF second
        <4> QED
          BY <2>7, <3>1, <3>2, <4>1 DEF ExecuteAll
      <3>3. CASE info.kv # EmptyHash
        <4>1. Commands(info) = <<HMSet(Encoded(info.kv))>>
          BY <2>0, <2>2, <3>1, <3>3, ConcatSingletons
        <4> QED
          BY <2>5, <2>6, <3>1, <4>1 DEF ExecuteAll
      <3> QED
        BY <3>2, <3>3
    <2> QED
      BY <2>8, <2>9, <2>10
  <1> QED
    BY <1>1, <1>2

LEMMA ViewType ==
  ASSUME TypeOK
  PROVE View \in Contents
  <1>1. \A k \in Keys : View[k] \in Content(k)
    BY OverlayType, ContentsIsPerKey DEF TypeOK, View
  <1> QED
    BY <1>1, ContentsIsPerKey DEF View

LEMMA SameContents == KV!Contents = Contents
  BY DEF KV!Contents, Contents, KV!Content, Content, KV!Keys, Keys,
         KV!Stored, Stored, KV!Good, Good

(* An update changes the view of its key only, as the plain table does.    *)
LEMMA PendView ==
  ASSUME TypeOK, NEW k \in Keys, NEW info \in InfoOf(k), Pend(k, info)
  PROVE View' = [View EXCEPT ![k] = Overlay(info, settled[k])]
  BY DEF Pend, View, TypeOK

LEMMA StringRefinement ==
  ASSUME TypeOK, NEW k \in StringKeys
  PROVE /\ deleteKey(k) => KV!DeleteString(k)
        /\ \A v \in Vals : pushString(k, v) => KV!SetString(k, v)
  <1>1. k \in Keys /\ k \in KV!Keys
    BY DEF Keys, KV!Keys
  <1>2. settled[k] \in Stored
    BY <1>1, ContentsIsPerKey DEF TypeOK, Content
  <1>3. ASSUME deleteKey(k)
        PROVE KV!DeleteString(k)
    <2> DEFINE info == [rtype |-> "string", value |-> Nothing, isAll |-> TRUE]
    <2>1. info \in InfoOf(k) /\ Pend(k, info)
      BY <1>3 DEF deleteKey, InfoOf, StringInfo, Value
    <2>2. View' = [View EXCEPT ![k] = Overlay(info, settled[k])]
      BY <1>1, <2>1, PendView
    <2>3. Overlay(info, settled[k]) = Nothing
      BY DEF Overlay
    <2> QED
      BY <2>2, <2>3 DEF KV!DeleteString
  <1>4. ASSUME NEW v \in Vals, pushString(k, v)
        PROVE KV!SetString(k, v)
    <2> DEFINE info == [rtype |-> "string", value |-> v, isAll |-> FALSE]
               c == Overlay(info, settled[k])
    <2>1. info \in InfoOf(k) /\ Pend(k, info)
      BY <1>4 DEF pushString, InfoOf, StringInfo, Value
    <2>2. View' = [View EXCEPT ![k] = c]
      BY <1>1, <2>1, PendView
    <2>3. c \in KV!Stored /\ (v \in KV!Good => c = v)
      BY <1>2 DEF Overlay, KV!Stored, KV!Good, Stored, Good
    <2> QED
      BY <2>2, <2>3 DEF KV!SetString
  <1> QED
    BY <1>3, <1>4

LEMMA HashRefinement ==
  ASSUME TypeOK, NEW k \in HashKeys
  PROVE /\ deleteHashAll(k) => KV!DeleteHash(k)
        /\ \A f \in Fields : deleteHashField(k, f) => KV!DeleteField(k, f)
        /\ \A values \in [Fields -> Value] : pushHash(k, values) => KV!SetFields(k, values)
  <1>1. k \in Keys /\ k \notin StringKeys
    BY KeyAssumption DEF Keys
  <1>2. settled[k] \in [Fields -> Stored]
    BY <1>1, ContentsIsPerKey DEF TypeOK, Content
  <1>3. Pending(k) \in HashInfo
    BY <1>1 DEF Pending, TypeOK, InfoOf, NewHashInfo, HashInfo, EmptyHash, Value
  <1>4. View[k] = Overlay(Pending(k), settled[k])
    BY <1>1, <1>2, ValueAssumption
       DEF View, Pending, Overlay, NewHashInfo, EmptyHash, NoInfo, Good
  <1>5. \A info \in HashInfo :
          /\ info \in InfoOf(k)
          /\ Overlay(info, settled[k])
               = [f \in Fields |-> IF info.kv[f] \in Good THEN info.kv[f]
                                   ELSE IF info.isAll \/ f \in info.delFields THEN Nothing
                                   ELSE settled[k][f]]
    BY <1>1 DEF InfoOf, Overlay, HashInfo
  <1>6. ASSUME deleteHashAll(k)
        PROVE KV!DeleteHash(k)
    <2> DEFINE info == [NewHashInfo EXCEPT !.isAll = TRUE]
    <2>1. info \in HashInfo /\ info.isAll /\ info.kv = EmptyHash
      BY DEF NewHashInfo, HashInfo, EmptyHash, Value
    <2>2. View' = [View EXCEPT ![k] = Overlay(info, settled[k])]
      BY <1>1, <1>5, <1>6, <2>1, PendView DEF deleteHashAll
    <2>3. Overlay(info, settled[k]) = KV!EmptyHash
      BY <1>5, <2>1, ValueAssumption DEF EmptyHash, KV!EmptyHash, Good
    <2> QED
      BY <2>2, <2>3 DEF KV!DeleteHash
  <1>7. ASSUME NEW f \in Fields, deleteHashField(k, f)
        PROVE KV!DeleteField(k, f)
    <2> DEFINE old == Pending(k)
               info == DropField(old, f)
    <2>1. /\ info \in HashInfo
          /\ info.kv = [old.kv EXCEPT ![f] = Nothing]
          /\ info.isAll = old.isAll
          /\ info.delFields = IF old.isAll THEN old.delFields ELSE old.delFields \cup {f}
      BY <1>3 DEF DropField, HashInfo, Value
    <2>2. View' = [View EXCEPT ![k] = Overlay(info, settled[k])]
      BY <1>1, <1>5, <1>7, <2>1, PendView DEF deleteHashField
    <2>3. Overlay(info, settled[k]) = [Overlay(old, settled[k]) EXCEPT ![f] = Nothing]
      <3> HIDE DEF info, old
      <3>1. old \in HashInfo
        BY <1>3 DEF old
      <3>2. Nothing \notin Good
        BY ValueAssumption DEF Good
      <3>3. Overlay(old, settled[k])
              = [g \in Fields |-> IF old.kv[g] \in Good THEN old.kv[g]
                                  ELSE IF old.isAll \/ g \in old.delFields THEN Nothing
                                  ELSE settled[k][g]]
        BY <1>5, <3>1
      <3>4. Overlay(info, settled[k])
              = [g \in Fields |-> IF info.kv[g] \in Good THEN info.kv[g]
                                  ELSE IF info.isAll \/ g \in info.delFields THEN Nothing
                                  ELSE settled[k][g]]
        BY <1>5, <2>1
      <3>5. \A g \in Fields : info.kv[g] = IF g = f THEN Nothing ELSE old.kv[g]
        BY <2>1, <3>1 DEF HashInfo
      <3>6. \A g \in Fields :
              Overlay(info, settled[k])[g] = IF g = f THEN Nothing ELSE Overlay(old, settled[k])[g]
        BY <2>1, <3>2, <3>3, <3>4, <3>5
      <3> QED
        BY <3>3, <3>4, <3>6
    <2> QED
      BY <1>4, <2>2, <2>3 DEF KV!DeleteField
  <1>8. ASSUME NEW values \in [Fields -> Value], pushHash(k, values)
        PROVE KV!SetFields(k, values)
    <2> DEFINE old == Pending(k)
               info == MergeHash(old, values)
               h == Overlay(info, settled[k])
    <2>1. /\ info \in HashInfo
          /\ info.kv = [f \in Fields |-> IF values[f] # Nothing THEN values[f] ELSE old.kv[f]]
          /\ info.isAll = old.isAll
          /\ info.delFields = {f \in old.delFields : values[f] = Nothing}
      BY <1>3 DEF MergeHash, HashInfo
    <2>2. View' = [View EXCEPT ![k] = h]
      BY <1>1, <1>5, <1>8, <2>1, PendView DEF pushHash
    <2>3. h \in [Fields -> Stored]
      BY <1>1, <1>2, <1>5, <2>1, OverlayType DEF Content
    <2>4. \A f \in Fields : /\ values[f] \in Good => h[f] = values[f]
                            /\ values[f] = Nothing => h[f] = View[k][f]
      <3> HIDE DEF info, old
      <3>1. old \in HashInfo /\ View[k] = Overlay(old, settled[k])
        BY <1>3, <1>4 DEF old
      <3>2. Nothing \notin Good
        BY ValueAssumption DEF Good
      <3>3. \A f \in Fields :
              Overlay(old, settled[k])[f] = IF old.kv[f] \in Good THEN old.kv[f]
                                            ELSE IF old.isAll \/ f \in old.delFields THEN Nothing
                                            ELSE settled[k][f]
        BY <1>5, <3>1
      <3>4. h = [f \in Fields |-> IF info.kv[f] \in Good THEN info.kv[f]
                                  ELSE IF info.isAll \/ f \in info.delFields THEN Nothing
                                  ELSE settled[k][f]]
        BY <1>5, <2>1
      <3>5. \A f \in Fields :
              info.kv[f] = IF values[f] # Nothing THEN values[f] ELSE old.kv[f]
        BY <2>1
      <3>6. \A f \in Fields :
              f \in info.delFields <=> f \in old.delFields /\ values[f] = Nothing
        BY <2>1
      <3> HIDE DEF h
      <3>7. \A f \in Fields : values[f] \in Good => h[f] = values[f]
        BY <3>2, <3>4, <3>5
      <3>8. \A f \in Fields : values[f] = Nothing => h[f] = View[k][f]
        BY <2>1, <3>1, <3>3, <3>4, <3>5, <3>6
      <3> QED
        BY <3>7, <3>8
    <2> QED
      BY <2>2, <2>3, <2>4 DEF KV!SetFields, KV!Stored, Stored, KV!Good, Good
  <1> QED
    BY <1>6, <1>7, <1>8

(* Flushing moves a pending entry into what has been sent: the view stays. *)
LEMMA FlushView ==
  ASSUME TypeOK, QueueMatchesMap, NEW count \in 1..Len(queue), run(count)
  PROVE View' = View
  <1>1. ASSUME NEW k \in Keys
        PROVE Overlay(mapValue'[k], settled'[k]) = Overlay(mapValue[k], settled[k])
    <2>1. CASE k \in Popped(count)
      <3>1. mapValue[k] # NoInfo /\ mapValue[k] \in InfoOf(k)
        BY <2>1, ElementOfSeq DEF Popped, QueueMatchesMap, TypeOK
      <3>2. settled[k] \in Content(k)
        BY ContentsIsPerKey DEF TypeOK
      <3>3. settled'[k] = Overlay(mapValue[k], settled[k])
        BY <2>1, <3>1, <3>2, FlushKeepsOverlay DEF run
      <3>4. Overlay(mapValue'[k], settled'[k]) = settled'[k]
        BY <2>1 DEF run, Overlay, NoInfo
      <3> QED
        BY <3>3, <3>4
    <2>2. CASE k \notin Popped(count)
      BY <2>2 DEF run
    <2> QED
      BY <2>1, <2>2
  <1> QED
    BY <1>1 DEF View, run

LEMMA StepRefinement ==
  ASSUME TypeOK, QueueMatchesMap, Next
  PROVE SameOperation
  <1>1. CASE Update
    BY <1>1, StringRefinement, HashRefinement DEF SameOperation
  <1>2. CASE Flush
    BY <1>2, FlushView, StringRefinement, HashRefinement DEF Flush, SameOperation
  <1>3. ASSUME UNCHANGED <<mapValue, settled>>
        PROVE SameOperation
    BY <1>3, StringRefinement, HashRefinement DEF View, SameOperation
  <1>4. ASSUME NEW c \in Callers, NEW k \in Keys, get(c, k) \/ getAll(c, k)
        PROVE SameOperation
    BY <1>3, <1>4 DEF get, getAll, SendRead
  <1>5. ASSUME NEW c \in Callers, Resume(c)
        PROVE SameOperation
    BY <1>3, <1>5 DEF Resume
  <1>6. ASSUME NEW k \in Keys, RedisExecute(k) \/ ReadFails(k)
        PROVE SameOperation
    BY <1>3, <1>6 DEF RedisExecute, ReadFails
  <1>7. CASE Crash
    <2>1. View' = [k \in Keys |-> redis[k]]
      BY <1>7 DEF Crash, View, Overlay, NoInfo
    <2>2. View' \in KV!Contents
      BY <2>1, ContentsIsPerKey, SameContents DEF TypeOK
    <2> QED
      BY <1>7, <2>2, StringRefinement, HashRefinement DEF KV!Crash, SameOperation
  <1> QED
    BY <1>1, <1>2, <1>4, <1>5, <1>6, <1>7 DEF Next, Keys

(* The queue, its coalescing and the messages are invisible: a service     *)
(* that updates through redisPersistence changes a plain table.            *)
THEOREM Refinement == Spec => ImplementsStore
  <1>1. Init => KV!Init
    BY InitInvariant, ViewType, SameContents DEF Init, KV!Init
  <1>2. TypeOK /\ QueueMatchesMap /\ [Next]_vars => [SameOperation]_vars
    BY StepRefinement
  <1> QED
    BY <1>1, <1>2, Invariance, PTL DEF Spec, ImplementsStore

(* In particular every behaviour, seen through View, is one of the plain   *)
(* table.                                                                  *)
THEOREM BehavesLikeStore == Spec => KV!Spec
  <1>1. ASSUME TypeOK, QueueMatchesMap, [Next]_vars
        PROVE [KV!Next]_View
    <2>1. CASE UNCHANGED vars
      BY <2>1 DEF vars, View
    <2>2. CASE Next
      <3>1. SameOperation
        BY <1>1, <2>2, StepRefinement
      <3>2. Update => KV!Next
        BY <3>1 DEF SameOperation, Update, KV!Next, KV!Value, Value
      <3> QED
        BY <3>1, <3>2 DEF SameOperation, KV!Next
    <2> QED
      BY <1>1, <2>1, <2>2
  <1>2. Init => KV!Init
    BY InitInvariant, ViewType, SameContents DEF Init, KV!Init
  <1> QED
    BY <1>1, <1>2, Invariance, PTL DEF Spec, KV!Spec

-----------------------------------------------------------------------------
(* FoldLeft, which SettledIsWhatRedisReaches is stated with.               *)

(* Every set of naturals that is not empty has a least element.            *)
Smaller == {p \in Nat \X Nat : p[1] < p[2]}

LEMMA LeastOf ==
  ASSUME NEW S \in SUBSET Nat, S # {}
  PROVE  \E x \in S : \A y \in S : x <= y
  <1>1. IsWellFoundedOn(Smaller, Nat)
    BY NatLessThanWellFounded DEF OpToRel, Smaller
  <1>2. PICK x \in S : \A y \in S : ~ (<<y, x>> \in Smaller)
    BY <1>1, WFMin
  <1>3. x \in Nat /\ \A y \in S : y \in Nat /\ ~ (y < x)
    BY <1>2 DEF Smaller
  <1> QED
    BY <1>3

LEMMA MaxOfRange ==
  ASSUME NEW m \in Nat, NEW s \in SUBSET (1..m+1), m+1 \in s
  PROVE Max(s) = m+1
  <1>1. \A y \in s : m + 1 >= y
    OBVIOUS
  <1>2. Max(s) \in s /\ \A y \in s : Max(s) >= y
    BY <1>1 DEF Max
  <1>3. Max(s) \in 1..m+1 /\ Max(s) >= m + 1
    BY <1>2
  <1> QED
    BY <1>3

(* One step of the fold, and a table of its values on the subsets of S.    *)
FoldStep(k, cmds, from, F, s) ==
  IF s = {} THEN from
  ELSE LET x == Max(s) IN Execute(k, F[s \ {x}], cmds[x])

IsFold(k, cmds, from, S, F) ==
  F = [s \in SUBSET S |-> FoldStep(k, cmds, from, F, s)]

(* What FoldLeft comes to, its folding function being Execute.             *)
Folded(k, cmds, from) ==
  (CHOOSE iter : IsFold(k, cmds, from, DOMAIN cmds, iter))[DOMAIN cmds]

(* The table exists: one more command adds the sets that hold it.          *)
LEMMA FoldExists ==
  ASSUME NEW k, NEW cmds, NEW from, NEW n \in Nat
  PROVE \E F : IsFold(k, cmds, from, 1..n, F)
  <1> DEFINE Bad == {m \in Nat : ~ \E F : IsFold(k, cmds, from, 1..m, F)}
  <1>1. SUFFICES ASSUME Bad # {} PROVE FALSE
    OBVIOUS
  <1>2. PICK m \in Bad : \A y \in Bad : m <= y
    BY <1>1, LeastOf
  <1>3. CASE m = 0
    <2> DEFINE F == [s \in {{}} |-> from]
    <2>1. SUBSET (1..m) = {{}}
      BY <1>3
    <2>2. F = [s \in {{}} |-> FoldStep(k, cmds, from, F, s)]
      BY DEF FoldStep
    <2>3. IsFold(k, cmds, from, 1..m, F)
      BY <2>1, <2>2 DEF IsFold
    <2> QED
      BY <2>3
  <1>4. CASE m # 0
    <2> DEFINE l == m - 1
    <2>1. l \in Nat /\ m = l + 1 /\ l \notin Bad
      BY <1>2, <1>4
    <2> HIDE DEF l
    <2>2. PICK F : IsFold(k, cmds, from, 1..l, F)
      BY <2>1
    <2> DEFINE G == [s \in SUBSET (1..m) |->
                       IF m \in s THEN Execute(k, F[s \ {m}], cmds[m]) ELSE F[s]]
    <2>3. \A s \in SUBSET (1..m) : s \ {m} \in SUBSET (1..l) /\ (m \notin s => s \in SUBSET (1..l))
      BY <2>1
    <2>4. \A s \in SUBSET (1..l) : s \in SUBSET (1..m) /\ m \notin s
      BY <2>1
    <2>5. \A s \in SUBSET (1..l) : G[s] = F[s]
      BY <2>4
    <2>6. ASSUME NEW s \in SUBSET (1..m), m \in s
          PROVE G[s] = FoldStep(k, cmds, from, G, s)
      <3>1. Max(s) = m /\ s # {}
        BY <2>1, <2>6, MaxOfRange
      <3>2. G[s \ {m}] = F[s \ {m}]
        BY <2>3, <2>5
      <3>3. G[s] = Execute(k, F[s \ {m}], cmds[m])
        BY <2>6
      <3> HIDE DEF G
      <3> QED
        BY <3>1, <3>2, <3>3 DEF FoldStep
    <2>7. ASSUME NEW s \in SUBSET (1..m), m \notin s
          PROVE G[s] = FoldStep(k, cmds, from, G, s)
      <3>1. s \in SUBSET (1..l) /\ s \ {Max(s)} \in SUBSET (1..l)
        BY <2>3, <2>7
      <3>2. F[s] = FoldStep(k, cmds, from, F, s)
        BY <2>2, <3>1 DEF IsFold
      <3>3. G[s] = F[s] /\ G[s \ {Max(s)}] = F[s \ {Max(s)}]
        BY <2>5, <3>1
      <3> HIDE DEF G
      <3> QED
        BY <3>2, <3>3 DEF FoldStep
    <2>8. \A s \in SUBSET (1..m) : G[s] = FoldStep(k, cmds, from, G, s)
      BY <2>6, <2>7
    <2>9. G = [s \in SUBSET (1..m) |-> G[s]]
      OBVIOUS
    <2> HIDE DEF G
    <2>10. IsFold(k, cmds, from, 1..m, G)
      BY <2>8, <2>9 DEF IsFold
    <2> QED
      BY <1>2, <2>10
  <1> QED
    BY <1>3, <1>4

(* The contents a key of redis goes through as it executes cmds.           *)
IsRun(k, h, cmds, from, to) ==
  /\ h \in [0..Len(cmds) -> Content(k)]
  /\ h[0] = from
  /\ h[Len(cmds)] = to
  /\ \A i \in 1..Len(cmds) : h[i] = Execute(k, h[i - 1], cmds[i])

(* Folding the commands gives what the run ends in.                        *)
LEMMA FoldEndsRun ==
  ASSUME NEW k, NEW S, NEW cmds \in Seq(S), NEW from, NEW to, NEW h,
         IsRun(k, h, cmds, from, to)
  PROVE Folded(k, cmds, from) = to
  <1> DEFINE n == Len(cmds)
             F == CHOOSE iter : IsFold(k, cmds, from, 1..n, iter)
  <1>1. n \in Nat /\ DOMAIN cmds = 1..n
    BY LenProperties
  <1>2. IsFold(k, cmds, from, 1..n, F)
    BY <1>1, FoldExists
  <1>3. h[0] = from /\ h[n] = to /\ \A i \in 1..n : h[i] = Execute(k, h[i - 1], cmds[i])
    BY DEF IsRun
  <1> HIDE DEF n, F
  <1>4. \A i \in 0..n : F[1..i] = h[i]
    <2> DEFINE Bad == {i \in 0..n : F[1..i] # h[i]}
    <2>1. SUFFICES ASSUME Bad # {} PROVE FALSE
      OBVIOUS
    <2>2. Bad \in SUBSET Nat
      BY <1>1
    <2>3. PICK i \in Bad : \A y \in Bad : i <= y
      BY <2>1, <2>2, LeastOf
    <2>4. i \in 0..n /\ 1..i \in SUBSET (1..n)
      BY <1>1, <2>3
    <2>5. F[1..i] = FoldStep(k, cmds, from, F, 1..i)
      BY <1>2, <2>4 DEF IsFold
    <2>6. CASE i = 0
      BY <1>3, <2>3, <2>5, <2>6 DEF FoldStep
    <2>7. CASE i # 0
      <3> DEFINE l == i - 1
      <3>1. l \in Nat /\ i = l + 1 /\ l \in 0..n /\ l \notin Bad /\ i \in 1..n
        BY <1>1, <2>3, <2>4, <2>7
      <3>2. F[1..l] = h[l]
        BY <3>1
      <3> HIDE DEF l
      <3>3. Max(1..i) = i
        BY <3>1, MaxOfRange
      <3>4. (1..i) \ {i} = 1..l /\ 1..i # {}
        <4>1. i \in 1..i
          BY <3>1
        <4>2. \A j : j \in (1..i) \ {i} <=> j \in 1..l
          BY <3>1
        <4> QED
          BY <4>1, <4>2
      <3>5. F[1..i] = Execute(k, F[1..l], cmds[i])
        BY <2>5, <3>3, <3>4 DEF FoldStep
      <3>6. h[i] = Execute(k, h[l], cmds[i])
        BY <1>3, <3>1
      <3> QED
        BY <2>3, <3>2, <3>5, <3>6
    <2> QED
      BY <2>6, <2>7
  <1>5. F[1..n] = to
    BY <1>1, <1>3, <1>4
  <1> QED
    BY <1>1, <1>5 DEF Folded, F
-----------------------------------------------------------------------------
(* What the steps of the system do to a run.                               *)

LEMMA RunOfNothing ==
  ASSUME NEW k, NEW x \in Content(k)
  PROVE IsRun(k, [i \in {0} |-> x], <<>>, x, x)
  <1>1. Len(<<>>) = 0 /\ 0..0 = {0} /\ 1..0 = {}
    OBVIOUS
  <1> QED
    BY <1>1 DEF IsRun

LEMMA CommandKeepsType ==
  ASSUME NEW k \in Keys, NEW c \in Content(k), NEW cmd \in CmdsOf(k) \cup Reads
  PROVE Execute(k, c, cmd) \in Content(k)
  BY ExecuteType, ExecuteReadType

Longer(h, n, x) == [i \in 0..n+1 |-> IF i = n + 1 THEN x ELSE h[i]]
Shifted(h, n) == [i \in 0..n-1 |-> h[i + 1]]

(* A command sent is executed last.                                        *)
LEMMA RunAppend ==
  ASSUME NEW k \in Keys, NEW cmds \in Seq(CmdsOf(k) \cup Reads), NEW from, NEW to, NEW h,
         IsRun(k, h, cmds, from, to), NEW cmd \in CmdsOf(k) \cup Reads
  PROVE IsRun(k, Longer(h, Len(cmds), Execute(k, to, cmd)), Append(cmds, cmd),
              from, Execute(k, to, cmd))
  <1> DEFINE n == Len(cmds)
             x == Execute(k, to, cmd)
             g == Longer(h, n, x)
             more == Append(cmds, cmd)
  <1>1. n \in Nat /\ Len(more) = n + 1 /\ more[n + 1] = cmd
        /\ \A i \in 1..n : more[i] = cmds[i]
    BY AppendProperties, LenProperties
  <1>2. h \in [0..n -> Content(k)] /\ h[0] = from /\ h[n] = to
        /\ \A i \in 1..n : h[i] = Execute(k, h[i - 1], cmds[i])
    BY DEF IsRun
  <1>3. x \in Content(k)
    BY <1>1, <1>2, CommandKeepsType
  <1>4. g \in [0..n+1 -> Content(k)] /\ g[n + 1] = x /\ \A i \in 0..n : g[i] = h[i]
    BY <1>1, <1>2, <1>3 DEF Longer
  <1>5. Execute(k, h[n], cmd) = x
    BY <1>2
  <1> HIDE DEF n, x, g, more
  <1>6. ASSUME NEW i \in 1..n+1
        PROVE g[i] = Execute(k, g[i - 1], more[i])
    <2>1. CASE i = n + 1
      <3>1. i - 1 = n /\ n \in 0..n
        BY <1>1, <2>1
      <3> QED
        BY <1>1, <1>4, <1>5, <2>1, <3>1
    <2>2. CASE i # n + 1
      <3>1. i \in 1..n /\ i - 1 \in 0..n /\ i \in 0..n
        BY <1>1, <2>2
      <3> QED
        BY <1>1, <1>2, <1>4, <3>1
    <2> QED
      BY <2>1, <2>2
  <1>7. g[0] = from
    BY <1>1, <1>2, <1>4
  <1>8. IsRun(k, g, more, from, x)
    BY <1>1, <1>4, <1>6, <1>7 DEF IsRun
  <1> QED
    BY <1>8 DEF n, x, g, more

(* A flush sends at most two commands.                                     *)
LEMMA RunConcat ==
  ASSUME NEW k \in Keys, NEW cmds \in Seq(CmdsOf(k) \cup Reads), NEW from, NEW to, NEW h,
         IsRun(k, h, cmds, from, to),
         NEW more \in Seq(CmdsOf(k)), Len(more) \in 0..2
  PROVE \E g : /\ IsRun(k, g, cmds \o more, from, ExecuteAll(k, to, more))
               /\ \A i \in 0..Len(cmds) : g[i] = h[i]
               /\ \A i \in Len(cmds)+1 .. Len(cmds \o more) :
                    \/ g[i] = ExecuteAll(k, to, more)
                    \/ Len(more) = 2 /\ g[i] = Execute(k, to, more[1])
  <1> DEFINE n == Len(cmds)
             T == CmdsOf(k) \cup Reads
  <1>1. n \in Nat /\ more \in Seq(T)
    BY LenProperties, SeqMonotonic
  <1>2. Len(cmds \o more) = n + Len(more) /\ cmds \o more \in Seq(T)
        /\ (\A i \in 1..n : (cmds \o more)[i] = cmds[i])
        /\ \A i \in 1..Len(more) : (cmds \o more)[n + i] = more[i]
    BY <1>1, ConcatProperties
  <1>3. CASE Len(more) = 0
    <2>1. more = <<>>
      BY <1>3, EmptySeq
    <2>2. cmds \o more = cmds /\ ExecuteAll(k, to, more) = to
      BY <1>3, <2>1, ConcatEmptySeq DEF ExecuteAll
    <2> QED
      BY <1>1, <2>2
  <1>4. CASE Len(more) = 1
    <2> DEFINE x == Execute(k, to, more[1])
               g == Longer(h, n, x)
    <2>1. more[1] \in T /\ ExecuteAll(k, to, more) = x
      <3>1. 1 \in 1..Len(more)
        BY <1>4
      <3>2. more[1] \in T
        BY <1>1, <3>1, ElementOfSeq
      <3>3. ExecuteAll(k, to, more) = x
        BY <1>4 DEF ExecuteAll
      <3> QED
        BY <3>2, <3>3
    <2>2. cmds \o more = Append(cmds, more[1])
      <3>1. Append(cmds, more[1]) \in Seq(T) /\ Len(Append(cmds, more[1])) = n + 1
            /\ Append(cmds, more[1])[n + 1] = more[1]
            /\ \A i \in 1..n : Append(cmds, more[1])[i] = cmds[i]
        BY <2>1, AppendProperties
      <3>2. \A i \in 1..n+1 : (cmds \o more)[i] = Append(cmds, more[1])[i]
        <4>1. (cmds \o more)[n + 1] = more[1]
          BY <1>2, <1>4
        <4>2. \A i \in 1..n+1 : i = n + 1 \/ i \in 1..n
          BY <1>1
        <4> QED
          BY <1>2, <3>1, <4>1, <4>2
      <3> QED
        BY <1>2, <1>4, <3>1, <3>2, SeqEqual
    <2>3. IsRun(k, g, cmds \o more, from, x)
      BY <2>1, <2>2, RunAppend
    <2>4. g[n + 1] = x /\ \A i \in 0..n : g[i] = h[i]
      BY <1>1 DEF Longer
    <2>5. Len(cmds \o more) = n + 1 /\ \A i \in n+1..n+1 : i = n + 1
      BY <1>1, <1>2, <1>4
    <2> HIDE DEF g, x
    <2> QED
      BY <2>1, <2>3, <2>4, <2>5
  <1>5. CASE Len(more) = 2
    <2> DEFINE x == Execute(k, to, more[1])
               y == Execute(k, x, more[2])
               one == Append(cmds, more[1])
               two == Append(one, more[2])
               g == Longer(h, n, x)
               e == Longer(g, n + 1, y)
    <2>1. more[1] \in T /\ more[2] \in T /\ ExecuteAll(k, to, more) = y
      <3>1. 1 \in 1..Len(more) /\ 2 \in 1..Len(more)
        BY <1>5
      <3>2. more[1] \in T /\ more[2] \in T
        BY <1>1, <3>1, ElementOfSeq
      <3>3. ExecuteAll(k, to, more) = y
        BY <1>5 DEF ExecuteAll
      <3> QED
        BY <3>2, <3>3
    <2>2. one \in Seq(T) /\ Len(one) = n + 1 /\ one[n + 1] = more[1]
          /\ \A i \in 1..n : one[i] = cmds[i]
      BY <2>1, AppendProperties
    <2>3. two \in Seq(T) /\ Len(two) = n + 1 + 1 /\ two[n + 1 + 1] = more[2]
          /\ \A i \in 1..n+1 : two[i] = one[i]
      <3> HIDE DEF one
      <3> QED
        BY <2>1, <2>2, AppendProperties
    <2>4. IsRun(k, g, one, from, x)
      BY <2>1, RunAppend
    <2>5. IsRun(k, e, two, from, y)
      <3> HIDE DEF g, one, x
      <3> QED
        BY <2>1, <2>2, <2>4, RunAppend
    <2>6. cmds \o more = two
      <3> HIDE DEF one, two
      <3>1. \A i \in 1..n+1+1 : (cmds \o more)[i] = two[i]
        <4>1. (cmds \o more)[n + 1] = more[1] /\ (cmds \o more)[n + 1 + 1] = more[2]
          BY <1>1, <1>2, <1>5
        <4>2. \A i \in 1..n+1+1 : i = n + 1 \/ i = n + 1 + 1 \/ i \in 1..n
          BY <1>1
        <4>3. n + 1 \in 1..n+1 /\ \A i \in 1..n : i \in 1..n+1
          BY <1>1
        <4> QED
          BY <1>2, <2>2, <2>3, <4>1, <4>2, <4>3
      <3>2. Len(cmds \o more) = n + 1 + 1
        BY <1>1, <1>2, <1>5
      <3> QED
        BY <1>2, <2>3, <3>1, <3>2, SeqEqual
    <2>7. g[n + 1] = x /\ \A i \in 0..n : g[i] = h[i]
      BY <1>1 DEF Longer
    <2>8. e[n + 1 + 1] = y /\ \A i \in 0..n+1 : e[i] = g[i]
      BY <1>1 DEF Longer
    <2>9. Len(cmds \o more) = n + 1 + 1
          /\ (\A i \in n+1..n+1+1 : i = n + 1 \/ i = n + 1 + 1)
          /\ n + 1 \in 0..n+1 /\ \A i \in 0..n : i \in 0..n+1
      BY <1>1, <1>2, <1>5
    <2> HIDE DEF e, g, x, y, one, two
    <2>10. \A i \in n+1..Len(cmds \o more) : e[i] = y \/ e[i] = x
      BY <2>7, <2>8, <2>9
    <2>11. \A i \in 0..n : e[i] = h[i]
      BY <2>7, <2>8, <2>9
    <2> QED
      BY <1>5, <2>1, <2>5, <2>6, <2>10, <2>11 DEF x
  <1> QED
    BY <1>3, <1>4, <1>5

(* Redis takes the first command.                                          *)
LEMMA RunTail ==
  ASSUME NEW k \in Keys, NEW cmds \in Seq(CmdsOf(k) \cup Reads), cmds # <<>>,
         NEW from, NEW to, NEW h, IsRun(k, h, cmds, from, to)
  PROVE /\ IsRun(k, Shifted(h, Len(cmds)), Tail(cmds), Execute(k, from, Head(cmds)), to)
        /\ h[1] = Execute(k, from, Head(cmds))
        /\ Len(cmds) \in Nat \ {0} /\ Len(Tail(cmds)) = Len(cmds) - 1
        /\ Head(cmds) = cmds[1]
        /\ \A i \in 1..Len(Tail(cmds)) : Tail(cmds)[i] = cmds[i + 1]
        /\ \A i \in 0..Len(Tail(cmds)) : Shifted(h, Len(cmds))[i] = h[i + 1]
  <1> DEFINE n == Len(cmds)
             g == Shifted(h, n)
             rest == Tail(cmds)
  <1>1. n \in Nat \ {0} /\ Len(rest) = n - 1 /\ Head(cmds) = cmds[1]
        /\ \A i \in 1..n-1 : rest[i] = cmds[i + 1]
    BY HeadTailProperties, LenProperties, EmptySeq
  <1>2. h \in [0..n -> Content(k)] /\ h[0] = from /\ h[n] = to
        /\ \A i \in 1..n : h[i] = Execute(k, h[i - 1], cmds[i])
    BY DEF IsRun
  <1>3. g \in [0..n-1 -> Content(k)] /\ \A i \in 0..n-1 : g[i] = h[i + 1]
    <2>1. \A i \in 0..n-1 : i + 1 \in 0..n
      BY <1>1
    <2> QED
      BY <1>2, <2>1 DEF Shifted
  <1>4. h[1] = Execute(k, from, Head(cmds))
    <2>1. 1 \in 1..n /\ 1 - 1 = 0
      BY <1>1
    <2> QED
      BY <1>1, <1>2, <2>1
  <1> HIDE DEF n, g, rest
  <1>5. g[0] = Execute(k, from, Head(cmds)) /\ g[n - 1] = to
    <2>1. 0 \in 0..n-1 /\ n - 1 \in 0..n-1 /\ 0 + 1 = 1 /\ n - 1 + 1 = n
      BY <1>1
    <2> QED
      BY <1>2, <1>3, <1>4, <2>1
  <1>6. ASSUME NEW i \in 1..n-1
        PROVE g[i] = Execute(k, g[i - 1], rest[i])
    <2>1. i + 1 \in 1..n /\ i \in 0..n-1 /\ i - 1 \in 0..n-1 /\ i - 1 + 1 = i + 1 - 1
      BY <1>1
    <2> QED
      BY <1>1, <1>2, <1>3, <2>1
  <1>7. IsRun(k, g, rest, Execute(k, from, Head(cmds)), to)
    BY <1>1, <1>3, <1>5, <1>6 DEF IsRun
  <1> QED
    BY <1>1, <1>3, <1>4, <1>7 DEF n, g, rest

-----------------------------------------------------------------------------
(* Reads.  A request at position i is answered with h[i - 1] = h[i].       *)

(* What a reader may be answered: of a string, what its service believed   *)
(* when it asked; of a hash, that but for the fields that were pending.    *)
Fits(call, x) ==
  IF call.key \in StringKeys THEN x = call.start
  ELSE \A f \in Fields \ Touched(call.info) : x[f] = call.start[f]

Answered(call) ==
  IF call.key \in StringKeys THEN call.reply \in {call.start, Nothing}
  ELSE call.reply = EmptyHash \/ Fits(call, call.reply)

(* Every request in flight is the only one of a caller that waits for it,  *)
(* and will be answered as it should.                                      *)
Awaited(k, cmds, h, cs) ==
  \A i \in 1..Len(cmds) :
    cmds[i].op = "read" =>
      /\ cs[cmds[i].caller].state = "waiting"
      /\ cs[cmds[i].caller].key = k
      /\ Fits(cs[cmds[i].caller], h[i])
      /\ \A j \in 1..Len(cmds) : cmds[j] = cmds[i] => j = i

RunOf(k, h) == IsRun(k, h, net[k], redis[k], settled[k])

ReadsInv ==
  /\ \A k \in Keys : \E h : RunOf(k, h) /\ Awaited(k, net[k], h, calls)
  /\ \A c \in Callers : calls[c].state = "done" => Answered(calls[c])

LEMMA OpOfRead ==
  ASSUME NEW k \in Keys, NEW cmd \in CmdsOf(k) \cup Reads
  PROVE cmd.op = "read" <=> cmd \in Reads
  BY DEF CmdsOf, StringCmds, HashCmds, Delete, SetCmd, HMDel, HMSet, Reads, Read

LEMMA NoRead ==
  ASSUME NEW k \in Keys, NEW cmd \in CmdsOf(k)
  PROVE cmd.op # "read"
  BY DEF CmdsOf, StringCmds, HashCmds, Delete, SetCmd, HMDel, HMSet

LEMMA ReadOf ==
  ASSUME NEW cmd \in Reads
  PROVE cmd.caller \in Callers /\ cmd = Read(cmd.caller) /\ cmd.op = "read"
  BY DEF Reads, Read

(* A read asks for what its service believes, and redis will have it, but  *)
(* for what is pending.                                                    *)
LEMMA AskedFits ==
  ASSUME TypeOK, NEW c \in Callers, NEW k \in Keys, SendRead(c, k),
         k \in StringKeys => mapValue[k] = NoInfo
  PROVE Fits(calls'[c], settled[k])
  <1>2. calls'[c] = [state |-> "waiting", key |-> k, start |-> View[k], info |-> mapValue[k]]
    BY DEF SendRead, TypeOK
  <1>3. CASE k \in StringKeys
    <2>1. mapValue[k] = NoInfo
      BY <1>3
    <2>2. View[k] = settled[k]
      BY <2>1 DEF View, Overlay, NoInfo
    <2> QED
      BY <1>2, <1>3, <2>2 DEF Fits
  <1>4. CASE k \notin StringKeys
    <2>1. mapValue[k] \in {NoInfo} \cup HashInfo
      BY <1>4 DEF TypeOK, InfoOf
    <2>2. ASSUME NEW f \in Fields \ Touched(mapValue[k])
          PROVE View[k][f] = settled[k][f]
      <3>1. CASE mapValue[k] = NoInfo
        BY <3>1 DEF View, Overlay, NoInfo
      <3>2. CASE mapValue[k] \in HashInfo
        <4>1. mapValue[k].rtype = "hash"
          BY <3>2 DEF HashInfo
        <4>2. ~ mapValue[k].isAll /\ f \notin mapValue[k].delFields
              /\ mapValue[k].kv[f] = Nothing
          BY <2>2, <4>1 DEF Touched
        <4> QED
          BY <4>1, <4>2, ValueAssumption DEF View, Overlay, Good
      <3> QED
        BY <2>1, <3>1, <3>2
    <2> QED
      BY <1>2, <1>4, <2>2 DEF Fits
  <1> QED
    BY <1>3, <1>4

LEMMA ReadsInit ==
  ASSUME Init
  PROVE ReadsInv
  <1>1. ASSUME NEW k \in Keys
        PROVE \E h : RunOf(k, h) /\ Awaited(k, net[k], h, calls)
    <2>1. redis[k] \in Content(k) /\ settled[k] = redis[k] /\ net[k] = <<>>
      BY ContentsIsPerKey DEF Init
    <2>2. RunOf(k, [i \in {0} |-> redis[k]])
      BY <2>1, RunOfNothing DEF RunOf
    <2>3. Len(net[k]) = 0
      BY <2>1
    <2>4. Awaited(k, net[k], [i \in {0} |-> redis[k]], calls)
      BY <2>3 DEF Awaited
    <2> QED
      BY <2>2, <2>4
  <1> QED
    BY <1>1 DEF Init, ReadsInv

(* Steps that send and receive nothing and ask nothing.                    *)
LEMMA ReadsQuiet ==
  ASSUME ReadsInv, UNCHANGED <<net, redis, settled>>,
         \A c \in Callers : \/ calls'[c] = calls[c]
                            \/ calls[c].state # "waiting" /\ calls'[c].state = "idle",
         TypeOK
  PROVE ReadsInv'
  <1>1. ASSUME NEW k \in Keys
        PROVE \E h : IsRun(k, h, net'[k], redis'[k], settled'[k]) /\ Awaited(k, net'[k], h, calls')
    <2>1. PICK h : RunOf(k, h) /\ Awaited(k, net[k], h, calls)
      BY DEF ReadsInv
    <2>2. IsRun(k, h, net'[k], redis'[k], settled'[k])
      BY <2>1 DEF RunOf
    <2>3. ASSUME NEW i \in 1..Len(net[k]), net[k][i].op = "read"
          PROVE calls'[net[k][i].caller] = calls[net[k][i].caller]
      <3>1. calls[net[k][i].caller].state = "waiting"
        BY <2>1, <2>3 DEF Awaited
      <3>2. net[k] \in Seq(CmdsOf(k) \cup Reads)
        BY DEF TypeOK
      <3>3. net[k][i] \in CmdsOf(k) \cup Reads
        BY <2>3, <3>2, ElementOfSeq
      <3>4. net[k][i].caller \in Callers
        BY <2>3, <3>3, OpOfRead, ReadOf
      <3> QED
        BY <3>1, <3>4
    <2>4. Awaited(k, net'[k], h, calls')
      BY <2>1, <2>3 DEF Awaited
    <2> QED
      BY <2>2, <2>4
  <1>2. ASSUME NEW c \in Callers, calls'[c].state = "done"
        PROVE Answered(calls'[c])
    BY <1>2 DEF ReadsInv
  <1> QED
    BY <1>1, <1>2 DEF ReadsInv, RunOf

(* A flush adds commands, and no read.                                     *)
LEMMA ReadsFlush ==
  ASSUME TypeOK, QueueMatchesMap, ReadsInv, NEW count \in 1..Len(queue), run(count)
  PROVE ReadsInv'
  <1>1. Len(queue) \in Nat /\ \A i \in 1..Len(queue) : queue[i] \in Keys
    BY ElementOfSeq, LenProperties DEF TypeOK
  <1>2. ASSUME NEW k \in Keys
        PROVE \E h : IsRun(k, h, net'[k], redis'[k], settled'[k]) /\ Awaited(k, net'[k], h, calls')
    <2>1. PICK h : RunOf(k, h) /\ Awaited(k, net[k], h, calls)
      BY DEF ReadsInv
    <2>2. calls' = calls /\ redis' = redis
      BY DEF run
    <2>3. CASE k \notin Popped(count)
      <3>1. net'[k] = net[k] /\ settled'[k] = settled[k]
        BY <2>3 DEF run
      <3> QED
        BY <2>1, <2>2, <3>1 DEF RunOf
    <2>4. CASE k \in Popped(count)
      <3> DEFINE more == Commands(mapValue[k])
      <3>1. mapValue[k] \in InfoOf(k) /\ mapValue[k] # NoInfo
        BY <1>1, <2>4 DEF Popped, QueueMatchesMap, TypeOK
      <3>2. more \in Seq(CmdsOf(k)) /\ Len(more) \in 0..2
        BY <3>1, CommandsType
      <3>3. net'[k] = net[k] \o more /\ settled'[k] = ExecuteAll(k, settled[k], more)
        BY <2>4 DEF run
      <3>4. net[k] \in Seq(CmdsOf(k) \cup Reads)
        BY DEF TypeOK
      <3> HIDE DEF more
      <3>5. PICK g : /\ IsRun(k, g, net[k] \o more, redis[k], ExecuteAll(k, settled[k], more))
                     /\ \A i \in 0..Len(net[k]) : g[i] = h[i]
        BY <2>1, <3>2, <3>4, RunConcat DEF RunOf
      <3>6. IsRun(k, g, net'[k], redis'[k], settled'[k])
        BY <2>2, <3>3, <3>5 DEF RunOf
      <3>7. Len(net[k]) \in Nat /\ Len(more) \in Nat
            /\ Len(net'[k]) = Len(net[k]) + Len(more)
            /\ (\A i \in 1..Len(net[k]) : net'[k][i] = net[k][i])
            /\ \A i \in 1..Len(more) : net'[k][Len(net[k]) + i] = more[i]
        <4>1. more \in Seq(CmdsOf(k) \cup Reads)
          BY <3>2, SeqMonotonic
        <4> QED
          BY <3>3, <3>4, <4>1, ConcatProperties, LenProperties
      <3>8. ASSUME NEW i \in 1..Len(net'[k]), net'[k][i].op = "read"
            PROVE i \in 1..Len(net[k])
        <4>1. SUFFICES ASSUME i \notin 1..Len(net[k]) PROVE FALSE
          OBVIOUS
        <4> DEFINE j == i - Len(net[k])
        <4>2. j \in 1..Len(more) /\ i = Len(net[k]) + j
          BY <3>7, <4>1
        <4> HIDE DEF j
        <4>3. more[j] \in CmdsOf(k) /\ net'[k][i] = more[j]
          BY <3>2, <3>7, <4>2, ElementOfSeq
        <4> QED
          BY <3>8, <4>3, NoRead
      <3>9. Awaited(k, net'[k], g, calls')
        <4>1. ASSUME NEW i \in 1..Len(net'[k]), net'[k][i].op = "read"
              PROVE /\ calls'[net'[k][i].caller].state = "waiting"
                    /\ calls'[net'[k][i].caller].key = k
                    /\ Fits(calls'[net'[k][i].caller], g[i])
                    /\ \A j \in 1..Len(net'[k]) : net'[k][j] = net'[k][i] => j = i
          <5>1. i \in 1..Len(net[k]) /\ i \in 0..Len(net[k]) /\ net'[k][i] = net[k][i]
                /\ g[i] = h[i]
            BY <3>5, <3>7, <3>8, <4>1
          <5>2. ASSUME NEW j \in 1..Len(net'[k]), net'[k][j] = net'[k][i]
                PROVE j \in 1..Len(net[k]) /\ net[k][j] = net[k][i]
            BY <3>7, <3>8, <4>1, <5>1, <5>2
          <5> QED
            BY <2>1, <2>2, <4>1, <5>1, <5>2 DEF Awaited
        <4> QED
          BY <4>1 DEF Awaited
      <3> QED
        BY <3>6, <3>9
    <2> QED
      BY <2>3, <2>4
  <1>3. calls' = calls
    BY DEF run
  <1> QED
    BY <1>2, <1>3 DEF ReadsInv, RunOf

(* A request goes behind all that was sent, and its caller had none.       *)
LEMMA ReadsSend ==
  ASSUME TypeOK, ReadsInv, NEW c \in Callers, NEW k \in Keys,
         SendRead(c, k), Fits(calls'[c], settled[k])
  PROVE ReadsInv'
  <1>1. /\ calls[c].state = "idle" /\ redis' = redis /\ settled' = settled
        /\ calls'[c].state = "waiting" /\ calls'[c].key = k
        /\ \A d \in Callers : d # c => calls'[d] = calls[d]
    BY DEF SendRead, TypeOK
  <1>2. net'[k] = Append(net[k], Read(c)) /\ \A q \in Keys : q # k => net'[q] = net[q]
    BY DEF SendRead, TypeOK
  <1>3. ASSUME NEW q \in Keys, NEW h, Awaited(q, net[q], h, calls),
               NEW i \in 1..Len(net[q]), net[q][i].op = "read"
        PROVE net[q][i].caller # c /\ net[q][i] # Read(c)
              /\ calls'[net[q][i].caller] = calls[net[q][i].caller]
    <2>1. net[q] \in Seq(CmdsOf(q) \cup Reads)
      BY DEF TypeOK
    <2>2. net[q][i] \in CmdsOf(q) \cup Reads
      BY <2>1, ElementOfSeq
    <2>3. net[q][i].caller \in Callers
      BY <1>3, <2>2, OpOfRead, ReadOf
    <2>4. calls[net[q][i].caller].state = "waiting"
      BY <1>3 DEF Awaited
    <2>5. net[q][i].caller # c
      BY <1>1, <2>4
    <2> QED
      BY <1>1, <2>3, <2>5 DEF Read
  <1>4. ASSUME NEW q \in Keys, q # k
        PROVE \E h : IsRun(q, h, net'[q], redis'[q], settled'[q]) /\ Awaited(q, net'[q], h, calls')
    <2>1. PICK h : RunOf(q, h) /\ Awaited(q, net[q], h, calls)
      BY DEF ReadsInv
    <2>2. IsRun(q, h, net'[q], redis'[q], settled'[q])
      BY <1>1, <1>2, <1>4, <2>1 DEF RunOf
    <2>3. \A i \in 1..Len(net[q]) : net[q][i].op = "read"
            => calls'[net[q][i].caller] = calls[net[q][i].caller]
      BY <1>3, <2>1
    <2>4. net'[q] = net[q]
      BY <1>2, <1>4
    <2>5. Awaited(q, net'[q], h, calls')
      BY <2>1, <2>3, <2>4 DEF Awaited
    <2> QED
      BY <2>2, <2>5
  <1>5. \E h : IsRun(k, h, net'[k], redis'[k], settled'[k]) /\ Awaited(k, net'[k], h, calls')
    <2>1. PICK h : RunOf(k, h) /\ Awaited(k, net[k], h, calls)
      BY DEF ReadsInv
    <2> DEFINE n == Len(net[k])
               g == Longer(h, n, settled[k])
    <2>2. Read(c) \in Reads /\ net[k] \in Seq(CmdsOf(k) \cup Reads)
          /\ settled[k] \in Content(k)
      BY ContentsIsPerKey DEF Reads, TypeOK
    <2>3. Execute(k, settled[k], Read(c)) = settled[k]
      BY <2>2, ExecuteReadType
    <2>4. IsRun(k, g, Append(net[k], Read(c)), redis[k], settled[k])
      BY <2>1, <2>2, <2>3, RunAppend DEF RunOf
    <2>5. IsRun(k, g, net'[k], redis'[k], settled'[k])
      BY <1>1, <1>2, <2>4 DEF RunOf
    <2>6. n \in Nat /\ Len(net'[k]) = n + 1 /\ net'[k][n + 1] = Read(c)
          /\ \A i \in 1..n : net'[k][i] = net[k][i]
      BY <1>2, <2>2, AppendProperties, LenProperties
    <2>7. g[n + 1] = settled[k] /\ \A i \in 1..n : g[i] = h[i]
      BY <2>6 DEF Longer
    <2>8. ASSUME NEW i \in 1..n, net[k][i].op = "read"
          PROVE net[k][i] # Read(c) /\ calls'[net[k][i].caller] = calls[net[k][i].caller]
      BY <1>3, <2>1, <2>8
    <2> HIDE DEF n, g
    <2>9. ASSUME NEW i \in 1..n+1, net'[k][i].op = "read"
          PROVE /\ calls'[net'[k][i].caller].state = "waiting"
                /\ calls'[net'[k][i].caller].key = k
                /\ Fits(calls'[net'[k][i].caller], g[i])
                /\ \A j \in 1..n+1 : net'[k][j] = net'[k][i] => j = i
      <3>1. \A j \in 1..n+1 : j = n + 1 \/ j \in 1..n
        BY <2>6
      <3>2. CASE i = n + 1
        <4>1. net'[k][i] = Read(c) /\ Read(c).caller = c /\ Read(c).op = "read"
          BY <2>6, <3>2 DEF Read
        <4>2. Fits(calls'[c], g[i])
          BY <2>7, <3>2
        <4>3. \A j \in 1..n : net'[k][j] # Read(c)
          BY <2>6, <2>8, <4>1
        <4> QED
          BY <1>1, <3>1, <3>2, <4>1, <4>2, <4>3
      <3>3. CASE i \in 1..n
        <4>1. net'[k][i] = net[k][i] /\ g[i] = h[i] /\ net[k][i].op = "read"
          BY <2>6, <2>7, <2>9, <3>3
        <4>2. net[k][i] # Read(c) /\ calls'[net[k][i].caller] = calls[net[k][i].caller]
          BY <2>8, <3>3, <4>1
        <4>3. /\ calls[net[k][i].caller].state = "waiting"
              /\ calls[net[k][i].caller].key = k
              /\ Fits(calls[net[k][i].caller], h[i])
              /\ \A j \in 1..n : net[k][j] = net[k][i] => j = i
          BY <2>1, <3>3, <4>1 DEF Awaited, n
        <4>4. \A j \in 1..n+1 : net'[k][j] = net'[k][i] => j = i
          BY <2>6, <3>1, <4>1, <4>2, <4>3
        <4> QED
          BY <4>1, <4>2, <4>3, <4>4
      <3> QED
        BY <3>1, <3>2, <3>3
    <2>10. Awaited(k, net'[k], g, calls')
      BY <2>6, <2>9 DEF Awaited
    <2> QED
      BY <2>5, <2>10
  <1>6. \A d \in Callers : calls'[d].state = "done" => Answered(calls'[d])
    BY <1>1 DEF ReadsInv
  <1> QED
    BY <1>4, <1>5, <1>6 DEF ReadsInv, RunOf

(* The first command of a key is taken; if it is a read its caller, and no *)
(* other, is answered with what the key holds now, or with nothing.        *)
LEMMA ReadsReceive ==
  ASSUME TypeOK, ReadsInv, NEW k \in Keys, RedisExecute(k) \/ ReadFails(k)
  PROVE ReadsInv'
  <1> DEFINE cmd == Head(net[k])
             n == Len(net[k])
  <1>1. net[k] # <<>> /\ net[k] \in Seq(CmdsOf(k) \cup Reads)
        /\ redis[k] \in Content(k) /\ settled' = settled
    BY ContentsIsPerKey DEF RedisExecute, ReadFails, TypeOK
  <1>2. net'[k] = Tail(net[k]) /\ \A q \in Keys : q # k => net'[q] = net[q]
    BY DEF RedisExecute, ReadFails, TypeOK
  <1>3. cmd \in CmdsOf(k) \cup Reads
    BY <1>1, HeadTailProperties
  <1>4. redis'[k] = Execute(k, redis[k], cmd) /\ \A q \in Keys : q # k => redis'[q] = redis[q]
    <2>1. redis = [q \in Keys |-> redis[q]]
      BY ContentsIsPerKey DEF TypeOK
    <2>2. CASE RedisExecute(k)
      BY <2>1, <2>2 DEF RedisExecute
    <2>3. CASE ReadFails(k)
      <3>1. Execute(k, redis[k], cmd) = redis[k]
        BY <1>1, <1>3, <2>3, OpOfRead, ExecuteReadType DEF ReadFails
      <3> QED
        BY <2>3, <3>1 DEF ReadFails
    <2> QED
      BY <2>2, <2>3
  <1>5. PICK h : RunOf(k, h) /\ Awaited(k, net[k], h, calls)
    BY DEF ReadsInv
  <1>6. /\ IsRun(k, Shifted(h, n), Tail(net[k]), redis'[k], settled[k])
        /\ h[1] = Execute(k, redis[k], cmd)
        /\ n \in Nat \ {0} /\ Len(Tail(net[k])) = n - 1 /\ cmd = net[k][1]
        /\ \A i \in 1..Len(Tail(net[k])) : Tail(net[k])[i] = net[k][i + 1]
        /\ \A i \in 0..Len(Tail(net[k])) : Shifted(h, n)[i] = h[i + 1]
    BY <1>1, <1>4, <1>5, RunTail DEF RunOf
  <1>7. \/ cmd.op # "read" /\ calls' = calls
        \/ /\ cmd \in Reads /\ cmd.caller \in Callers
           /\ calls[cmd.caller].state = "waiting"
           /\ calls[cmd.caller].key = k
           /\ \A d \in Callers : d # cmd.caller => calls'[d] = calls[d]
           /\ calls'[cmd.caller].state = "done" /\ Answered(calls'[cmd.caller])
    <2>1. CASE cmd.op # "read"
      BY <2>1 DEF RedisExecute, ReadFails
    <2>2. CASE cmd.op = "read"
      <3> DEFINE c == cmd.caller
      <3>1. cmd \in Reads /\ c \in Callers
        BY <1>3, <2>2, OpOfRead, ReadOf
      <3>2. 1 \in 1..n /\ net[k][1].op = "read"
        BY <1>6, <2>2
      <3>3. calls[c].state = "waiting" /\ calls[c].key = k /\ Fits(calls[c], h[1])
        BY <1>5, <1>6, <3>2 DEF Awaited
      <3>4. h[1] = redis[k]
        BY <1>1, <1>6, <3>1, ExecuteReadType
      <3>5. PICK value \in {redis[k], Absent(k)} : calls' = [calls EXCEPT ![c] = Reply(c, value)]
        BY <2>2 DEF RedisExecute, ReadFails
      <3>6. calls'[c] = Reply(c, value) /\ \A d \in Callers : d # c => calls'[d] = calls[d]
        BY <3>1, <3>5 DEF TypeOK
      <3> HIDE DEF c
      <3>7. calls'[c].state = "done" /\ calls'[c].key = k /\ calls'[c].start = calls[c].start
            /\ calls'[c].info = calls[c].info /\ calls'[c].reply = value
        BY <3>3, <3>6 DEF Reply
      <3>8. Answered(calls'[c])
        <4>1. CASE k \in StringKeys
          BY <3>3, <3>4, <3>7, <4>1 DEF Answered, Fits, Absent
        <4>2. CASE k \notin StringKeys
          <5>1. value = EmptyHash \/ Fits(calls'[c], value)
            BY <3>3, <3>4, <3>7, <4>2 DEF Fits, Absent
          <5> QED
            BY <3>7, <4>2, <5>1 DEF Answered
        <4> QED
          BY <4>1, <4>2
      <3> QED
        BY <3>1, <3>3, <3>6, <3>7, <3>8 DEF c
    <2> QED
      BY <2>1, <2>2
  <1> HIDE DEF cmd, n
  (* Of the requests still in flight none has the caller that was answered. *)
  <1>8. ASSUME NEW q \in Keys, NEW g, Awaited(q, net[q], g, calls),
               NEW i \in 1..Len(net[q]), net[q][i].op = "read", q # k \/ i # 1
        PROVE calls'[net[q][i].caller] = calls[net[q][i].caller]
    <2>1. net[q] \in Seq(CmdsOf(q) \cup Reads)
      BY DEF TypeOK
    <2>2. net[q][i] \in Reads
      BY <1>8, <2>1, ElementOfSeq, OpOfRead
    <2>3. net[q][i].caller \in Callers /\ net[q][i] = Read(net[q][i].caller)
      BY <2>2, ReadOf
    <2>4. calls[net[q][i].caller].key = q /\ \A j \in 1..Len(net[q]) : net[q][j] = net[q][i] => j = i
      BY <1>8 DEF Awaited
    <2>5. CASE cmd.op # "read"
      BY <1>7, <2>5, ReadOf
    <2>6. CASE cmd.op = "read"
      <3>1. cmd = Read(cmd.caller) /\ calls[cmd.caller].key = k
        BY <1>7, <2>6, ReadOf
      <3>2. net[q][i].caller # cmd.caller
        <4>1. SUFFICES ASSUME net[q][i].caller = cmd.caller PROVE FALSE
          OBVIOUS
        <4>2. q = k /\ net[k][i] = cmd
          BY <2>3, <2>4, <3>1, <4>1
        <4>3. 1 \in 1..Len(net[q]) /\ net[q][1] = net[q][i]
          BY <1>6, <4>2 DEF n
        <4> QED
          BY <1>8, <2>4, <4>2, <4>3
      <3> QED
        BY <1>7, <2>3, <2>6, <3>2
    <2> QED
      BY <2>5, <2>6
  <1>9. ASSUME NEW q \in Keys, q # k
        PROVE \E g : IsRun(q, g, net'[q], redis'[q], settled'[q]) /\ Awaited(q, net'[q], g, calls')
    <2>1. PICK g : RunOf(q, g) /\ Awaited(q, net[q], g, calls)
      BY DEF ReadsInv
    <2>2. IsRun(q, g, net'[q], redis'[q], settled'[q])
      BY <1>1, <1>2, <1>4, <1>9, <2>1 DEF RunOf
    <2>3. \A i \in 1..Len(net[q]) : net[q][i].op = "read"
            => calls'[net[q][i].caller] = calls[net[q][i].caller]
      BY <1>8, <1>9, <2>1
    <2>4. net'[q] = net[q]
      BY <1>2, <1>9
    <2>5. Awaited(q, net'[q], g, calls')
      BY <2>1, <2>3, <2>4 DEF Awaited
    <2> QED
      BY <2>2, <2>5
  <1>10. \E g : IsRun(k, g, net'[k], redis'[k], settled'[k]) /\ Awaited(k, net'[k], g, calls')
    <2> DEFINE g == Shifted(h, n)
    <2>1. IsRun(k, g, net'[k], redis'[k], settled'[k])
      BY <1>1, <1>2, <1>6 DEF RunOf
    <2>2. Len(net'[k]) = n - 1 /\ \A i \in 1..n-1 : net'[k][i] = net[k][i + 1] /\ g[i] = h[i + 1]
      <3>1. \A i \in 1..n-1 : i \in 0..n-1
        OBVIOUS
      <3> QED
        BY <1>2, <1>6, <3>1
    <2> HIDE DEF g
    <2>3. ASSUME NEW i \in 1..n-1, net'[k][i].op = "read"
          PROVE /\ calls'[net'[k][i].caller].state = "waiting"
                /\ calls'[net'[k][i].caller].key = k
                /\ Fits(calls'[net'[k][i].caller], g[i])
                /\ \A j \in 1..n-1 : net'[k][j] = net'[k][i] => j = i
      <3>1. i + 1 \in 1..Len(net[k]) /\ i + 1 # 1 /\ \A j \in 1..n-1 : j + 1 \in 1..Len(net[k])
        BY <1>6 DEF n
      <3>2. net[k][i + 1].op = "read" /\ net'[k][i] = net[k][i + 1] /\ g[i] = h[i + 1]
        BY <2>2, <2>3
      <3>3. calls'[net[k][i + 1].caller] = calls[net[k][i + 1].caller]
        BY <1>5, <1>8, <3>1, <3>2
      <3>4. /\ calls[net[k][i + 1].caller].state = "waiting"
            /\ calls[net[k][i + 1].caller].key = k
            /\ Fits(calls[net[k][i + 1].caller], h[i + 1])
            /\ \A j \in 1..Len(net[k]) : net[k][j] = net[k][i + 1] => j = i + 1
        BY <1>5, <3>1, <3>2 DEF Awaited
      <3>5. \A j \in 1..n-1 : net'[k][j] = net'[k][i] => j = i
        <4>1. ASSUME NEW j \in 1..n-1, net'[k][j] = net'[k][i]
              PROVE j = i
          <5>1. net[k][j + 1] = net[k][i + 1]
            BY <2>2, <4>1
          <5>2. j + 1 = i + 1
            BY <3>1, <3>4, <5>1
          <5> QED
            BY <5>2
        <4> QED
          BY <4>1
      <3> QED
        BY <3>2, <3>3, <3>4, <3>5
    <2>4. Awaited(k, net'[k], g, calls')
      BY <2>2, <2>3 DEF Awaited
    <2> QED
      BY <2>1, <2>4
  <1>11. \A d \in Callers : calls'[d].state = "done" => Answered(calls'[d])
    BY <1>7 DEF ReadsInv
  <1> QED
    BY <1>9, <1>10, <1>11 DEF ReadsInv, RunOf

LEMMA ReadsCrash ==
  ASSUME TypeOK, Crash
  PROVE ReadsInv'
  <1>1. ASSUME NEW k \in Keys
        PROVE \E h : IsRun(k, h, net'[k], redis'[k], settled'[k]) /\ Awaited(k, net'[k], h, calls')
    <2>1. redis'[k] \in Content(k) /\ settled'[k] = redis'[k] /\ net'[k] = <<>>
      BY ContentsIsPerKey DEF Crash, TypeOK
    <2>2. IsRun(k, [i \in {0} |-> redis'[k]], net'[k], redis'[k], settled'[k])
      BY <2>1, RunOfNothing DEF RunOf
    <2>3. Len(net'[k]) = 0
      BY <2>1
    <2>4. Awaited(k, net'[k], [i \in {0} |-> redis'[k]], calls')
      BY <2>3 DEF Awaited
    <2> QED
      BY <2>2, <2>4
  <1>2. \A c \in Callers : calls'[c].state # "done"
    BY DEF Crash
  <1> QED
    BY <1>1, <1>2 DEF ReadsInv, RunOf

LEMMA ReadsNext ==
  ASSUME TypeOK, QueueMatchesMap, ReadsInv, [Next]_vars
  PROVE ReadsInv'
  <1>1. CASE Update
    <2>1. PICK k \in Keys : \E info \in InfoOf(k) : Pend(k, info)
      BY <1>1, UpdateIsPend
    <2>2. UNCHANGED <<net, redis, settled, calls>>
      BY <2>1 DEF Pend
    <2> QED
      BY <2>2, ReadsQuiet
  <1>2. CASE Flush
    BY <1>2, ReadsFlush DEF Flush
  <1>3. ASSUME NEW c \in Callers, NEW k \in StringKeys, get(c, k)
        PROVE ReadsInv'
    <2>1. k \in Keys
      BY DEF Keys
    <2>2. SendRead(c, k) /\ (k \in StringKeys => mapValue[k] = NoInfo)
      BY <1>3 DEF get
    <2> QED
      BY <2>1, <2>2, AskedFits, ReadsSend
  <1>8. ASSUME NEW c \in Callers, NEW k \in HashKeys, getAll(c, k)
        PROVE ReadsInv'
    <2>1. k \in Keys
      BY DEF Keys
    <2>2. SendRead(c, k) /\ (k \in StringKeys => mapValue[k] = NoInfo)
      BY <1>8, KeyAssumption DEF getAll
    <2> QED
      BY <2>1, <2>2, AskedFits, ReadsSend
  <1>4. ASSUME NEW c \in Callers, Resume(c)
        PROVE ReadsInv'
    <2>1. UNCHANGED <<net, redis, settled>>
      BY <1>4 DEF Resume
    <2>2. \A d \in Callers : \/ calls'[d] = calls[d]
                             \/ calls[d].state # "waiting" /\ calls'[d].state = "idle"
      BY <1>4 DEF Resume, TypeOK
    <2> QED
      BY <2>1, <2>2, ReadsQuiet
  <1>5. ASSUME NEW k \in Keys, RedisExecute(k) \/ ReadFails(k)
        PROVE ReadsInv'
    BY <1>5, ReadsReceive
  <1>6. CASE Crash
    BY <1>6, ReadsCrash
  <1>7. CASE UNCHANGED vars
    BY <1>7, ReadsQuiet DEF vars
  <1> QED
    BY <1>1, <1>2, <1>3, <1>4, <1>5, <1>6, <1>7, <1>8 DEF Next

LEMMA ReadsInvariance == Spec => []ReadsInv
  BY ReadsInit, ReadsNext, Invariance, PTL DEF Spec

(* get returns what the key held when it was called, getAll that but for   *)
(* the fields whose writes were pending, and settled is what redis reaches *)
(* by executing what is in flight.                                         *)
THEOREM ReadsCorrect == Spec => []ReadsAreCurrent
  <1>1. ASSUME TypeOK, ReadsInv
        PROVE ReadsAreCurrent
    <2>1. SettledIsWhatRedisReaches
      <3>1. ASSUME NEW k \in Keys
            PROVE settled[k] = FoldLeft(LAMBDA c, cmd : Execute(k, c, cmd), redis[k], net[k])
        <4>1. PICK h : IsRun(k, h, net[k], redis[k], settled[k])
          BY <1>1 DEF ReadsInv, RunOf
        <4>2. net[k] \in Seq(CmdsOf(k) \cup Reads)
          BY <1>1 DEF TypeOK
        <4>3. Folded(k, net[k], redis[k]) = settled[k]
          BY <4>1, <4>2, FoldEndsRun
        <4>4. FoldLeft(LAMBDA c, cmd : Execute(k, c, cmd), redis[k], net[k])
                = Folded(k, net[k], redis[k])
          BY Zenon DEF FoldLeft, MapThenFoldSet, FoldStep, IsFold, Folded
        <4> QED
          BY <4>3, <4>4, Zenon
      <3> QED
        BY <3>1, Zenon DEF SettledIsWhatRedisReaches
    <2>2. GetIsCurrent
      BY <1>1 DEF ReadsInv, Answered, GetIsCurrent
    <2>3. GetAllMissesOnlyPending
      BY <1>1, KeyAssumption DEF ReadsInv, Answered, Fits, GetAllMissesOnlyPending
    <2> QED
      BY <2>1, <2>2, <2>3 DEF ReadsAreCurrent
  <1> QED
    BY <1>1, Invariance, ReadsInvariance, PTL

-----------------------------------------------------------------------------
(* Crashes.  CrashInv says of every content a key is still to go through   *)
(* what CrashKeepsRecent says of the one it has, since each of them may be *)
(* the one a crash finds.  For the content between the two commands of a   *)
(* hash it needs to know the pending entry: that a hash to be deleted as a *)
(* whole has been empty since it was last durable, and that no field is    *)
(* both to be deleted and to be set.                                       *)

Traceable(k, x, R) ==
  IF k \in StringKeys THEN x \in R ELSE \A f \in Fields : \E c \in R : x[f] = c[f]

EntriesInv ==
  \A k \in HashKeys :
    mapValue[k] # NoInfo =>
      /\ mapValue[k].isAll => EmptyHash \in recent[k]
      /\ \A f \in mapValue[k].delFields : mapValue[k].kv[f] = Nothing

CrashInv ==
  /\ \A k \in Keys : \E h : RunOf(k, h) /\ \A i \in 0..Len(net[k]) : Traceable(k, h[i], recent[k])
  /\ \A k \in Keys : View[k] \in recent[k]
  /\ EntriesInv
  /\ DurableIsExact

LEMMA KeyKinds ==
  ASSUME NEW k \in Keys
  PROVE k \in HashKeys <=> k \notin StringKeys
  BY KeyAssumption DEF Keys

(* The content between the two commands a flush sends for a hash.          *)
Between(k) == Execute(k, settled[k], Commands(mapValue[k])[1])

(* What a step adds to the contents a key is still to go through.          *)
GoesOn(k, h) ==
  \E g : /\ IsRun(k, g, net'[k], redis'[k], settled'[k])
         /\ \A i \in 0..Len(net'[k]) :
              \/ \E j \in 0..Len(net[k]) : g[i] = h[j]
              \/ g[i] = View[k]
              \/ /\ mapValue[k] # NoInfo /\ Len(Commands(mapValue[k])) = 2
                 /\ g[i] = Between(k)

LEMMA RunsNext ==
  ASSUME TypeOK, QueueMatchesMap, Next, NEW k \in Keys, NEW h, RunOf(k, h)
  PROVE GoesOn(k, h)
  <1> DEFINE n == Len(net[k])
  <1>0. /\ net[k] \in Seq(CmdsOf(k) \cup Reads) /\ n \in Nat
        /\ redis[k] \in Content(k) /\ settled[k] \in Content(k)
        /\ h[0] = redis[k] /\ h[n] = settled[k] /\ 0 \in 0..n /\ n \in 0..n
    BY ContentsIsPerKey, LenProperties DEF TypeOK, RunOf, IsRun
  <1>1. ASSUME net'[k] = net[k], redis'[k] = redis[k], settled'[k] = settled[k]
        PROVE GoesOn(k, h)
    <2>1. \A i \in 0..Len(net'[k]) : \E j \in 0..n : h[i] = h[j]
      BY <1>1
    <2> QED
      BY <1>1, <2>1 DEF RunOf, GoesOn
  <1>2. CASE Update
    <2>1. UNCHANGED <<net, redis, settled>>
      BY <1>2, UpdateIsPend DEF Pend
    <2> QED
      BY <1>1, <2>1
  <1>3. ASSUME NEW count \in 1..Len(queue), run(count)
        PROVE GoesOn(k, h)
    <2>1. CASE k \notin Popped(count)
      BY <1>1, <1>3, <2>1 DEF run
    <2>2. CASE k \in Popped(count)
      <3> DEFINE more == Commands(mapValue[k])
      <3>1. mapValue[k] \in InfoOf(k) /\ mapValue[k] # NoInfo
        <4>1. Len(queue) \in Nat
          BY LenProperties DEF TypeOK
        <4>2. PICK i \in 1..count : queue[i] = k
          BY <2>2 DEF Popped
        <4>3. i \in 1..Len(queue)
          BY <4>1
        <4> QED
          BY <4>2, <4>3 DEF QueueMatchesMap, TypeOK
      <3>2. more \in Seq(CmdsOf(k)) /\ Len(more) \in 0..2
        BY <3>1, CommandsType
      <3>3. net'[k] = net[k] \o more /\ settled'[k] = ExecuteAll(k, settled[k], more)
            /\ redis'[k] = redis[k]
        BY <1>3, <2>2 DEF run
      <3>4. ExecuteAll(k, settled[k], more) = View[k]
        BY <1>0, <3>1, FlushKeepsOverlay DEF View
      <3>5. Between(k) = Execute(k, settled[k], more[1])
        BY DEF Between
      <3> HIDE DEF more
      <3>6. PICK g : /\ IsRun(k, g, net[k] \o more, redis[k], ExecuteAll(k, settled[k], more))
                     /\ \A i \in 0..n : g[i] = h[i]
                     /\ \A i \in n+1 .. Len(net[k] \o more) :
                          \/ g[i] = ExecuteAll(k, settled[k], more)
                          \/ Len(more) = 2 /\ g[i] = Execute(k, settled[k], more[1])
        BY <1>0, <3>2, RunConcat DEF RunOf
      <3>7. \A i \in 0..Len(net'[k]) : i \in 0..n \/ i \in n+1 .. Len(net[k] \o more)
        BY <1>0, <3>3
      <3>8. ASSUME NEW i \in 0..Len(net'[k])
            PROVE \/ \E j \in 0..n : g[i] = h[j]
                  \/ g[i] = View[k]
                  \/ mapValue[k] # NoInfo /\ Len(more) = 2 /\ g[i] = Between(k)
        BY <3>1, <3>4, <3>5, <3>6, <3>7
      <3>9. IsRun(k, g, net'[k], redis'[k], settled'[k])
        BY <3>3, <3>6
      <3> QED
        BY <3>8, <3>9 DEF more, GoesOn
    <2> QED
      BY <2>1, <2>2
  <1>4. ASSUME NEW c \in Callers, NEW q \in Keys, SendRead(c, q)
        PROVE GoesOn(k, h)
    <2>1. redis' = redis /\ settled' = settled
      BY <1>4 DEF SendRead
    <2>2. CASE q # k
      <3>1. net'[k] = net[k]
        BY <1>4, <2>2 DEF SendRead, TypeOK
      <3> QED
        BY <1>1, <2>1, <3>1
    <2>3. CASE q = k
      <3> DEFINE g == Longer(h, n, settled[k])
      <3>1. net'[k] = Append(net[k], Read(c)) /\ Read(c) \in Reads
        BY <1>4, <2>3 DEF SendRead, TypeOK, Reads
      <3>2. Execute(k, settled[k], Read(c)) = settled[k]
        BY <1>0, <3>1, ExecuteReadType
      <3>3. IsRun(k, g, net'[k], redis[k], settled[k])
        BY <1>0, <3>1, <3>2, RunAppend DEF RunOf
      <3>4. Len(net'[k]) = n + 1
        BY <1>0, <3>1, AppendProperties
      <3>5. ASSUME NEW i \in 0..n+1
            PROVE \E j \in 0..n : g[i] = h[j]
        <4>1. CASE i = n + 1
          <5>1. g[i] = h[n]
            BY <1>0, <4>1 DEF Longer
          <5> QED
            BY <1>0, <5>1
        <4>2. CASE i # n + 1
          <5>1. g[i] = h[i] /\ i \in 0..n
            BY <1>0, <4>2 DEF Longer
          <5> QED
            BY <5>1
        <4> QED
          BY <4>1, <4>2
      <3> HIDE DEF g
      <3>6. IsRun(k, g, net'[k], redis'[k], settled'[k])
        BY <2>1, <3>3
      <3>7. \A i \in 0..Len(net'[k]) : \E j \in 0..Len(net[k]) : g[i] = h[j]
        BY <3>4, <3>5
      <3> QED
        BY <3>6, <3>7 DEF GoesOn
    <2> QED
      BY <2>2, <2>3
  <1>5. ASSUME NEW c \in Callers, Resume(c)
        PROVE GoesOn(k, h)
    BY <1>1, <1>5 DEF Resume
  <1>6. ASSUME NEW q \in Keys, RedisExecute(q) \/ ReadFails(q)
        PROVE GoesOn(k, h)
    <2>1. settled' = settled /\ net[q] # <<>> /\ redis = [p \in Keys |-> redis[p]]
      BY <1>6, ContentsIsPerKey DEF RedisExecute, ReadFails, TypeOK
    <2>2. CASE q # k
      <3>1. net'[k] = net[k] /\ redis'[k] = redis[k]
        BY <1>6, <2>1, <2>2 DEF RedisExecute, ReadFails, TypeOK
      <3> QED
        BY <1>1, <2>1, <3>1
    <2>3. CASE q = k
      <3> DEFINE g == Shifted(h, n)
      <3>1. net'[k] = Tail(net[k])
        BY <1>6, <2>3 DEF RedisExecute, ReadFails, TypeOK
      <3>2. redis'[k] = Execute(k, redis[k], Head(net[k]))
        <4>1. CASE RedisExecute(k)
          BY <2>1, <4>1 DEF RedisExecute
        <4>2. CASE ReadFails(k)
          <5>1. Head(net[k]) \in Reads
            BY <1>0, <4>2, HeadTailProperties, OpOfRead DEF ReadFails
          <5> QED
            BY <1>0, <4>2, <5>1, ExecuteReadType DEF ReadFails
        <4> QED
          BY <1>6, <2>3, <4>1, <4>2
      <3>3. /\ IsRun(k, g, net'[k], redis'[k], settled[k])
            /\ n \in Nat \ {0} /\ Len(net'[k]) = n - 1
            /\ \A i \in 0..Len(net'[k]) : g[i] = h[i + 1]
        <4>1. IsRun(k, h, net[k], redis[k], settled[k]) /\ net[k] # <<>>
          BY <2>1, <2>3 DEF RunOf
        <4>2. /\ IsRun(k, g, Tail(net[k]), Execute(k, redis[k], Head(net[k])), settled[k])
              /\ n \in Nat \ {0} /\ Len(Tail(net[k])) = n - 1
              /\ \A i \in 0..Len(Tail(net[k])) : g[i] = h[i + 1]
          BY <1>0, <4>1, RunTail
        <4> HIDE DEF g, n
        <4> QED
          BY <3>1, <3>2, <4>2
      <3>4. \A i \in 0..Len(net'[k]) : i + 1 \in 0..n
        BY <3>3
      <3> HIDE DEF g
      <3> QED
        BY <2>1, <3>3, <3>4 DEF GoesOn
    <2> QED
      BY <2>2, <2>3
  <1>7. ASSUME Crash
        PROVE GoesOn(k, h)
    <2> DEFINE g == [i \in {0} |-> redis[k]]
    <2>1. redis'[k] = redis[k] /\ settled'[k] = redis[k] /\ net'[k] = <<>>
      BY <1>7 DEF Crash
    <2>2. IsRun(k, g, net'[k], redis'[k], settled'[k])
      BY <1>0, <2>1, RunOfNothing
    <2>3. Len(net'[k]) = 0 /\ g[0] = h[0] /\ \A i \in 0..0 : i = 0
      BY <1>0, <2>1
    <2> HIDE DEF g
    <2> QED
      BY <1>0, <2>2, <2>3 DEF GoesOn
  <1>8. ASSUME NEW c \in Callers,
               \/ \E q \in StringKeys : get(c, q)
               \/ \E q \in HashKeys : getAll(c, q)
        PROVE GoesOn(k, h)
    <2>1. PICK q \in Keys : SendRead(c, q)
      BY <1>8 DEF get, getAll, Keys
    <2> QED
      BY <1>4, <2>1
  <1>9. CASE Flush
    BY <1>3, <1>9 DEF Flush
  <1> QED
    BY <1>2, <1>5, <1>6, <1>7, <1>8, <1>9 DEF Next


(* A run of reads goes nowhere.                                            *)
OnlyReads(cmds) == \A i \in DOMAIN cmds : cmds[i].op = "read"

LEMMA RunOfReads ==
  ASSUME NEW k \in Keys, NEW cmds \in Seq(CmdsOf(k) \cup Reads), NEW from, NEW to, NEW h,
         IsRun(k, h, cmds, from, to), OnlyReads(cmds)
  PROVE (\A i \in 0..Len(cmds) : h[i] = from) /\ to = from
  <1> DEFINE n == Len(cmds)
             Bad == {i \in 0..n : h[i] # from}
  <1>1. n \in Nat /\ DOMAIN cmds = 1..n
    BY LenProperties
  <1>2. h \in [0..n -> Content(k)] /\ h[0] = from /\ h[n] = to
        /\ \A i \in 1..n : h[i] = Execute(k, h[i - 1], cmds[i])
    BY DEF IsRun
  <1> HIDE DEF n
  <1>3. Bad = {}
    <2>1. SUFFICES ASSUME Bad # {} PROVE FALSE
      OBVIOUS
    <2>2. Bad \in SUBSET Nat
      BY <1>1
    <2>3. PICK i \in Bad : \A y \in Bad : i <= y
      BY <2>1, <2>2, LeastOf
    <2>4. i # 0
      BY <1>2, <2>3
    <2>5. i \in 1..n /\ i - 1 \in 0..n /\ i - 1 \notin Bad
      BY <1>1, <2>3, <2>4
    <2>6. h[i - 1] = from
      BY <2>5
    <2>7. cmds[i] \in Reads
      BY <1>1, <2>5, ElementOfSeq, OpOfRead DEF OnlyReads
    <2>8. h[i] = h[i - 1]
      BY <1>2, <2>5, <2>7, ExecuteReadType
    <2> QED
      BY <2>3, <2>6, <2>8
  <1>4. n \in 0..n
    BY <1>1
  <1> QED
    BY <1>2, <1>3, <1>4 DEF n

(* Once no write is in flight, redis and what it is to reach are one.      *)
NoWrites(cmds) == Cardinality({i \in DOMAIN cmds : cmds[i].op # "read"}) = 0

LEMMA RunWithoutWrites ==
  ASSUME NEW k \in Keys, NEW cmds \in Seq(CmdsOf(k) \cup Reads), NEW from, NEW to, NEW h,
         IsRun(k, h, cmds, from, to),
         NoWrites(cmds)
  PROVE (\A i \in 0..Len(cmds) : h[i] = from) /\ to = from
  <1> DEFINE W == {i \in DOMAIN cmds : cmds[i].op # "read"}
  <1>1. Len(cmds) \in Nat /\ DOMAIN cmds = 1..Len(cmds)
    BY LenProperties
  <1>2. IsFiniteSet(W)
    <2>1. W \subseteq 1..Len(cmds)
      BY <1>1
    <2>2. IsFiniteSet(1..Len(cmds))
      BY <1>1, FS_Interval
    <2> QED
      BY <2>1, <2>2, FS_Subset
  <1>3. W = {}
    <2> HIDE DEF W
    <2>1. Cardinality(W) = 0
      BY DEF W, NoWrites
    <2> QED
      BY <1>2, <2>1, FS_EmptySet
  <1>4. OnlyReads(cmds)
    BY <1>3 DEF OnlyReads
  <1> QED
    BY <1>4, RunOfReads

(* What a crash between the two commands of a hash finds.                  *)
LEMMA BetweenTraceable ==
  ASSUME TypeOK, CrashInv, NEW k \in Keys, mapValue[k] # NoInfo,
         Len(Commands(mapValue[k])) = 2
  PROVE Traceable(k, Between(k), recent[k])
  <1> DEFINE info == mapValue[k]
  <1>1. info \in InfoOf(k)
    BY DEF TypeOK
  <1>2. CASE k \in StringKeys
    <2>1. info.rtype = "string"
      BY <1>1, <1>2 DEF InfoOf, StringInfo
    <2>2. Commands(info) = DoString(info)
      BY <2>1 DEF Commands
    <2>3. Len(DoString(info)) # 2
      BY DEF DoString
    <2> QED
      BY <2>2, <2>3
  <1>3. CASE k \notin StringKeys
    <2>1. info \in HashInfo /\ k \in HashKeys
      BY <1>1, <1>3, KeyKinds DEF InfoOf
    <2>2. Commands(info) = DoHash(info)
      BY <2>1 DEF HashInfo, Commands
    <2>3. settled[k] \in [Fields -> Stored]
      BY <1>3, ContentsIsPerKey DEF TypeOK, Content
    <2>4. PICK h : RunOf(k, h) /\ \A i \in 0..Len(net[k]) : Traceable(k, h[i], recent[k])
      BY DEF CrashInv
    <2>5. Traceable(k, settled[k], recent[k])
      <3>1. Len(net[k]) \in 0..Len(net[k]) /\ h[Len(net[k])] = settled[k]
        BY <2>4, LenProperties DEF RunOf, IsRun, TypeOK
      <3> QED
        BY <2>4, <3>1
    <2>6. CASE info.isAll
      <3>1. DoHash(info)[1] = Delete
        <4>1. DoHash(info) = <<Delete>> \o (IF info.kv # EmptyHash THEN <<HMSet(Encoded(info.kv))>> ELSE <<>>)
          BY <2>6 DEF DoHash
        <4>2. CASE info.kv # EmptyHash
          <5>1. DoHash(info) = <<Delete, HMSet(Encoded(info.kv))>>
            BY <4>1, <4>2, ConcatSingletons
          <5> QED
            BY <5>1
        <4>3. CASE info.kv = EmptyHash
          BY <2>2, <4>1, <4>3
        <4> QED
          BY <4>2, <4>3
      <3>2. Between(k) = EmptyHash
        BY <1>3, <2>2, <3>1 DEF Between, Execute, Delete, Absent
      <3>3. EmptyHash \in recent[k]
        BY <2>1, <2>6 DEF CrashInv, EntriesInv
      <3> QED
        BY <1>3, <3>2, <3>3 DEF Traceable
    <2>7. CASE ~ info.isAll
      <3>1. DoHash(info)[1] = HMDel(info.delFields)
        <4>1. info.delFields # {} /\ info.kv # EmptyHash
          <5>1. SUFFICES ASSUME info.delFields = {} \/ info.kv = EmptyHash PROVE FALSE
            OBVIOUS
          <5>2. /\ <<>> \o <<>> = <<>> /\ Len(<<>>) = 0
                /\ Len(<<HMDel(info.delFields)>> \o <<>>) = 1
                /\ Len(<<HMSet(Encoded(info.kv))>>) = 1
            OBVIOUS
          <5>3. CASE info.delFields = {}
            <6>1. DoHash(info) = <<>> \o <<>> \/ DoHash(info) = <<HMSet(Encoded(info.kv))>>
              BY <2>7, <5>3, ConcatSingletons DEF DoHash
            <6>2. Len(DoHash(info)) # 2
              BY <5>2, <6>1
            <6> QED
              BY <2>2, <6>2
          <5>4. CASE info.delFields # {} /\ info.kv = EmptyHash
            <6>1. DoHash(info) = <<HMDel(info.delFields)>> \o <<>>
              BY <2>7, <5>4 DEF DoHash
            <6>2. Len(DoHash(info)) # 2
              BY <5>2, <6>1
            <6> QED
              BY <2>2, <6>2
          <5> QED
            BY <5>1, <5>3, <5>4
        <4>2. DoHash(info) = <<HMDel(info.delFields)>> \o <<HMSet(Encoded(info.kv))>>
          BY <2>7, <4>1 DEF DoHash
        <4>3. DoHash(info) = <<HMDel(info.delFields), HMSet(Encoded(info.kv))>>
          BY <4>2, ConcatSingletons
        <4> QED
          BY <4>3
      <3>2. Between(k) = [f \in Fields |-> IF f \in info.delFields THEN Nothing ELSE settled[k][f]]
        BY <2>2, <3>1 DEF Between, Execute, HMDel
      <3>3. ASSUME NEW f \in Fields
            PROVE \E c \in recent[k] : Between(k)[f] = c[f]
        <4>1. CASE f \notin info.delFields
          BY <1>3, <2>5, <3>2, <4>1 DEF Traceable
        <4>2. CASE f \in info.delFields
          <5>1. info.kv[f] = Nothing
            BY <2>1, <4>2 DEF CrashInv, EntriesInv
          <5>2. info.rtype = "hash"
            BY <2>1 DEF HashInfo
          <5>3. View[k][f] = Nothing
            BY <4>2, <5>1, <5>2, ValueAssumption DEF View, Overlay, Good
          <5>4. View[k] \in recent[k]
            BY DEF CrashInv
          <5> QED
            BY <3>2, <4>2, <5>3, <5>4
        <4> QED
          BY <4>1, <4>2
      <3> QED
        BY <1>3, <3>3 DEF Traceable
    <2> QED
      BY <2>6, <2>7
  <1> QED
    BY <1>2, <1>3

(* Nothing but deleteHash makes an entry delete the whole hash, and then   *)
(* the hash is empty for its service; a field is deleted or set, not both. *)
LEMMA EntriesNext ==
  ASSUME TypeOK, EntriesInv, [Next]_vars, NEW k \in HashKeys, mapValue'[k] # NoInfo
  PROVE /\ mapValue'[k].isAll =>
             View'[k] = EmptyHash \/ (mapValue[k] # NoInfo /\ EmptyHash \in recent[k])
        /\ \A f \in mapValue'[k].delFields : mapValue'[k].kv[f] = Nothing
  <1>0. k \in Keys /\ k \notin StringKeys
    BY KeyAssumption DEF Keys
  <1>1. CASE mapValue'[k] = mapValue[k]
    BY <1>1 DEF EntriesInv
  <1>2. ASSUME NEW q, Pend(q, mapValue'[q]), q # k
        PROVE mapValue'[k] = mapValue[k]
    BY <1>0, <1>2 DEF Pend, TypeOK
  <1>3. Pending(k) \in HashInfo
        /\ (Pending(k).isAll => mapValue[k] # NoInfo /\ EmptyHash \in recent[k])
        /\ \A f \in Pending(k).delFields : Pending(k).kv[f] = Nothing
    <2>1. CASE mapValue[k] = NoInfo
      BY <2>1 DEF Pending, NewHashInfo, EmptyHash, HashInfo, Value
    <2>2. CASE mapValue[k] # NoInfo
      BY <1>0, <2>2 DEF Pending, EntriesInv, TypeOK, InfoOf
    <2> QED
      BY <2>1, <2>2
  <1>4. ASSUME NEW q \in StringKeys, deleteKey(q) \/ \E v \in Vals : pushString(q, v)
        PROVE mapValue'[k] = mapValue[k]
    BY <1>0, <1>4 DEF deleteKey, pushString, Pend, TypeOK
  <1>5. ASSUME NEW q \in HashKeys, q # k,
               \/ deleteHashAll(q)
               \/ \E f \in Fields : deleteHashField(q, f)
               \/ \E values \in [Fields -> Value] : pushHash(q, values)
        PROVE mapValue'[k] = mapValue[k]
    BY <1>0, <1>5 DEF deleteHashAll, deleteHashField, pushHash, Pend, TypeOK
  <1>6. CASE deleteHashAll(k)
    <2>1. mapValue'[k] = [NewHashInfo EXCEPT !.isAll = TRUE]
      BY <1>0, <1>6 DEF deleteHashAll, Pend, TypeOK
    <2>2. mapValue'[k].rtype = "hash" /\ mapValue'[k].isAll = TRUE /\ mapValue'[k].kv = EmptyHash
          /\ mapValue'[k].delFields = {}
      BY <2>1 DEF NewHashInfo
    <2>3. View'[k] = EmptyHash
      BY <1>0, <2>2, ValueAssumption DEF View, Overlay, EmptyHash, Good
    <2>4. \A f \in mapValue'[k].delFields : mapValue'[k].kv[f] = Nothing
      BY <2>2
    <2> QED
      BY <2>3, <2>4
  <1>7. ASSUME NEW f \in Fields, deleteHashField(k, f)
        PROVE /\ mapValue'[k].isAll => mapValue[k] # NoInfo /\ EmptyHash \in recent[k]
              /\ \A d \in mapValue'[k].delFields : mapValue'[k].kv[d] = Nothing
    <2>1. mapValue'[k] = DropField(Pending(k), f)
      BY <1>0, <1>7 DEF deleteHashField, Pend, TypeOK
    <2>2. /\ mapValue'[k].isAll = Pending(k).isAll
          /\ mapValue'[k].delFields \subseteq Pending(k).delFields \cup {f}
          /\ mapValue'[k].kv = [Pending(k).kv EXCEPT ![f] = Nothing]
      BY <1>3, <2>1 DEF DropField, HashInfo
    <2>3. Pending(k).kv \in [Fields -> Value] /\ Pending(k).delFields \subseteq Fields
      BY <1>3 DEF HashInfo
    <2> QED
      BY <1>3, <2>2, <2>3
  <1>8. ASSUME NEW values \in [Fields -> Value], pushHash(k, values)
        PROVE /\ mapValue'[k].isAll => mapValue[k] # NoInfo /\ EmptyHash \in recent[k]
              /\ \A d \in mapValue'[k].delFields : mapValue'[k].kv[d] = Nothing
    <2>1. mapValue'[k] = MergeHash(Pending(k), values)
      BY <1>0, <1>8 DEF pushHash, Pend, TypeOK
    <2>2. /\ mapValue'[k].isAll = Pending(k).isAll
          /\ mapValue'[k].delFields = {f \in Pending(k).delFields : values[f] = Nothing}
          /\ mapValue'[k].kv = [f \in Fields |-> IF values[f] # Nothing THEN values[f]
                                                ELSE Pending(k).kv[f]]
      BY <1>3, <2>1 DEF MergeHash, HashInfo
    <2>3. Pending(k).delFields \subseteq Fields
      BY <1>3 DEF HashInfo
    <2> QED
      BY <1>3, <2>2, <2>3
  <1>9. ASSUME NEW count \in 1..Len(queue), run(count)
        PROVE mapValue'[k] = mapValue[k]
    BY <1>0, <1>9 DEF run
  <1>10. CASE Crash
    BY <1>0, <1>10 DEF Crash
  <1>11. ASSUME NEW c \in Callers, Resume(c) \/ \E q \in Keys : SendRead(c, q)
         PROVE mapValue'[k] = mapValue[k]
    BY <1>11 DEF Resume, SendRead
  <1>12. ASSUME NEW q \in Keys, RedisExecute(q) \/ ReadFails(q)
         PROVE mapValue'[k] = mapValue[k]
    BY <1>12 DEF RedisExecute, ReadFails
  <1>13. CASE UNCHANGED vars
    BY <1>1, <1>13 DEF vars
  <1>14. CASE Update
    <2>1. CASE \E q \in StringKeys : deleteKey(q) \/ \E v \in Vals : pushString(q, v)
      BY <1>1, <1>4, <2>1
    <2>2. ASSUME NEW q \in HashKeys,
                 \/ deleteHashAll(q)
                 \/ \E f \in Fields : deleteHashField(q, f)
                 \/ \E values \in [Fields -> Value] : pushHash(q, values)
          PROVE /\ mapValue'[k].isAll =>
                     View'[k] = EmptyHash \/ (mapValue[k] # NoInfo /\ EmptyHash \in recent[k])
                /\ \A f \in mapValue'[k].delFields : mapValue'[k].kv[f] = Nothing
      <3>1. CASE q # k
        BY <1>1, <1>5, <2>2, <3>1
      <3>2. CASE q = k
        BY <1>6, <1>7, <1>8, <2>2, <3>2
      <3> QED
        BY <3>1, <3>2
    <2> QED
      BY <1>14, <2>1, <2>2 DEF Update
  <1>15. CASE Flush
    BY <1>1, <1>9, <1>15 DEF Flush
  <1>16. ASSUME NEW c \in Callers,
                \/ \E q \in StringKeys : get(c, q)
                \/ \E q \in HashKeys : getAll(c, q)
                \/ Resume(c)
         PROVE mapValue'[k] = mapValue[k]
    BY <1>11, <1>16 DEF get, getAll, Keys
  <1> QED
    BY <1>1, <1>10, <1>12, <1>13, <1>14, <1>15, <1>16 DEF Next

LEMMA CrashInit ==
  ASSUME DInit
  PROVE CrashInv
  <1>1. ASSUME NEW k \in Keys
        PROVE /\ \E h : RunOf(k, h) /\ \A i \in 0..Len(net[k]) : Traceable(k, h[i], recent[k])
              /\ View[k] = redis[k] /\ recent[k] = {redis[k]}
    <2>1. redis[k] \in Content(k) /\ settled[k] = redis[k] /\ net[k] = <<>>
          /\ mapValue[k] = NoInfo /\ recent[k] = {redis[k]}
      BY ContentsIsPerKey DEF Init, DInit
    <2> DEFINE h == [i \in {0} |-> redis[k]]
    <2>2. RunOf(k, h)
      BY <2>1, RunOfNothing DEF RunOf
    <2>3. \A i \in 0..Len(net[k]) : h[i] = redis[k]
      BY <2>1
    <2>4. Traceable(k, redis[k], recent[k])
      BY <2>1 DEF Traceable
    <2>5. View[k] = redis[k]
      BY <2>1 DEF View, Overlay, NoInfo
    <2> HIDE DEF h
    <2> QED
      BY <2>1, <2>2, <2>3, <2>4, <2>5
  <1>2. EntriesInv
    BY DEF EntriesInv, DInit, Init, Keys
  <1>3. DurableIsExact
    BY <1>1 DEF DurableIsExact
  <1> QED
    BY <1>1, <1>2, <1>3 DEF CrashInv

LEMMA CrashNext ==
  ASSUME TypeOK, QueueMatchesMap, CrashInv, DNext, TypeOK'
  PROVE CrashInv'
  <1>1. Next /\ recent' = [k \in Keys |-> IF Durable(k)' THEN {View'[k]} ELSE recent[k] \cup {View'[k]}]
    BY DEF DNext
  <1>2. ASSUME NEW k \in Keys
        PROVE /\ View'[k] \in recent'[k]
              /\ ~ Durable(k)' => recent'[k] = recent[k] \cup {View'[k]}
              /\ Durable(k)' => recent'[k] = {View'[k]}
    BY <1>1
  <1>3. ASSUME NEW k \in Keys
        PROVE /\ \E g : /\ IsRun(k, g, net'[k], redis'[k], settled'[k])
                        /\ \A i \in 0..Len(net'[k]) : Traceable(k, g[i], recent'[k])
              /\ Durable(k)' => recent'[k] = {redis'[k]}
    <2>1. PICK h : RunOf(k, h) /\ \A i \in 0..Len(net[k]) : Traceable(k, h[i], recent[k])
      BY DEF CrashInv
    <2>2. PICK g : /\ IsRun(k, g, net'[k], redis'[k], settled'[k])
                   /\ \A i \in 0..Len(net'[k]) :
                        \/ \E j \in 0..Len(net[k]) : g[i] = h[j]
                        \/ g[i] = View[k]
                        \/ /\ mapValue[k] # NoInfo /\ Len(Commands(mapValue[k])) = 2
                           /\ g[i] = Between(k)
      BY <1>1, <2>1, RunsNext DEF GoesOn
    <2>3. CASE Durable(k)'
      <3>0. net'[k] \in Seq(CmdsOf(k) \cup Reads) /\ mapValue'[k] = NoInfo
            /\ NoWrites(net'[k])
        BY <2>3 DEF TypeOK, Durable, WritesInNet, NoWrites
      <3>1. (\A i \in 0..Len(net'[k]) : g[i] = redis'[k]) /\ View'[k] = redis'[k]
        <4>1. (\A i \in 0..Len(net'[k]) : g[i] = redis'[k]) /\ settled'[k] = redis'[k]
          BY <2>2, <3>0, RunWithoutWrites
        <4>2. View'[k] = settled'[k]
          BY <3>0 DEF View, Overlay, NoInfo
        <4> QED
          BY <4>1, <4>2
      <3>2. recent'[k] = {redis'[k]}
        BY <1>2, <2>3, <3>1
      <3>3. Traceable(k, redis'[k], recent'[k])
        BY <3>2 DEF Traceable
      <3> QED
        BY <2>2, <3>1, <3>2, <3>3
    <2>4. CASE ~ Durable(k)'
      <3>1. recent[k] \subseteq recent'[k]
        BY <1>2, <2>4
      <3>2. \A x : Traceable(k, x, recent[k]) => Traceable(k, x, recent'[k])
        BY <3>1 DEF Traceable
      <3>3. Traceable(k, View[k], recent[k])
        BY DEF Traceable, CrashInv
      <3>4. ASSUME NEW i \in 0..Len(net'[k])
            PROVE Traceable(k, g[i], recent'[k])
        BY <2>1, <2>2, <3>2, <3>3, BetweenTraceable
      <3> QED
        BY <2>2, <2>4, <3>4
    <2> QED
      BY <2>3, <2>4
  <1>4. EntriesInv'
    <2>1. ASSUME NEW k \in HashKeys, mapValue'[k] # NoInfo
          PROVE /\ mapValue'[k].isAll => EmptyHash \in recent'[k]
                /\ \A f \in mapValue'[k].delFields : mapValue'[k].kv[f] = Nothing
      <3>1. /\ mapValue'[k].isAll => View'[k] = EmptyHash \/ EmptyHash \in recent[k]
            /\ \A f \in mapValue'[k].delFields : mapValue'[k].kv[f] = Nothing
        BY <1>1, <2>1, EntriesNext DEF CrashInv
      <3>2. ~ Durable(k)' /\ k \in Keys
        BY <2>1 DEF Durable, Keys
      <3> QED
        BY <1>2, <3>1, <3>2
    <2> QED
      BY <2>1 DEF EntriesInv
  <1>5. DurableIsExact'
    BY <1>3 DEF DurableIsExact
  <1> QED
    BY <1>2, <1>3, <1>4, <1>5 DEF CrashInv, RunOf

LEMMA CrashInvariance == DSpec => [](TypeOK /\ QueueMatchesMap /\ CrashInv)
  <1>1. DInit => Init
    BY DEF DInit
  <1>2. TypeOK /\ QueueMatchesMap /\ CrashInv /\ DNext => TypeOK' /\ QueueMatchesMap' /\ CrashInv'
    BY NextInvariant, CrashNext DEF DNext
  <1>3. TypeOK /\ QueueMatchesMap /\ CrashInv /\ UNCHANGED dvars
          => TypeOK' /\ QueueMatchesMap' /\ CrashInv'
    <2>1. ASSUME TypeOK, QueueMatchesMap, CrashInv, UNCHANGED dvars
          PROVE TypeOK' /\ QueueMatchesMap' /\ CrashInv'
      <3>1. UNCHANGED vars /\ recent' = recent
        BY <2>1 DEF dvars
      <3>2. TypeOK' /\ QueueMatchesMap'
        BY <2>1, <3>1, NextInvariant
      <3>3. CrashInv'
        BY <2>1, <3>1 DEF CrashInv, RunOf, View, EntriesInv, DurableIsExact, Durable,
                          WritesInNet, vars
      <3> QED
        BY <3>2, <3>3
    <2> QED
      BY <2>1
  <1> QED
    BY <1>1, <1>2, <1>3, InitInvariant, CrashInit, PTL DEF DSpec

(* A crash finds each key in a state made of contents it had since it was  *)
(* last durable, and what was durable it finds exactly.                    *)
THEOREM CrashCorrect == DSpec => []CrashCostsOnlyRecent
  <1>1. ASSUME TypeOK, CrashInv
        PROVE CrashCostsOnlyRecent
    <2>1. ASSUME NEW k \in Keys
          PROVE Traceable(k, redis[k], recent[k])
      <3>1. PICK h : RunOf(k, h) /\ \A i \in 0..Len(net[k]) : Traceable(k, h[i], recent[k])
        BY <1>1 DEF CrashInv
      <3>2. 0 \in 0..Len(net[k]) /\ h[0] = redis[k]
        BY <1>1, <3>1, LenProperties DEF RunOf, IsRun, TypeOK
      <3> QED
        BY <3>1, <3>2
    <2>2. CrashKeepsRecent
      BY <2>1, KeyKinds DEF CrashKeepsRecent, Traceable, Keys
    <2> QED
      BY <1>1, <2>2 DEF CrashInv, CrashCostsOnlyRecent
  <1> QED
    BY <1>1, CrashInvariance, PTL
=============================================================================
