-------------------------- MODULE ConnectionProofs --------------------------
(***************************************************************************)
(* Proofs about Connection, for every set of addresses and keys and every  *)
(* bound.  Tables is inductive whatever clients do; it needs Unused, that  *)
(* a conv not given out yet has no connection, and the finiteness of the   *)
(* table for its count.  Agreement, what holds until an address is taken   *)
(* over, is inductive beside it.                                           *)
(***************************************************************************)
EXTENDS Connection, FiniteSetTheorems, TLAPS

(* A conv that was not given out yet was never a connection.               *)
Unused == \A conv \in Convs : conv > cur_conv => ~Live(conv) /\ told[conv] = "none"

Tables == TypeOK /\ AddressesAreLive /\ CountMatches /\ Unused

Agreement == ConnectionsAreFound /\ OwnerIsRight

USE BoundAssumption, TimeAssumption

(* The records of the table are told from its empty entries.               *)
LEMMA ConnltIsLive == \A c \in Connlt : c # NoConn
  BY DEF Connlt, NoConn

(* Convs is finite, and so is every set of them.                           *)
LEMMA ConvsFinite == \A S \in SUBSET Convs : IsFiniteSet(S) /\ Cardinality(S) \in Nat
  <1>1. IsFiniteSet(Convs)
    BY FS_Interval, 1 \in Int, MaxConv \in Int DEF Convs
  <1> QED
    BY <1>1, FS_Subset, FS_CardinalityType

(* The empty tables are consistent.                                        *)
LEMMA InitTables == Init => Tables
  <1> SUFFICES ASSUME Init PROVE Tables
    OBVIOUS
  <1>1. TypeOK
    <2>1. taken \in BOOLEAN
      BY Zenon DEF Init
    <2> QED
      BY <2>1 DEF Init, TypeOK, Convs, NotReleased
  <1>2. LiveConvs = {}
    BY DEF Init, LiveConvs, Live
  <1>3. CountMatches
    BY <1>2, FS_EmptySet DEF Init, CountMatches
  <1> QED
    BY <1>1, <1>3 DEF Init, Tables, AddressesAreLive, Unused, Live

(* Nobody is connected and nobody was told.                                *)
LEMMA InitAgreement == Init => Agreement
  BY DEF Init, Agreement, ConnectionsAreFound, OwnerIsRight, LiveConvs, Live

-----------------------------------------------------------------------------
(* What disconnecting does to the tables.                                  *)

(* Only live connections are removed.                                      *)
LEMMA RemovedIsLive ==
  ASSUME Tables, NEW S \in SUBSET LiveConvs
  PROVE Removed(S) \subseteq LiveConvs
  <1> SUFFICES ASSUME NEW conv \in S, fromConvMap[connMap[conv].from] # 0
               PROVE fromConvMap[connMap[conv].from] \in LiveConvs
    BY DEF Removed
  <1>1. connMap[conv] \in Connlt
    BY DEF LiveConvs, Live, Tables, TypeOK
  <1>2. connMap[conv].from \in Addrs
    BY <1>1 DEF Connlt
  <1> QED
    BY <1>2 DEF Tables, TypeOK, AddressesAreLive, LiveConvs, Convs

(* Disconnecting keeps the tables consistent.                              *)
LEMMA DisconnectTables ==
  ASSUME Tables, NEW S \in SUBSET LiveConvs, disconnectclients(S), cur_conv' = cur_conv,
         releaseMap' \in [Convs -> {NotReleased} \cup 0..Wait]
  PROVE Tables'
  <1>1. Removed(S) \subseteq LiveConvs
    BY RemovedIsLive
  <1> DEFINE gone == Removed(S)
  <1>2. connMap' = [conv \in Convs |-> IF conv \in gone THEN NoConn ELSE connMap[conv]]
    BY DEF disconnectclients
  <1>3. \A conv \in Convs : connMap'[conv] = IF conv \in gone THEN NoConn ELSE connMap[conv]
    BY <1>2
  <1>4. \A a \in Addrs : fromConvMap'[a] = IF \E conv \in S : connMap[conv].from = a
                                           THEN 0 ELSE fromConvMap[a]
    BY DEF disconnectclients
  <1>5. LiveConvs' = LiveConvs \ gone
    BY <1>3 DEF LiveConvs, Live
  <1>6. /\ IsFiniteSet(LiveConvs) /\ IsFiniteSet(gone) /\ IsFiniteSet(LiveConvs \ gone)
        /\ Cardinality(LiveConvs) \in Nat /\ Cardinality(gone) \in Nat
        /\ Cardinality(LiveConvs \ gone) \in Nat
    <2>1. LiveConvs \in SUBSET Convs /\ gone \in SUBSET Convs /\ LiveConvs \ gone \in SUBSET Convs
      BY <1>1 DEF LiveConvs
    <2> QED
      BY <2>1, ConvsFinite
  <1>7. Cardinality(LiveConvs \ gone) = Cardinality(LiveConvs) - Cardinality(gone)
    <2>1. LiveConvs \cap gone = gone
      BY <1>1
    <2> QED
      BY <1>6, <2>1, FS_Difference
  <1>8. CountMatches'
    BY <1>5, <1>7 DEF CountMatches, Tables, disconnectclients
  <1>9. TypeOK'
    <2>1. connMap' \in [Convs -> Connlt \cup {NoConn}]
      BY <1>2 DEF Tables, TypeOK
    <2>2. fromConvMap' \in [Addrs -> 0..MaxConv]
      BY DEF disconnectclients, Tables, TypeOK
    <2>3. client_number' \in Nat
      BY <1>5, <1>6, <1>8 DEF CountMatches
    <2>4. told' \in [Convs -> {"none", "up", "down", "again"}]
      BY DEF disconnectclients, Tables, TypeOK, ToldOf
    <2>5. taken' \in BOOLEAN
      BY Zenon DEF disconnectclients, Tables, TypeOK
    <2> QED
      BY <2>1, <2>2, <2>3, <2>4, <2>5 DEF Tables, TypeOK
  <1>10. AddressesAreLive'
    <2> SUFFICES ASSUME NEW a \in Addrs, fromConvMap'[a] # 0
                 PROVE Live(fromConvMap[a])' /\ connMap'[fromConvMap'[a]].from = a
      BY DEF AddressesAreLive
    <2>1. fromConvMap'[a] = fromConvMap[a] /\ \A conv \in S : connMap[conv].from # a
      BY <1>4
    <2>2. fromConvMap[a] \in Convs
      BY <2>1 DEF Tables, TypeOK, Convs
    <2>3. Live(fromConvMap[a]) /\ connMap[fromConvMap[a]].from = a
      BY <2>1 DEF Tables, AddressesAreLive
    <2>4. fromConvMap[a] \notin gone
      <3> SUFFICES ASSUME NEW conv \in S, fromConvMap[a] = fromConvMap[connMap[conv].from]
                   PROVE FALSE
        BY DEF Removed
      <3>1. connMap[conv] \in Connlt
        BY DEF LiveConvs, Live, Tables, TypeOK
      <3>2. connMap[conv].from \in Addrs
        BY <3>1 DEF Connlt
      <3>3. connMap[fromConvMap[a]].from = connMap[conv].from
        BY <2>1, <3>2 DEF Tables, AddressesAreLive
      <3> QED
        BY <2>1, <2>3, <3>3
    <2> QED
      BY <1>3, <2>1, <2>2, <2>3, <2>4 DEF Live
  <1>11. Unused'
    <2> SUFFICES ASSUME NEW conv \in Convs, conv > cur_conv
                 PROVE (~Live(conv))' /\ told'[conv] = "none"
      BY DEF Unused
    <2>1. ~Live(conv) /\ told[conv] = "none"
      BY DEF Tables, Unused
    <2>2. conv \notin S
      BY <2>1 DEF LiveConvs
    <2> QED
      BY <1>3, <2>1, <2>2 DEF Live, disconnectclients
  <1> QED
    BY <1>8, <1>9, <1>10, <1>11 DEF Tables

(* While every connection is found by its address, disconnecting removes   *)
(* exactly the connections it names.                                       *)
LEMMA DisconnectAgreement ==
  ASSUME Tables, Agreement, ~taken, NEW S \in SUBSET LiveConvs, disconnectclients(S)
  PROVE Agreement'
  <1>1. Removed(S) = S
    <2>1. \A c \in S : fromConvMap[connMap[c].from] = c /\ c # 0
      BY DEF Agreement, ConnectionsAreFound, LiveConvs, Convs
    <2>2. {fromConvMap[connMap[c].from] : c \in S} = S
      BY <2>1
    <2> QED
      BY <2>1, <2>2 DEF Removed
  <1>2. \A conv \in Convs : connMap'[conv] = IF conv \in S THEN NoConn ELSE connMap[conv]
    BY <1>1 DEF disconnectclients
  <1>3. \A a \in Addrs : fromConvMap'[a] = IF \E conv \in S : connMap[conv].from = a
                                           THEN 0 ELSE fromConvMap[a]
    BY DEF disconnectclients
  <1>4. ConnectionsAreFound'
    <2> SUFFICES ASSUME NEW conv \in Convs, connMap'[conv] # NoConn
                 PROVE fromConvMap'[connMap'[conv].from] = conv
      BY DEF ConnectionsAreFound, LiveConvs, Live
    <2>1. conv \notin S /\ connMap'[conv] = connMap[conv] /\ conv \in LiveConvs
      BY <1>2 DEF LiveConvs, Live
    <2>2. connMap[conv] \in Connlt
      BY <2>1 DEF LiveConvs, Live, Tables, TypeOK
    <2>3. connMap[conv].from \in Addrs
      BY <2>2 DEF Connlt
    <2>4. \A c \in LiveConvs : fromConvMap[connMap[c].from] = c
      BY DEF Agreement, ConnectionsAreFound
    <2>5. \A c \in S : connMap[c].from # connMap[conv].from
      BY <2>1, <2>4
    <2> QED
      BY <1>3, <2>1, <2>3, <2>4, <2>5
  <1>5. OwnerIsRight'
    <2> SUFFICES ASSUME NEW conv \in Convs
                 PROVE /\ told'[conv] = "up" <=> connMap'[conv] # NoConn
                       /\ told'[conv] # "again"
      BY DEF OwnerIsRight, Live
    <2>1. told'[conv] = IF conv \in S THEN ToldOf(told[conv]) ELSE told[conv]
      BY DEF disconnectclients
    <2>2. conv \in S => told[conv] = "up"
      BY DEF Agreement, OwnerIsRight, LiveConvs
    <2> QED
      BY <1>2, <2>1, <2>2 DEF Agreement, OwnerIsRight, ToldOf, Live
  <1> QED
    BY <1>4, <1>5 DEF Agreement

-----------------------------------------------------------------------------
(* The steps that change the tables otherwise.                             *)

(* A new connection keeps the tables consistent.                           *)
LEMMA AcceptTables ==
  ASSUME Tables, NEW from \in Addrs, NEW flowid \in 0..MaxFlow, NEW conkey \in ConKeys,
         fromConvMap[from] = 0, Accept(from, flowid, conkey)
  PROVE Tables'
  <1> DEFINE conv == cur_conv + 1
             new == [flowid |-> flowid, conkey |-> conkey, from |-> from, age |-> 0]
  <1>1. conv \in Convs /\ cur_conv' = conv /\ conv > cur_conv
    BY DEF Accept, Convs, Tables, TypeOK
  <1>2. new \in Connlt /\ new # NoConn
    <2>1. new \in Connlt
      BY DEF Connlt
    <2> QED
      BY <2>1, ConnltIsLive
  <1>3. connMap' = [connMap EXCEPT ![conv] = new] /\ fromConvMap' = [fromConvMap EXCEPT ![from] = conv]
        /\ client_number' = client_number + 1 /\ told' = [told EXCEPT ![conv] = "up"]
        /\ releaseMap' = releaseMap
    BY DEF Accept
  <1>4. ~Live(conv)
    BY <1>1 DEF Tables, Unused
  <1> HIDE DEF conv, new
  <1>5. \A c \in Convs : connMap'[c] = IF c = conv THEN new ELSE connMap[c]
    BY <1>1, <1>3 DEF Tables, TypeOK
  <1>6. LiveConvs' = LiveConvs \cup {conv}
    BY <1>1, <1>2, <1>5 DEF LiveConvs, Live
  <1>7. CountMatches'
    <2>1. conv \notin LiveConvs
      BY <1>4 DEF LiveConvs
    <2>2. IsFiniteSet(LiveConvs)
      BY ConvsFinite DEF LiveConvs
    <2>3. Cardinality(LiveConvs \cup {conv}) = Cardinality(LiveConvs) + 1
      BY <2>1, <2>2, FS_AddElement
    <2> QED
      BY <1>3, <1>6, <2>3 DEF CountMatches, Tables
  <1>8. TypeOK'
    <2>1. connMap' \in [Convs -> Connlt \cup {NoConn}]
      BY <1>2, <1>3 DEF Tables, TypeOK
    <2>2. fromConvMap' \in [Addrs -> 0..MaxConv] /\ cur_conv' \in 0..MaxConv
      BY <1>1, <1>3 DEF Tables, TypeOK, Convs
    <2>3. taken' \in BOOLEAN
      BY Zenon DEF Accept, Tables, TypeOK
    <2> QED
      BY <1>3, <2>1, <2>2, <2>3 DEF Tables, TypeOK
  <1>9. AddressesAreLive'
    <2> SUFFICES ASSUME NEW a \in Addrs, fromConvMap'[a] # 0
                 PROVE connMap'[fromConvMap'[a]] # NoConn /\ connMap'[fromConvMap'[a]].from = a
      BY DEF AddressesAreLive, Live
    <2>1. CASE a = from
      <3>1. fromConvMap'[a] = conv
        BY <1>3, <2>1 DEF Tables, TypeOK
      <3> QED
        BY <1>1, <1>2, <1>5, <2>1, <3>1 DEF new
    <2>2. CASE a # from
      <3>1. fromConvMap'[a] = fromConvMap[a] /\ fromConvMap[a] \in Convs
        BY <1>3, <2>2 DEF Tables, TypeOK, Convs
      <3>2. Live(fromConvMap[a]) /\ connMap[fromConvMap[a]].from = a
        BY <3>1 DEF Tables, AddressesAreLive
      <3> QED
        BY <1>4, <1>5, <3>1, <3>2 DEF Live
    <2> QED
      BY <2>1, <2>2
  <1>10. Unused'
    <2> SUFFICES ASSUME NEW c \in Convs, c > cur_conv'
                 PROVE connMap'[c] = NoConn /\ told'[c] = "none"
      BY DEF Unused, Live
    <2>1. c # conv /\ c > cur_conv
      BY <1>1 DEF Convs, Tables, TypeOK
    <2> QED
      BY <1>3, <1>5, <2>1 DEF Tables, Unused, Live, TypeOK
  <1> QED
    BY <1>7, <1>8, <1>9, <1>10 DEF Tables

(* A new connection is found by its address, and its owner is told.        *)
LEMMA AcceptAgreement ==
  ASSUME Tables, Agreement, ~taken, NEW from \in Addrs, NEW flowid \in 0..MaxFlow,
         NEW conkey \in ConKeys,
         fromConvMap[from] = 0, Accept(from, flowid, conkey)
  PROVE Agreement'
  <1> DEFINE conv == cur_conv + 1
             new == [flowid |-> flowid, conkey |-> conkey, from |-> from, age |-> 0]
  <1>1. conv \in Convs
    BY DEF Accept, Convs, Tables, TypeOK
  <1>2. new # NoConn
    BY ConnltIsLive DEF Connlt
  <1>3. \A c \in Convs : connMap'[c] = IF c = conv THEN new ELSE connMap[c]
    BY <1>1 DEF Accept, Tables, TypeOK
  <1>4. \A a \in Addrs : fromConvMap'[a] = IF a = from THEN conv ELSE fromConvMap[a]
    BY DEF Accept, Tables, TypeOK
  <1>5. \A c \in Convs : told'[c] = IF c = conv THEN "up" ELSE told[c]
    BY <1>1 DEF Accept, Tables, TypeOK
  <1>6. new.from = from
    OBVIOUS
  <1> HIDE DEF conv, new
  <1>7. ConnectionsAreFound'
    <2> SUFFICES ASSUME NEW c \in Convs, connMap'[c] # NoConn
                 PROVE fromConvMap'[connMap'[c].from] = c
      BY DEF ConnectionsAreFound, LiveConvs, Live
    <2>1. CASE c = conv
      BY <1>3, <1>4, <1>6, <2>1
    <2>2. CASE c # conv
      <3>1. connMap'[c] = connMap[c] /\ c \in LiveConvs
        BY <1>3, <2>2 DEF LiveConvs, Live
      <3>2. connMap[c] \in Connlt /\ fromConvMap[connMap[c].from] = c
        BY <3>1 DEF LiveConvs, Live, Tables, TypeOK, Agreement, ConnectionsAreFound
      <3>3. connMap[c].from \in Addrs /\ connMap[c].from # from
        BY <3>2 DEF Connlt, Convs
      <3> QED
        BY <1>4, <3>1, <3>2, <3>3
    <2> QED
      BY <2>1, <2>2
  <1>8. OwnerIsRight'
    BY <1>1, <1>2, <1>3, <1>5 DEF OwnerIsRight, Agreement, Live
  <1> QED
    BY <1>7, <1>8 DEF Agreement

(* A moved connection is what its new address maps to, and its old address *)
(* maps to nothing.                                                        *)
LEMMA MoveTables ==
  ASSUME Tables, NEW from \in Addrs, NEW flowid \in 0..MaxFlow, NEW conv \in LiveConvs,
         Move(from, flowid, conv), connMap[conv].from # from
  PROVE Tables'
  <1> DEFINE moved == [connMap[conv] EXCEPT !.from = from, !.flowid = flowid]
             old == connMap[conv].from
  <1>1. conv \in Convs /\ connMap[conv] \in Connlt /\ old \in Addrs
    <2>1. conv \in Convs /\ connMap[conv] \in Connlt
      BY DEF LiveConvs, Live, Tables, TypeOK
    <2> QED
      BY <2>1 DEF Connlt
  <1>2. moved \in Connlt /\ moved # NoConn /\ moved.from = from
    <2>1. moved \in Connlt /\ moved.from = from
      BY <1>1 DEF Connlt
    <2> QED
      BY <2>1, ConnltIsLive
  <1>3. connMap' = [connMap EXCEPT ![conv] = moved]
    BY <1>1 DEF Move, Tables, TypeOK, Connlt
  <1>4. fromConvMap' = [fromConvMap EXCEPT ![old] = 0, ![from] = conv]
        /\ UNCHANGED <<releaseMap, client_number, cur_conv, told>>
    BY DEF Move
  <1> HIDE DEF moved
  <1>5. \A c \in Convs : connMap'[c] = IF c = conv THEN moved ELSE connMap[c]
    BY <1>1, <1>3 DEF Tables, TypeOK
  <1>6. LiveConvs' = LiveConvs
    BY <1>1, <1>2, <1>5 DEF LiveConvs, Live
  <1>7. CountMatches'
    BY <1>4, <1>6 DEF CountMatches, Tables
  <1>8. TypeOK'
    <2>1. connMap' \in [Convs -> Connlt \cup {NoConn}]
      BY <1>2, <1>3 DEF Tables, TypeOK
    <2>2. fromConvMap' \in [Addrs -> 0..MaxConv]
      BY <1>1, <1>4 DEF Tables, TypeOK, Convs
    <2>3. taken' \in BOOLEAN
      BY Zenon DEF Move, Tables, TypeOK
    <2> QED
      BY <1>4, <2>1, <2>2, <2>3 DEF Tables, TypeOK
  <1>9. AddressesAreLive'
    <2> SUFFICES ASSUME NEW a \in Addrs, fromConvMap'[a] # 0
                 PROVE connMap'[fromConvMap'[a]] # NoConn /\ connMap'[fromConvMap'[a]].from = a
      BY DEF AddressesAreLive, Live
    <2>1. CASE a = from
      <3>1. fromConvMap'[a] = conv
        BY <1>4, <2>1 DEF Tables, TypeOK
      <3> QED
        BY <1>1, <1>2, <1>5, <2>1, <3>1
    <2>2. CASE a # from
      <3>1. fromConvMap'[a] = fromConvMap[a] /\ fromConvMap[a] \in Convs /\ a # old
        BY <1>4, <2>2 DEF Tables, TypeOK, Convs
      <3>2. Live(fromConvMap[a]) /\ connMap[fromConvMap[a]].from = a
        BY <3>1 DEF Tables, AddressesAreLive
      <3>3. fromConvMap[a] # conv
        BY <3>1, <3>2
      <3> QED
        BY <1>5, <3>1, <3>2, <3>3 DEF Live
    <2> QED
      BY <2>1, <2>2
  <1>10. Unused'
    BY <1>4, <1>6 DEF Unused, Tables, LiveConvs
  <1> QED
    BY <1>7, <1>8, <1>9, <1>10 DEF Tables

(* A connection that moves to an address nobody uses is found there.       *)
LEMMA MoveAgreement ==
  ASSUME Tables, Agreement, ~taken, ~taken', NEW from \in Addrs, NEW flowid \in 0..MaxFlow,
         NEW conv \in LiveConvs, Move(from, flowid, conv), connMap[conv].from # from
  PROVE Agreement'
  <1> DEFINE moved == [connMap[conv] EXCEPT !.from = from, !.flowid = flowid]
             old == connMap[conv].from
  <1>1. conv \in Convs /\ connMap[conv] \in Connlt /\ old \in Addrs
    <2>1. conv \in Convs /\ connMap[conv] \in Connlt
      BY DEF LiveConvs, Live, Tables, TypeOK
    <2> QED
      BY <2>1 DEF Connlt
  <1>2. moved # NoConn /\ moved.from = from
    BY <1>1, ConnltIsLive DEF Connlt
  <1>3. connMap' = [connMap EXCEPT ![conv] = moved]
    BY <1>1 DEF Move, Tables, TypeOK, Connlt
  <1> HIDE DEF moved
  <1>4. \A c \in Convs : connMap'[c] = IF c = conv THEN moved ELSE connMap[c]
    BY <1>1, <1>3 DEF Tables, TypeOK
  <1>5. \A a \in Addrs : fromConvMap'[a] = IF a = from THEN conv ELSE IF a = old THEN 0
                                           ELSE fromConvMap[a]
    BY <1>1 DEF Move, Tables, TypeOK
  <1>6. fromConvMap[from] = 0 /\ told' = told
    BY DEF Move
  <1>7. ConnectionsAreFound'
    <2> SUFFICES ASSUME NEW c \in Convs, connMap'[c] # NoConn
                 PROVE fromConvMap'[connMap'[c].from] = c
      BY DEF ConnectionsAreFound, LiveConvs, Live
    <2>1. CASE c = conv
      BY <1>2, <1>4, <1>5, <2>1
    <2>2. CASE c # conv
      <3>1. connMap'[c] = connMap[c] /\ c \in LiveConvs
        BY <1>4, <2>2 DEF LiveConvs, Live
      <3>2. connMap[c] \in Connlt /\ fromConvMap[connMap[c].from] = c
        BY <3>1 DEF LiveConvs, Live, Tables, TypeOK, Agreement, ConnectionsAreFound
      <3>3. fromConvMap[old] = conv
        BY DEF Agreement, ConnectionsAreFound
      <3>4. connMap[c].from \in Addrs /\ connMap[c].from # from /\ connMap[c].from # old
        BY <1>6, <2>2, <3>2, <3>3 DEF Connlt, Convs
      <3> QED
        BY <1>5, <3>1, <3>2, <3>4
    <2> QED
      BY <2>1, <2>2
  <1>8. OwnerIsRight'
    BY <1>1, <1>2, <1>4, <1>6 DEF OwnerIsRight, Agreement, LiveConvs, Live
  <1> QED
    BY <1>7, <1>8 DEF Agreement

(* A step that changes only ages changes nothing else of a connection.     *)
LEMMA Aged ==
  ASSUME Tables, NEW S \in SUBSET LiveConvs, NEW ages \in [Convs -> 0..Timeout + 1],
         connMap' = [c \in Convs |-> IF c \in S THEN [connMap[c] EXCEPT !.age = ages[c]]
                                     ELSE connMap[c]],
         releaseMap' \in [Convs -> {NotReleased} \cup 0..Wait],
         UNCHANGED <<fromConvMap, client_number, cur_conv, told, taken>>
  PROVE Tables' /\ (Agreement => Agreement')
  <1>1. \A c \in S : [connMap[c] EXCEPT !.age = ages[c]] \in Connlt
                     /\ [connMap[c] EXCEPT !.age = ages[c]].from = connMap[c].from
    <2> SUFFICES ASSUME NEW c \in S
                 PROVE [connMap[c] EXCEPT !.age = ages[c]] \in Connlt
                       /\ [connMap[c] EXCEPT !.age = ages[c]].from = connMap[c].from
      OBVIOUS
    <2>1. connMap[c] \in Connlt /\ ages[c] \in 0..Timeout + 1
      BY DEF LiveConvs, Live, Tables, TypeOK
    <2> QED
      BY <2>1 DEF Connlt
  <1>2. \A c \in Convs : /\ connMap'[c] \in Connlt \cup {NoConn}
                         /\ connMap'[c] # NoConn <=> connMap[c] # NoConn
                         /\ connMap[c] # NoConn => connMap'[c].from = connMap[c].from
    BY <1>1, ConnltIsLive DEF LiveConvs, Live, Tables, TypeOK
  <1>3. connMap' \in [Convs -> Connlt \cup {NoConn}]
    <2>1. connMap' = [c \in Convs |-> connMap'[c]]
      OBVIOUS
    <2> QED
      BY <1>2, <2>1
  <1>4. LiveConvs' = LiveConvs
    BY <1>2 DEF LiveConvs, Live
  <1>5. TypeOK' /\ CountMatches' /\ Unused'
    <2>1. taken' \in BOOLEAN
      BY Zenon DEF Tables, TypeOK
    <2>2. TypeOK'
      BY <1>3, <2>1 DEF Tables, TypeOK
    <2>3. CountMatches' /\ Unused'
      BY <1>4 DEF Tables, CountMatches, Unused, LiveConvs
    <2> QED
      BY <2>2, <2>3
  <1>6. AddressesAreLive'
    <2> SUFFICES ASSUME NEW a \in Addrs, fromConvMap'[a] # 0
                 PROVE connMap'[fromConvMap'[a]] # NoConn /\ connMap'[fromConvMap'[a]].from = a
      BY DEF AddressesAreLive, Live
    <2>1. fromConvMap'[a] = fromConvMap[a] /\ fromConvMap[a] \in Convs
      BY DEF Tables, TypeOK, Convs
    <2>2. connMap[fromConvMap[a]] # NoConn /\ connMap[fromConvMap[a]].from = a
      BY <2>1 DEF Tables, AddressesAreLive, Live
    <2> QED
      BY <1>2, <2>1, <2>2
  <1>7. Agreement => Agreement'
    BY <1>2, <1>4 DEF Agreement, ConnectionsAreFound, OwnerIsRight, LiveConvs, Live
  <1> QED
    BY <1>5, <1>6, <1>7 DEF Tables

-----------------------------------------------------------------------------
(* Every step keeps Tables and Agreement.                                  *)
LEMMA StepKeeps ==
  ASSUME Tables, [Next]_vars
  PROVE Tables' /\ (Agreement => Agreement')
  <1> DEFINE Kept == Tables' /\ (Agreement => Agreement')
  <1>0. taken' => Agreement'
    BY Zenon DEF Agreement, ConnectionsAreFound, OwnerIsRight
  <1>1. ASSUME UNCHANGED <<connMap, fromConvMap, releaseMap, client_number, cur_conv, told, taken>>
        PROVE Kept
    <2>1. LiveConvs' = LiveConvs
      BY <1>1 DEF LiveConvs, Live
    <2> QED
      BY <1>1, <2>1 DEF Tables, TypeOK, AddressesAreLive, CountMatches, Unused, Agreement,
                        ConnectionsAreFound, OwnerIsRight, Live
  <1>2. ASSUME NEW packet, Reply(packet) PROVE Kept
    BY <1>1, <1>2 DEF Reply
  <1>3. ASSUME NEW from \in Addrs, NEW flowid \in 0..MaxFlow, NEW conkey \in ConKeys,
               new_conn(from, flowid, conkey)
        PROVE Kept
    <2>1. CASE fromConvMap[from] # 0 \/ client_number > maxclient
      BY <1>2, <1>3, <2>1 DEF new_conn
    <2>2. CASE fromConvMap[from] = 0 /\ ~(client_number > maxclient)
      <3>1. Accept(from, flowid, conkey)
        BY <1>3, <2>2 DEF new_conn
      <3>2. taken' = taken
        BY <3>1 DEF Accept
      <3>3. Tables'
        BY <2>2, <3>1, AcceptTables
      <3>4. Agreement /\ ~taken => Agreement'
        BY <2>2, <3>1, AcceptAgreement
      <3> QED
        BY Zenon, <1>0, <3>2, <3>3, <3>4
    <2> QED
      BY <2>1, <2>2
  <1>4. ASSUME NEW from \in Addrs, NEW flowid \in 0..MaxFlow, NEW conkey \in ConKeys,
               NEW conv \in Convs, reconn(from, flowid, conv, conkey)
        PROVE Kept
    <2>1. CASE ~Live(conv) \/ connMap[conv].conkey # conkey
      BY <1>2, <1>4, <2>1 DEF reconn
    <2>2. CASE Live(conv) /\ connMap[conv].conkey = conkey
      <3>1. conv \in LiveConvs /\ Move(from, flowid, conv) /\ connMap[conv].from # from
        BY <1>4, <2>2 DEF reconn, LiveConvs
      <3>2. ~taken' => ~taken
        BY <3>1 DEF Move
      <3>3. Agreement /\ ~taken /\ ~taken' => Agreement'
        BY <3>1, MoveAgreement
      <3>4. Tables'
        BY <3>1, MoveTables
      <3> QED
        BY Zenon, <1>0, <3>2, <3>3, <3>4
    <2> QED
      BY <2>1, <2>2
  <1>5. ASSUME NEW from \in Addrs, NEW conv \in Convs, data_conn(from, conv)
        PROVE Kept
    <2>1. CASE ~Live(conv) \/ connMap[conv].from # from
      BY <1>2, <1>5, <2>1 DEF data_conn
    <2>2. CASE Live(conv) /\ connMap[conv].from = from
      <3>1. connMap' = [connMap EXCEPT ![conv].age = 0]
            /\ UNCHANGED <<fromConvMap, releaseMap, client_number, cur_conv, told, taken>>
        BY <1>5, <2>2 DEF data_conn
      <3> DEFINE ages == [c \in Convs |-> 0]
      <3>2. ages \in [Convs -> 0..Timeout + 1]
        OBVIOUS
      <3>3. connMap' = [c \in Convs |-> IF c \in {conv} THEN [connMap[c] EXCEPT !.age = ages[c]]
                                        ELSE connMap[c]]
        BY <3>1 DEF Tables, TypeOK
      <3>4. {conv} \in SUBSET LiveConvs /\ releaseMap' \in [Convs -> {NotReleased} \cup 0..Wait]
        BY <2>2, <3>1 DEF LiveConvs, Tables, TypeOK
      <3> HIDE DEF ages
      <3> QED
        BY <3>1, <3>2, <3>3, <3>4, Aged
    <2> QED
      BY <2>1, <2>2
  <1>6. ASSUME NEW S \in SUBSET LiveConvs, disconnectclients(S), cur_conv' = cur_conv,
               releaseMap' \in [Convs -> {NotReleased} \cup 0..Wait]
        PROVE Kept
    <2>1. taken' = taken
      BY <1>6 DEF disconnectclients
    <2>2. Tables'
      BY <1>6, DisconnectTables
    <2>3. Agreement /\ ~taken => Agreement'
      BY <1>6, DisconnectAgreement
    <2> QED
      BY Zenon, <1>0, <2>1, <2>2, <2>3
  <1>7. ASSUME NEW conv \in Convs, releaseclient(conv) \/ send_msgFails(conv)
        PROVE Kept
    <2>1. {conv} \in SUBSET LiveConvs /\ disconnectclients({conv}) /\ cur_conv' = cur_conv
      BY <1>7 DEF releaseclient, send_msgFails, LiveConvs
    <2>2. releaseMap' \in [Convs -> {NotReleased} \cup 0..Wait]
      BY <1>7 DEF releaseclient, send_msgFails, Release, Tables, TypeOK
    <2> QED
      BY <1>6, <2>1, <2>2
  <1>8. CASE run
    <2>1. Expired \in SUBSET LiveConvs /\ disconnectclients(Expired) /\ cur_conv' = cur_conv
      BY <1>8 DEF run, Expired
    <2>2. releaseMap' \in [Convs -> {NotReleased} \cup 0..Wait]
      BY <1>8 DEF run, Tables, TypeOK
    <2> QED
      BY <1>6, <2>1, <2>2
  <1>9. CASE Tick
    <2> DEFINE ages == [c \in Convs |-> IF Live(c) THEN Older(connMap[c].age, Timeout + 1) ELSE 0]
    <2>1. ages \in [Convs -> 0..Timeout + 1]
      <3> SUFFICES ASSUME NEW c \in Convs, Live(c)
                   PROVE Older(connMap[c].age, Timeout + 1) \in 0..Timeout + 1
        OBVIOUS
      <3>1. connMap[c] \in Connlt
        BY DEF Live, Tables, TypeOK
      <3>2. connMap[c].age \in 0..Timeout + 1
        BY <3>1 DEF Connlt
      <3> QED
        BY <3>2 DEF Older
    <2>2. connMap' = [c \in Convs |-> IF c \in LiveConvs THEN [connMap[c] EXCEPT !.age = ages[c]]
                                      ELSE connMap[c]]
      BY <1>9 DEF Tick, LiveConvs, Live
    <2>3. releaseMap' \in [Convs -> {NotReleased} \cup 0..Wait]
      <3>1. \A c \in Convs : releaseMap[c] # NotReleased => Older(releaseMap[c], Wait) \in 0..Wait
        BY DEF Older, Tables, TypeOK
      <3> QED
        BY <1>9, <3>1 DEF Tick
    <2>4. UNCHANGED <<fromConvMap, client_number, cur_conv, told, taken>>
      BY <1>9 DEF Tick
    <2> HIDE DEF ages
    <2> QED
      BY <2>1, <2>2, <2>3, <2>4, Aged
  <1>10. CASE UNCHANGED vars
    BY <1>1, <1>10 DEF vars
  <1> QED
    BY <1>3, <1>4, <1>5, <1>7, <1>8, <1>9, <1>10 DEF Next, Packet

-----------------------------------------------------------------------------
(* Type correctness of the tables.                                         *)
THEOREM TypeCorrect == Spec => []TypeOK
  <1>1. Tables /\ [Next]_vars => Tables'
    BY StepKeeps
  <1>2. Tables => TypeOK
    BY DEF Tables
  <1> QED
    BY InitTables, <1>1, <1>2, PTL DEF Spec

(* new_conn never indexes a connection that was closed, whoever reconnects *)
(* from wherever.                                                          *)
THEOREM AddressesCorrect == Spec => []AddressesAreLive
  <1>1. Tables /\ [Next]_vars => Tables'
    BY StepKeeps
  <1>2. Tables => AddressesAreLive
    BY DEF Tables
  <1> QED
    BY InitTables, <1>1, <1>2, PTL DEF Spec

(* The number the limit is compared with is the number of connections.     *)
THEOREM CountCorrect == Spec => []CountMatches
  <1>1. Tables /\ [Next]_vars => Tables'
    BY StepKeeps
  <1>2. Tables => CountMatches
    BY DEF Tables
  <1> QED
    BY InitTables, <1>1, <1>2, PTL DEF Spec

(* Until an address is taken over, every connection is found by its        *)
(* address.                                                                *)
THEOREM FoundCorrect == Spec => []ConnectionsAreFound
  <1>1. Tables /\ Agreement /\ [Next]_vars => Tables' /\ Agreement'
    BY StepKeeps
  <1>2. Agreement => ConnectionsAreFound
    BY DEF Agreement
  <1> QED
    BY InitTables, InitAgreement, <1>1, <1>2, PTL DEF Spec

(* The types, the addresses, the count and what is found, in every state.  *)
THEOREM TablesCorrect == Spec => []TablesAgree
  <1>1. TypeOK /\ AddressesAreLive /\ CountMatches /\ ConnectionsAreFound => TablesAgree
    BY DEF TablesAgree
  <1> QED
    BY <1>1, TypeCorrect, AddressesCorrect, CountCorrect, FoundCorrect, PTL

(* ... and the owner is told of every connection and of its end, once.     *)
THEOREM OwnerCorrect == Spec => []OwnerIsRight
  <1>1. Tables /\ Agreement /\ [Next]_vars => Tables' /\ Agreement'
    BY StepKeeps
  <1>2. Agreement => OwnerIsRight
    BY DEF Agreement
  <1> QED
    BY InitTables, InitAgreement, <1>1, <1>2, PTL DEF Spec

-----------------------------------------------------------------------------
(* A handshake answer names the connection of the address it goes to, also *)
(* when clients reconnect from addresses in use.                           *)
AnswerIsRight ==
  sent' # sent /\ sent'.cmd = "eConnect_ret"
    => connMap'[sent'.conv] # NoConn /\ connMap'[sent'.conv].from = sent'.to

(* Only three steps send a handshake answer.                               *)
LEMMA StepAnswers ==
  ASSUME Tables, [Next]_vars
  PROVE AnswerIsRight
  <1>1. CASE sent' = sent
    BY <1>1 DEF AnswerIsRight
  <1>2. ASSUME NEW to, NEW distype, sent' = Disconnect(to, distype)
        PROVE AnswerIsRight
    BY <1>2 DEF AnswerIsRight, Disconnect
  <1>3. ASSUME NEW from \in Addrs, NEW flowid \in 0..MaxFlow, NEW conkey \in ConKeys,
               new_conn(from, flowid, conkey)
        PROVE AnswerIsRight
    <2>1. CASE fromConvMap[from] # 0
      <3>1. sent' = ConnectRet(from, flowid, fromConvMap[from]) /\ connMap' = connMap
        BY <1>3, <2>1 DEF new_conn, Reply
      <3>2. Live(fromConvMap[from]) /\ connMap[fromConvMap[from]].from = from
        BY <2>1 DEF Tables, AddressesAreLive
      <3> QED
        BY <3>1, <3>2 DEF AnswerIsRight, ConnectRet, Live
    <2>2. CASE fromConvMap[from] = 0 /\ client_number > maxclient
      BY <1>2, <1>3, <2>2 DEF new_conn, Reply
    <2>3. CASE fromConvMap[from] = 0 /\ ~(client_number > maxclient)
      <3> DEFINE conv == cur_conv + 1
                 new == [flowid |-> flowid, conkey |-> conkey, from |-> from, age |-> 0]
      <3>1. connMap' = [connMap EXCEPT ![conv] = new] /\ conv \in Convs
            /\ sent' = ConnectRet(from, flowid, conv)
        BY <1>3, <2>3 DEF new_conn, Accept, Convs, Tables, TypeOK
      <3>2. new # NoConn /\ new.from = from
        BY ConnltIsLive DEF Connlt
      <3> HIDE DEF conv, new
      <3>3. connMap'[conv] = new
        BY <3>1 DEF Tables, TypeOK
      <3> QED
        BY <3>1, <3>2, <3>3 DEF AnswerIsRight, ConnectRet
    <2> QED
      BY <2>1, <2>2, <2>3
  <1>4. ASSUME NEW from \in Addrs, NEW flowid \in 0..MaxFlow, NEW conkey \in ConKeys,
               NEW conv \in Convs, reconn(from, flowid, conv, conkey)
        PROVE AnswerIsRight
    <2>1. CASE ~Live(conv) \/ connMap[conv].conkey # conkey
      BY <1>2, <1>4, <2>1 DEF reconn, Reply
    <2>2. CASE Live(conv) /\ connMap[conv].conkey = conkey
      <3> DEFINE moved == [connMap[conv] EXCEPT !.from = from, !.flowid = flowid]
      <3>1. connMap[conv] \in Connlt
        BY <2>2 DEF Live, Tables, TypeOK
      <3>2. moved # NoConn /\ moved.from = from
        BY <3>1, ConnltIsLive DEF Connlt
      <3>3. connMap' = [connMap EXCEPT ![conv] = moved] /\ sent' = ConnectRet(from, flowid, conv)
        BY <1>4, <2>2, <3>1 DEF reconn, Move, Tables, TypeOK, Connlt
      <3> HIDE DEF moved
      <3>4. connMap'[conv] = moved
        BY <3>3 DEF Tables, TypeOK
      <3> QED
        BY <3>2, <3>3, <3>4 DEF AnswerIsRight, ConnectRet
    <2> QED
      BY <2>1, <2>2
  <1>5. ASSUME NEW from \in Addrs, NEW conv \in Convs, data_conn(from, conv)
        PROVE AnswerIsRight
    BY <1>1, <1>2, <1>5 DEF data_conn, Reply
  <1>6. ASSUME NEW conv \in Convs, releaseclient(conv) \/ send_msgFails(conv)
        PROVE AnswerIsRight
    BY <1>1, <1>2, <1>6 DEF releaseclient, send_msgFails
  <1>7. CASE run \/ Tick \/ UNCHANGED vars
    BY <1>1, <1>7 DEF run, Tick, vars
  <1> QED
    BY <1>3, <1>4, <1>5, <1>6, <1>7 DEF Next, Packet

(* Every handshake answer of every behaviour is right.                     *)
THEOREM AnswersCorrect == Spec => AnswersNameTheOwner
  <1>1. Tables /\ [Next]_vars => Tables'
    BY StepKeeps
  <1>2. Tables /\ [Next]_vars
          => [sent' # sent /\ sent'.cmd = "eConnect_ret"
                => /\ connMap'[sent'.conv] # NoConn
                   /\ connMap'[sent'.conv].from = sent'.to]_vars
    BY StepAnswers DEF AnswerIsRight
  <1> QED
    BY InitTables, <1>1, <1>2, PTL DEF Spec, AnswersNameTheOwner
=============================================================================
