----------------------------- MODULE Connection -----------------------------
(***************************************************************************)
(* game/liblua/net/connectionmgr.lua with connlt.lua: the server's table   *)
(* of UDP connections.                                                     *)
(*                                                                         *)
(* A connection is named by its conv.  connMap holds the live connections, *)
(* fromConvMap the conv of each peer address, releaseMap the closed ones   *)
(* that are kept for their last packet.  The three tables are changed by   *)
(* the handlers of incoming packets, by run (the frame timer) and by the   *)
(* service that owns the manager.  UDP loses, repeats and reorders, and a  *)
(* client repeats its requests: any packet may arrive at any moment.       *)
(* `told` is what the owner has been told of a conv through the connect    *)
(* and disconnect callbacks, `sent` the last packet the manager sent,      *)
(* `taken` whether a client ever reconnected from the address of another   *)
(* connection.                                                             *)
(*                                                                         *)
(* Time: heartbeat and expireTime are kept as ages, which Tick advances.   *)
(* The KCP stream (ordering and retransmission of data) is external; of a  *)
(* data packet only its effect on the tables is modelled.                  *)
(***************************************************************************)
EXTENDS Integers, FiniteSets

CONSTANTS
  Addrs,         \* peer addresses, "ip:port"
  ConKeys,       \* connection keys
  MaxFlow,       \* bound: the largest flowid of a request
  MaxConv,       \* bound: connections made in a run
  maxclient,     \* the limit given to open
  Timeout,       \* kcp_connection_timeout_time, in ticks
  Wait           \* kcp_connection_wait_sec, in ticks

ASSUME BoundAssumption == MaxFlow \in Nat /\ MaxConv \in Nat /\ maxclient \in Nat
ASSUME TimeAssumption == Timeout \in Nat /\ Wait \in Nat

VARIABLES connMap, fromConvMap, releaseMap, client_number, cur_conv, told, sent,
          taken
vars == <<connMap, fromConvMap, releaseMap, client_number, cur_conv, told, sent, taken>>

Convs == 1..MaxConv
NoConn == [flowid |-> -1]
Connlt == [flowid : 0..MaxFlow, conkey : ConKeys, from : Addrs, age : 0..Timeout + 1]
Live(conv) == connMap[conv] # NoConn
LiveConvs == {conv \in Convs : Live(conv)}
NotReleased == -1

ConnectRet(to, flowid, conv) ==
  [cmd |-> "eConnect_ret", to |-> to, flowid |-> flowid, conv |-> conv]
Disconnect(to, distype) == [cmd |-> "eDisconnect", to |-> to, distype |-> distype]
Nobody == [cmd |-> "none"]

Init ==
  /\ connMap = [conv \in Convs |-> NoConn]
  /\ fromConvMap = [a \in Addrs |-> 0]
  /\ releaseMap = [conv \in Convs |-> NotReleased]
  /\ client_number = 0
  /\ cur_conv = 0
  /\ told = [conv \in Convs |-> "none"]
  /\ sent = Nobody
  /\ taken = FALSE

Reply(packet) ==
  /\ sent' = packet
  /\ UNCHANGED <<connMap, fromConvMap, releaseMap, client_number, cur_conv, told, taken>>

-----------------------------------------------------------------------------
(* disconnectclient for every conv of S: _remove_conn takes what the       *)
(* address of the connection maps to, whichever connection that is, and    *)
(* the owner is told of conv.  The order of the calls does not matter: an  *)
(* address that was handled maps to nothing.                               *)
Removed(S) == {fromConvMap[connMap[conv].from] : conv \in S} \ {0}

ToldOf(old) == IF old = "up" THEN "down" ELSE "again"

(* Mutant: every call counts down, whether it found a connection or not.   *)
disconnectclientsCountAll(S) ==
  /\ fromConvMap' = [a \in Addrs |-> IF \E conv \in S : connMap[conv].from = a
                                     THEN 0 ELSE fromConvMap[a]]
  /\ connMap' = [conv \in Convs |-> IF conv \in Removed(S) THEN NoConn ELSE connMap[conv]]
  /\ client_number' = client_number - Cardinality(S)
  /\ told' = [conv \in Convs |-> IF conv \in S THEN ToldOf(told[conv]) ELSE told[conv]]
  /\ UNCHANGED taken

disconnectclients(S) ==
  /\ fromConvMap' = [a \in Addrs |-> IF \E conv \in S : connMap[conv].from = a
                                     THEN 0 ELSE fromConvMap[a]]
  /\ connMap' = [conv \in Convs |-> IF conv \in Removed(S) THEN NoConn ELSE connMap[conv]]
  /\ client_number' = client_number - Cardinality(Removed(S))
  /\ told' = [conv \in Convs |-> IF conv \in S THEN ToldOf(told[conv]) ELSE told[conv]]
  /\ UNCHANGED taken

Release(S) ==
  releaseMap' = [conv \in Convs |-> IF conv \in S THEN 0 ELSE releaseMap[conv]]

(* new_conn for an address without a connection.                           *)
Accept(from, flowid, conkey) ==
  LET conv == cur_conv + 1 IN
  /\ cur_conv < MaxConv
  /\ cur_conv' = conv
  /\ connMap' = [connMap EXCEPT ![conv] =
                   [flowid |-> flowid, conkey |-> conkey, from |-> from, age |-> 0]]
  /\ fromConvMap' = [fromConvMap EXCEPT ![from] = conv]
  /\ client_number' = client_number + 1
  /\ told' = [told EXCEPT ![conv] = "up"]
  /\ sent' = ConnectRet(from, flowid, conv)
  /\ UNCHANGED <<releaseMap, taken>>

isOldFlowID(conv, flowid) == connMap[conv].flowid >= flowid

(* A connect request from a known address is answered with the connection  *)
(* it has, whose flowid stays; a late copy of an old request is dropped.   *)
new_conn(from, flowid, conkey) ==
  LET old_conv == fromConvMap[from] IN
  IF old_conv # 0
  THEN ~isOldFlowID(old_conv, flowid) /\ Reply(ConnectRet(from, flowid, old_conv))
  ELSE IF client_number > maxclient
       THEN Reply(Disconnect(from, "linkmax"))
       ELSE Accept(from, flowid, conkey)

(* Mutant: the old address is not cleared.                                 *)
MoveKeepsOld(from, flowid, conv) ==
  /\ taken' = (taken \/ fromConvMap[from] # 0)
  /\ connMap' = [connMap EXCEPT ![conv].from = from, ![conv].flowid = flowid]
  /\ fromConvMap' = [fromConvMap EXCEPT ![from] = conv]
  /\ sent' = ConnectRet(from, flowid, conv)
  /\ UNCHANGED <<releaseMap, client_number, cur_conv, told>>

(* Mutant: the answer goes to the address the client had before.           *)
MoveAnswersOld(from, flowid, conv) ==
  /\ taken' = (taken \/ fromConvMap[from] # 0)
  /\ connMap' = [connMap EXCEPT ![conv].from = from, ![conv].flowid = flowid]
  /\ fromConvMap' = [fromConvMap EXCEPT ![connMap[conv].from] = 0, ![from] = conv]
  /\ sent' = ConnectRet(connMap[conv].from, flowid, conv)
  /\ UNCHANGED <<releaseMap, client_number, cur_conv, told>>

(* reconn without its early returns: the client's address has changed.     *)
Move(from, flowid, conv) ==
  /\ taken' = (taken \/ fromConvMap[from] # 0)
  /\ connMap' = [connMap EXCEPT ![conv].from = from, ![conv].flowid = flowid]
  /\ fromConvMap' = [fromConvMap EXCEPT ![connMap[conv].from] = 0, ![from] = conv]
  /\ sent' = ConnectRet(from, flowid, conv)
  /\ UNCHANGED <<releaseMap, client_number, cur_conv, told>>

reconn(from, flowid, conv, conkey) ==
  IF ~Live(conv) THEN Reply(Disconnect(from, "unfoundcon"))
  ELSE /\ ~isOldFlowID(conv, flowid)
       /\ IF connMap[conv].conkey # conkey THEN Reply(Disconnect(from, "errkey"))
          ELSE connMap[conv].from # from /\ Move(from, flowid, conv)

(* Data counts as a heartbeat only from the address of the connection.     *)
data_conn(from, conv) ==
  IF ~Live(conv) THEN Reply(Disconnect(from, "unfoundcon"))
  ELSE IF connMap[conv].from # from THEN Reply(Disconnect(from, "fromchange"))
  ELSE /\ connMap' = [connMap EXCEPT ![conv].age = 0]
       /\ UNCHANGED <<fromConvMap, releaseMap, client_number, cur_conv, told, sent, taken>>

(* releaseclient: the owner closes a connection.                           *)
releaseclient(conv) ==
  /\ Live(conv)
  /\ Release(Removed({conv}))
  /\ disconnectclients({conv})
  /\ sent' = Disconnect(connMap[conv].from, "normal")
  /\ UNCHANGED cur_conv

(* Mutant: the owner is not told.                                          *)
send_msgFailsSilently(conv) ==
  /\ Live(conv)
  /\ Release(Removed({conv}))
  /\ fromConvMap' = [fromConvMap EXCEPT ![connMap[conv].from] = 0]
  /\ connMap' = [c \in Convs |-> IF c \in Removed({conv}) THEN NoConn ELSE connMap[c]]
  /\ client_number' = client_number - Cardinality(Removed({conv}))
  /\ UNCHANGED <<cur_conv, told, sent, taken>>

(* send_msg of a message KCP refuses: the connection is closed without a   *)
(* packet.  A message it takes changes no table.                           *)
send_msgFails(conv) ==
  /\ Live(conv)
  /\ Release(Removed({conv}))
  /\ disconnectclients({conv})
  /\ UNCHANGED <<cur_conv, sent>>

(* Mutant: the timeout is compared in the wrong unit.                      *)
ExpiredLate == {conv \in LiveConvs : connMap[conv].age > Timeout + 1}

(* run: connections not heard of for longer than the timeout are closed;   *)
(* then the closed ones that isExpire are forgotten, those closed by this  *)
(* very call included.                                                     *)
Expired == {conv \in LiveConvs : connMap[conv].age > Timeout}
isExpire(age) == age # NotReleased /\ age < Wait

run ==
  /\ disconnectclients(Expired)
  /\ releaseMap' = [conv \in Convs |->
                      IF conv \in Removed(Expired)
                      THEN IF isExpire(0) THEN NotReleased ELSE 0
                      ELSE IF isExpire(releaseMap[conv]) THEN NotReleased
                      ELSE releaseMap[conv]]
  /\ UNCHANGED <<cur_conv, sent>>

(* Time passes; an age beyond its limit stays there.                       *)
Older(age, limit) == IF age < limit THEN age + 1 ELSE age

Tick ==
  /\ connMap' = [conv \in Convs |-> IF Live(conv)
                                    THEN [connMap[conv] EXCEPT !.age = Older(@, Timeout + 1)]
                                    ELSE NoConn]
  /\ releaseMap' = [conv \in Convs |-> IF releaseMap[conv] = NotReleased THEN NotReleased
                                       ELSE Older(releaseMap[conv], Wait)]
  /\ UNCHANGED <<fromConvMap, client_number, cur_conv, told, sent, taken>>

Packet ==
  \E from \in Addrs :
    \/ \E flowid \in 0..MaxFlow, conkey \in ConKeys :
         \/ new_conn(from, flowid, conkey)
         \/ \E conv \in Convs : reconn(from, flowid, conv, conkey)
    \/ \E conv \in Convs : data_conn(from, conv)

Next ==
  \/ Packet
  \/ \E conv \in Convs : releaseclient(conv) \/ send_msgFails(conv)
  \/ run
  \/ Tick

Spec == Init /\ [][Next]_vars

(* The owner calls run in every frame, and time passes.                    *)
FairSpec == Spec /\ WF_vars(run) /\ WF_vars(Tick)

-----------------------------------------------------------------------------
(* Types of the tables.                                                    *)
TypeOK ==
  /\ connMap \in [Convs -> Connlt \cup {NoConn}]
  /\ fromConvMap \in [Addrs -> 0..MaxConv]
  /\ releaseMap \in [Convs -> {NotReleased} \cup 0..Wait]
  /\ client_number \in Nat
  /\ cur_conv \in 0..MaxConv
  /\ told \in [Convs -> {"none", "up", "down", "again"}]
  /\ taken \in BOOLEAN

(* new_conn indexes the connection an address maps to with no nil check:   *)
(* an address never maps to a closed connection, not even after clients    *)
(* have taken over each other's addresses.                                 *)
AddressesAreLive ==
  \A a \in Addrs : fromConvMap[a] # 0 => /\ Live(fromConvMap[a])
                                         /\ connMap[fromConvMap[a]].from = a

(* The counter that guards the limit counts the connections.               *)
CountMatches == client_number = Cardinality(LiveConvs)

(* Until an address is taken over, closing a connection by its address     *)
(* closes that connection.                                                 *)
ConnectionsAreFound ==
  ~taken => \A conv \in LiveConvs : fromConvMap[connMap[conv].from] = conv

(* All of these: the four tables tell one story.                           *)
TablesAgree == TypeOK /\ AddressesAreLive /\ CountMatches /\ ConnectionsAreFound

(* Until then the owner believes a connection exists exactly while it      *)
(* does, and hears of its end once.                                        *)
OwnerIsRight ==
  ~taken => \A conv \in Convs : /\ told[conv] = "up" <=> Live(conv)
                                /\ told[conv] # "again"

(* A handshake answer always gives a client the connection of the address  *)
(* it is sent to.                                                          *)
AnswersNameTheOwner ==
  [][sent' # sent /\ sent'.cmd = "eConnect_ret"
       => /\ connMap'[sent'.conv] # NoConn
          /\ connMap'[sent'.conv].from = sent'.to]_vars

(* A connection that stays has been heard of again and again: a silent one *)
(* is closed, unless an address was taken over.                            *)
SilentIsClosed ==
  \A conv \in Convs : <>[](Live(conv)) => \/ <>taken
                                         \/ []<>(Live(conv) /\ connMap[conv].age = 0)

-----------------------------------------------------------------------------
(* What a comment says and the code does not do.                           *)

(* connectionmgr.lua:356, a closed connection is kept for a while so that  *)
(* the peer still gets its last packet.                                    *)
ReleaseIsDelayed ==
  [][\A conv \in Convs : releaseMap[conv] # NotReleased /\ releaseMap'[conv] = NotReleased
                           => releaseMap[conv] >= Wait]_vars
=============================================================================
