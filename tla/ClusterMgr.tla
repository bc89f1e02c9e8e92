----------------------------- MODULE ClusterMgr -----------------------------
(***************************************************************************)
(* service/clusterInf/clusterMgr.lua: the login server keeps a table of    *)
(* the nodes of the cluster and closes them level by level.  A level is    *)
(* closed in two steps: its nodes prepare (step_pre), then stop            *)
(* (step_close).  A step begins when every call of the one before has      *)
(* returned, or, once a deadline has passed, at the next update.           *)
(*                                                                         *)
(* The nodes are external: a call may be answered, fail, or never return.  *)
(* The coroutines checkCloseProgram forks run in the dispatch that forked  *)
(* them, so their tags are set, and their calls sent, before anything else *)
(* happens.  Not modelled: closeSingleCluster, notices, files, and the     *)
(* time after which a node is no longer reported active.                   *)
(***************************************************************************)
EXTENDS Naturals, Sequences, FiniteSetsExt

CONSTANTS
  Nodes, Level,            \* Level[n]: cluster_close_level of the node's type
  LoginLevel,              \* the level that ends with this process itself
  closeSeconds,            \* what is added to the time for the deadline
  MaxTime,                 \* bound: the clock
  nil

(* What is assumed of them.                                                *)
LevelAssumption ==
  /\ Level \in [Nodes -> Nat \ {0}] /\ \A n \in Nodes : Level[n] < LoginLevel
  /\ LoginLevel \in 1..99
TimeAssumption == {closeSeconds, MaxTime} \subseteq Nat
nilAssumption == nil \notin Nat /\ nil \notin {"step_pre", "step_close"}

VARIABLES
  now,
  clusterMap,       \* the nodes that have registered
  curCloseLevel, curCloseStep, closeExpireTime,
  closeTagMap,      \* nodes with a call of this level under way, as far as known
  calls,            \* pairs <<node, step>>: closeClusterLogic calls under way
  process,          \* of the login server: "up", "closing" itself, "gone"
  known, told       \* history: nodes there when closing began; steps sent
closing == <<curCloseLevel, curCloseStep, closeExpireTime, closeTagMap, calls, process, told>>
vars == <<now, clusterMap, closing, known>>

Init ==
  /\ now = 0 /\ clusterMap = {}
  /\ curCloseLevel = nil /\ curCloseStep = nil /\ closeExpireTime = nil
  /\ closeTagMap = {} /\ calls = {} /\ process = "up"
  /\ known = {} /\ told = [n \in Nodes |-> <<>>]

(* registerCluster and keepCluster.                                        *)
updateCluster(n) ==
  /\ process # "gone"
  /\ clusterMap' = clusterMap \cup {n}
  /\ UNCHANGED <<now, closing, known>>

NodesOf(level) == {n \in clusterMap : Level[n] = level}

(* A level with no node is passed over, unless it is that of the login     *)
(* server itself.                                                          *)
Counts(level) == level = LoginLevel \/ NodesOf(level) # {}
Above(level) == {l \in level + 1..LoginLevel : Counts(l)}

(* The level and step after the current ones.  Beyond the login level      *)
(* there are none: at level 101 it gives up.                               *)
Following(level) ==
  IF curCloseStep = "step_pre" /\ Counts(level) THEN <<level, "step_close">>
  ELSE IF Above(level) = {} THEN <<101, "step_pre">>
  ELSE <<Min(Above(level)), "step_pre">>

(* The nodes that are told are tagged; a new level has a new closeTagMap.  *)
Tags(level, at, tags) == NodesOf(at[1]) \cup (IF at[1] = level THEN tags ELSE {})

(* The next step is sent to all nodes of its level.                        *)
StartNext(level, tags, open) ==
  LET at == Following(level)
      nodes == NodesOf(at[1]) IN
  /\ curCloseLevel' = at[1] /\ curCloseStep' = at[2]
  /\ closeTagMap' = Tags(level, at, tags)
  /\ calls' = open \cup {<<n, at[2]>> : n \in nodes}
  /\ told' = [n \in Nodes |-> IF n \in nodes THEN Append(told[n], at[2]) ELSE told[n]]
  /\ closeExpireTime' = IF closeExpireTime = nil THEN now + closeSeconds ELSE closeExpireTime
  /\ process' = IF at[1] = LoginLevel THEN "closing" ELSE process

(* Mutant: the step ends with the first call that returns.                 *)
WaitsNot(tags) == FALSE

(* checkCloseProgram, with the tags and the calls there are by now.  It    *)
(* waits while there is time and a call is under way.                      *)
Waits(tags) == closeExpireTime # nil /\ now < closeExpireTime /\ tags # {}

checkCloseProgram(level, tags, open) ==
  \/ /\ level <= 100 /\ ~Waits(tags)
     /\ StartNext(level, tags, open)
  \/ /\ level > 100 \/ Waits(tags)
     /\ closeTagMap' = tags /\ calls' = open
     /\ UNCHANGED <<curCloseLevel, curCloseStep, closeExpireTime, process, told>>

closeCluster ==
  /\ process = "up" /\ curCloseLevel = nil
  /\ checkCloseProgram(0, {}, {})
  /\ known' = clusterMap
  /\ UNCHANGED <<now, clusterMap>>

(* process_close_node: a call has returned, with whatever result.  Its tag *)
(* is cleared in the closeTagMap it was made with, that of the level.      *)
callReturns(n, step) ==
  /\ process # "gone" /\ <<n, step>> \in calls
  /\ checkCloseProgram(curCloseLevel,
                       IF Level[n] = curCloseLevel THEN closeTagMap \ {n} ELSE closeTagMap,
                       calls \ {<<n, step>>})
  /\ UNCHANGED <<now, clusterMap, known>>

(* Mutant: update looks only before the deadline.                          *)
updateEarly ==
  /\ process # "gone" /\ closeExpireTime # nil /\ now < closeExpireTime
  /\ checkCloseProgram(curCloseLevel, closeTagMap, calls)
  /\ UNCHANGED <<now, clusterMap, known>>

(* update, run by the clock.                                               *)
update ==
  /\ process # "gone" /\ closeExpireTime # nil /\ closeExpireTime < now
  /\ checkCloseProgram(curCloseLevel, closeTagMap, calls)
  /\ UNCHANGED <<now, clusterMap, known>>

(* Half a second after the login level began the process aborts.           *)
abort ==
  /\ process = "closing" /\ process' = "gone"
  /\ UNCHANGED <<now, clusterMap, curCloseLevel, curCloseStep, closeExpireTime,
                 closeTagMap, calls, known, told>>

(* Bound: the clock stops at MaxTime, or when the deadline has passed.     *)
Tick ==
  /\ now < MaxTime \/ (closeExpireTime # nil /\ now <= closeExpireTime)
  /\ now' = now + 1
  /\ UNCHANGED <<clusterMap, closing, known>>

Next ==
  \/ \E n \in Nodes : updateCluster(n) \/ \E step \in {"step_pre", "step_close"} : callReturns(n, step)
  \/ closeCluster \/ update \/ abort \/ Tick

Spec == Init /\ [][Next]_vars

(* Time passes, update runs, and what sleeps is woken.  No call need ever  *)
(* return.                                                                 *)
FairSpec == Spec /\ WF_vars(Tick) /\ WF_vars(update) /\ WF_vars(abort)

-----------------------------------------------------------------------------
(* Types of the tables; tags are those of the level being closed.          *)
TypeOK ==
  /\ now \in Nat /\ clusterMap \subseteq Nodes
  /\ curCloseLevel \in 0..101 \cup {nil} /\ closeExpireTime \in Nat \cup {nil}
  /\ curCloseStep \in {"step_pre", "step_close", nil}
  /\ \A n \in closeTagMap : n \in Nodes /\ Level[n] = curCloseLevel
  /\ calls \subseteq Nodes \X {"step_pre", "step_close"}
  /\ process \in {"up", "closing", "gone"}
  /\ known \subseteq clusterMap
  /\ told \in [Nodes -> Seq({"step_pre", "step_close"})]
  /\ curCloseLevel = nil => known = {} /\ calls = {} /\ closeTagMap = {}

(* Until the deadline no step begins while a call of another is under way: *)
(* a game server is not told to stop while another one still throws its    *)
(* players out, nor the servers it uses while it is stopping.              *)
OneStepAtATime ==
  /\ TypeOK
  /\ closeExpireTime # nil /\ now < closeExpireTime =>
       \A c \in calls : Level[c[1]] = curCloseLevel /\ c[2] = curCloseStep

(* Whatever the calls do and when, before the deadline or after, a node    *)
(* that was there when closing began has been told both steps, in order    *)
(* and once, when a higher level begins, and so when this process ends.    *)
EveryNodeIsTold ==
  \A n \in known : curCloseLevel > Level[n] => told[n] = <<"step_pre", "step_close">>

(* Both, whatever the nodes do.                                            *)
CloseIsOrderly == OneStepAtATime /\ EveryNodeIsTold

(* Closing ends, even if no node ever answers.                             *)
CloseEnds == curCloseLevel # nil ~> process = "gone"
=============================================================================
