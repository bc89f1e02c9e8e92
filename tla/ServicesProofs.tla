--------------------------- MODULE ServicesProofs ---------------------------
(***************************************************************************)
(* Proofs about the parts of a service, for any nodes, levels, functions   *)
(* and periods.  First each part by itself:                                *)
(*   CloseCorrect          CM!Spec => []CM!CloseIsOrderly                  *)
(*   EndCorrect            CM!Spec => []EndComesLast                       *)
(*   StartCorrect          SC!Spec => []SC!NoStartIsLost                   *)
(*   RemovedCorrect        SC!Spec => SC!RemovedDoNotRun                   *)
(*   ToldOnceCorrect       CC!Spec => []CC!ToldOnce                        *)
(* then, by Parts, what Services promises of all of them at once:          *)
(*   ClosingCorrect        SSpec => []CloseIsOrderly                       *)
(*   RequestsCorrect       SSpec => []CC!ToldOnce                          *)
(*   FramesCorrect         SSpec => []NoStartIsLost                        *)
(*   TimersCorrect         SSpec => []OnSchedule                           *)
(*   RemovedTimersCorrect  SSpec => RemovedDoNotFire                       *)
(***************************************************************************)
EXTENDS Services, Sequences, WellFoundedInduction, SequenceTheorems, TLAPS

CMAssumption == CM!LevelAssumption /\ CM!TimeAssumption /\ CM!nilAssumption

-----------------------------------------------------------------------------
(* ClusterMgr.  Any set of levels has a least one.                         *)
Smaller == {p \in Nat \X Nat : p[1] < p[2]}

LEMMA LeastOf ==
  ASSUME NEW S \in SUBSET Nat, S # {}
  PROVE  CM!Min(S) \in S /\ \A y \in S : CM!Min(S) <= y
  <1>1. IsWellFoundedOn(Smaller, Nat)
    BY NatLessThanWellFounded DEF OpToRel, Smaller
  <1>2. PICK x \in S : \A y \in S : ~ (<<y, x>> \in Smaller)
    BY <1>1, WFMin
  <1>3. x \in Nat /\ \A y \in S : y \in Nat /\ ~ (y < x)
    BY <1>2 DEF Smaller
  <1>4. \A y \in S : x <= y
    BY <1>3
  <1> QED
    BY <1>4 DEF CM!Min

(* What a node that was there when closing began has been told, when the   *)
(* closing has come to this level and step.                                *)
ToldAt(n, level, step) ==
  IF level < Level[n] THEN <<>>
  ELSE IF level = Level[n] /\ step = "step_pre" THEN <<"step_pre">>
  ELSE <<"step_pre", "step_close">>

NotBegun ==
  curCloseLevel = nil =>
    /\ curCloseStep = nil /\ closeExpireTime = nil /\ process = "up"
    /\ \A n \in Nodes : told[n] = <<>>

Begun ==
  curCloseLevel # nil =>
    /\ curCloseLevel \in 1..LoginLevel \cup {101}
    /\ curCloseStep # nil /\ closeExpireTime # nil
    /\ \A n \in known : told[n] = ToldAt(n, curCloseLevel, curCloseStep)

(* Until the deadline the tags are the calls that are under way.           *)
Tagged ==
  closeExpireTime # nil /\ cmNow < closeExpireTime =>
    \A c \in calls : c[1] \in closeTagMap /\ c[2] = curCloseStep

Ended == process # "up" => curCloseLevel \in {LoginLevel, 101}

CMInv == CM!TypeOK /\ NotBegun /\ Begun /\ Tagged /\ Ended

(* The loop of checkCloseProgram passes over no level that has a node.     *)
LEMMA FollowingPassesNone ==
  ASSUME CMAssumption, CM!TypeOK, NEW level \in 0..LoginLevel,
         NEW at, at = CM!Following(level)
  PROVE  \/ at = <<level, "step_close">> /\ curCloseStep = "step_pre"
         \/ /\ at[2] = "step_pre" /\ at[1] \in level + 1..LoginLevel \cup {101}
            /\ at = <<at[1], at[2]>>
            /\ curCloseStep = "step_pre" => CM!NodesOf(level) = {}
            /\ \A n \in clusterMap : Level[n] <= level \/ at[1] <= Level[n]
  <1> USE DEF CMAssumption, CM!LevelAssumption
  <1>1. CASE curCloseStep = "step_pre" /\ CM!Counts(level)
    BY <1>1 DEF CM!Following
  <1>2. CASE ~(curCloseStep = "step_pre" /\ CM!Counts(level)) /\ CM!Above(level) = {}
    <2>1. level = LoginLevel
      <3>1. LoginLevel \notin level + 1..LoginLevel
        BY <1>2 DEF CM!Above, CM!Counts
      <3> QED
        BY <3>1
    <2>2. ASSUME NEW n \in clusterMap PROVE Level[n] <= level
      <3>1. n \in Nodes
        BY DEF CM!TypeOK
      <3>2. Level[n] \in Nat /\ Level[n] < LoginLevel /\ LoginLevel \in Nat
        BY <3>1
      <3> QED
        BY <2>1, <3>2
    <2>3. curCloseStep = "step_pre" => CM!NodesOf(level) = {}
      BY <1>2 DEF CM!Counts
    <2>4. at = <<101, "step_pre">>
      BY <1>2 DEF CM!Following
    <2> QED
      BY <2>2, <2>3, <2>4
  <1>3. CASE ~(curCloseStep = "step_pre" /\ CM!Counts(level)) /\ CM!Above(level) # {}
    <2> DEFINE l == CM!Min(CM!Above(level))
    <2>1. CM!Above(level) \in SUBSET Nat
      BY DEF CM!Above
    <2>2. l \in CM!Above(level) /\ \A k \in CM!Above(level) : l <= k
      BY <1>3, <2>1, LeastOf
    <2>3. at = <<l, "step_pre">>
      BY <1>3 DEF CM!Following
    <2> HIDE DEF l
    <2>4. l \in level + 1..LoginLevel /\ l \in Nat
      BY <2>2 DEF CM!Above
    <2>5. ASSUME NEW n \in clusterMap, level < Level[n] PROVE l <= Level[n]
      <3>1. Level[n] \in level + 1..LoginLevel /\ n \in CM!NodesOf(Level[n])
        BY <2>5 DEF CM!NodesOf, CM!TypeOK
      <3>2. Level[n] \in CM!Above(level)
        BY <3>1 DEF CM!Above, CM!Counts
      <3> QED
        BY <2>2, <3>2
    <2>6. \A n \in clusterMap : Level[n] \in Nat
      BY DEF CM!TypeOK
    <2>7. curCloseStep = "step_pre" => CM!NodesOf(level) = {}
      BY <1>3 DEF CM!Counts
    <2> QED
      BY <2>3, <2>4, <2>5, <2>6, <2>7
  <1> QED
    BY <1>1, <1>2, <1>3

LEMMA BothSteps == Append(<<"step_pre">>, "step_close") = <<"step_pre", "step_close">>
  <1> DEFINE T == {"step_pre", "step_close"}
  <1> DEFINE s == <<"step_pre">>
  <1> DEFINE e == "step_close"
  <1> DEFINE t == <<"step_pre", "step_close">>
  <1>1. s \in Seq(T) /\ Len(s) = 1 /\ e \in T
    OBVIOUS
  <1>2. t \in Seq(T) /\ Len(t) = 2 /\ t[1] = s[1] /\ t[2] = e
    OBVIOUS
  <1> HIDE DEF s, t, e, T
  <1>3. /\ Append(s, e) \in Seq(T) /\ Len(Append(s, e)) = Len(s) + 1
        /\ \A i \in 1..Len(s) : Append(s, e)[i] = s[i]
        /\ Append(s, e)[Len(s) + 1] = e
    BY <1>1, AppendProperties, ZenonT(30)
  <1>4. \A i \in 1..Len(Append(s, e)) : Append(s, e)[i] = t[i]
    BY <1>1, <1>2, <1>3
  <1>5. Append(s, e) = t
    BY <1>1, <1>2, <1>3, <1>4, SeqEqual
  <1> QED
    BY <1>5 DEF s, t, e

(* The next step is sent to the nodes of its level: it is the next one for *)
(* each of them, and no call is left of the one before, but after the      *)
(* deadline.                                                               *)
LEMMA StartNextInv ==
  ASSUME CMAssumption, CMInv,
         NEW level \in 0..LoginLevel, level = 0 => curCloseStep = nil,
         process = "up" \/ level = LoginLevel,
         NEW tags \in SUBSET Nodes, \A n \in tags : Level[n] = level,
         NEW under \in SUBSET (Nodes \X {"step_pre", "step_close"}),
         closeExpireTime = nil \/ cmNow < closeExpireTime => under = {},
         known' \subseteq clusterMap,
         \A n \in known' : told[n] = ToldAt(n, level, curCloseStep),
         CM!StartNext(level, tags, under), UNCHANGED <<cmNow, clusterMap>>
  PROVE  CMInv'
  <1> DEFINE at == CM!Following(level)
  <1> USE DEF CMInv
  <1>0. /\ nil \notin Nat /\ nil # "step_pre" /\ nil # "step_close" /\ LoginLevel \in 1..99
        /\ \A n \in Nodes : Level[n] \in Nat \ {0} /\ Level[n] < LoginLevel
    BY DEF CMAssumption, CM!LevelAssumption, CM!nilAssumption
  <1>1. \/ at = <<level, "step_close">> /\ curCloseStep = "step_pre"
        \/ /\ at[2] = "step_pre" /\ at[1] \in level + 1..LoginLevel \cup {101}
           /\ at = <<at[1], at[2]>>
           /\ curCloseStep = "step_pre" => CM!NodesOf(level) = {}
           /\ \A n \in clusterMap : Level[n] <= level \/ at[1] <= Level[n]
    BY FollowingPassesNone
  <1>2. /\ curCloseLevel' = at[1] /\ curCloseStep' = at[2]
        /\ closeTagMap' = CM!Tags(level, at, tags)
        /\ closeExpireTime' = IF closeExpireTime = nil THEN cmNow + closeSeconds ELSE closeExpireTime
        /\ process' = IF at[1] = LoginLevel THEN "closing" ELSE process
        /\ UNCHANGED <<cmNow, clusterMap>>
    BY DEF CM!StartNext
  <1>13. /\ calls' = under \cup {<<n, at[2]>> : n \in CM!NodesOf(at[1])}
         /\ told' = [n \in Nodes |-> IF n \in CM!NodesOf(at[1]) THEN Append(told[n], at[2]) ELSE told[n]]
    BY DEF CM!StartNext
  <1> HIDE DEF at
  <1>3. at[1] \in 0..LoginLevel \cup {101} /\ at[2] \in {"step_pre", "step_close"}
    BY <1>0, <1>1
  <1>4. \A n \in clusterMap : n \in Nodes /\ Level[n] \in Nat
    BY <1>0 DEF CM!TypeOK
  <1>5. closeExpireTime' \in Nat /\ closeExpireTime' # nil
    BY <1>0, <1>2 DEF CM!TypeOK, CMAssumption, CM!TimeAssumption
  <1>6. CM!NodesOf(at[1]) \subseteq Nodes /\ \A n \in CM!NodesOf(at[1]) : Level[n] = at[1]
    BY <1>4 DEF CM!NodesOf
  <1>7. closeTagMap' \subseteq Nodes /\ \A n \in closeTagMap' : Level[n] = curCloseLevel'
    BY <1>2, <1>6 DEF CM!Tags
  <1>8. CM!TypeOK'
    <2>1. told' \in [Nodes -> Seq({"step_pre", "step_close"})]
      <3>1. \A n \in Nodes : Append(told[n], at[2]) \in Seq({"step_pre", "step_close"})
        BY <1>3 DEF CM!TypeOK
      <3> QED
        BY <1>13, <3>1 DEF CM!TypeOK
    <2>2. calls' \subseteq Nodes \X {"step_pre", "step_close"}
      BY <1>3, <1>6, <1>13
    <2>3. curCloseLevel' \in 0..101 /\ curCloseLevel' # nil /\ curCloseStep' \in {"step_pre", "step_close"}
      BY <1>0, <1>2, <1>3
    <2>4. process' \in {"up", "closing", "gone"} /\ cmNow' \in Nat /\ clusterMap' \subseteq Nodes
      BY <1>2 DEF CM!TypeOK
    <2> QED
      BY <1>2, <1>5, <1>7, <2>1, <2>2, <2>3, <2>4 DEF CM!TypeOK
  <1>9. curCloseLevel' \in 1..LoginLevel \cup {101} /\ curCloseLevel' # nil /\ curCloseStep' # nil
    BY <1>0, <1>1, <1>2, <1>3
  <1>10. \A n \in known' : told'[n] = ToldAt(n, curCloseLevel', curCloseStep')
    <2> SUFFICES ASSUME NEW n \in known' PROVE told'[n] = ToldAt(n, at[1], at[2])
      BY <1>2 DEF ToldAt
    <2>1. n \in clusterMap /\ n \in Nodes /\ Level[n] \in Nat /\ told[n] = ToldAt(n, level, curCloseStep)
      BY <1>4
    <2>2. told'[n] = IF Level[n] = at[1] THEN Append(told[n], at[2]) ELSE told[n]
      BY <1>13, <2>1 DEF CM!NodesOf
    <2>3. CASE at = <<level, "step_close">> /\ curCloseStep = "step_pre"
      <3>1. at[1] = level /\ at[2] = "step_close" /\ level \in Nat
        BY <2>3
      <3>2. Append(<<"step_pre">>, "step_close") = <<"step_pre", "step_close">>
        BY BothSteps
      <3>3. ToldAt(n, at[1], at[2]) = IF level < Level[n] THEN <<>> ELSE <<"step_pre", "step_close">>
        BY <3>1 DEF ToldAt
      <3>4. told[n] = IF level < Level[n] THEN <<>>
                      ELSE IF level = Level[n] THEN <<"step_pre">> ELSE <<"step_pre", "step_close">>
        BY <2>1, <2>3 DEF ToldAt
      <3> HIDE DEF at
      <3>5. told'[n] = IF Level[n] = level THEN Append(told[n], "step_close") ELSE told[n]
        BY <2>2, <3>1
      <3>6. CASE Level[n] = level
        BY <2>1, <3>1, <3>2, <3>3, <3>4, <3>5, <3>6
      <3>7. CASE Level[n] # level
        BY <2>1, <3>1, <3>3, <3>4, <3>5, <3>7
      <3> QED
        BY <3>6, <3>7
    <2>4. CASE /\ at[2] = "step_pre" /\ at[1] \in level + 1..LoginLevel \cup {101}
               /\ curCloseStep = "step_pre" => CM!NodesOf(level) = {}
               /\ \A x \in clusterMap : Level[x] <= level \/ at[1] <= Level[x]
      <3>1. at[1] \in Nat /\ level \in Nat /\ level < at[1]
        BY <1>0, <2>4
      <3>2. CASE Level[n] = level
        <4>1. curCloseStep # "step_pre"
          BY <2>1, <2>4, <3>2 DEF CM!NodesOf
        <4> QED
          BY <2>1, <2>2, <3>1, <3>2, <4>1 DEF ToldAt
      <3>3. CASE Level[n] < level
        BY <2>1, <2>2, <3>1, <3>3 DEF ToldAt
      <3>4. CASE level < Level[n]
        BY <2>1, <2>2, <2>4, <3>1, <3>4 DEF ToldAt
      <3> QED
        BY <2>1, <3>1, <3>2, <3>3, <3>4
    <2> QED
      BY <1>1, <2>3, <2>4
  <1>11. Tagged'
    <2> SUFFICES ASSUME cmNow' < closeExpireTime', NEW c \in calls'
                 PROVE  c[1] \in closeTagMap' /\ c[2] = curCloseStep'
      BY DEF Tagged
    <2>1. under = {}
      BY <1>2
    <2>2. PICK n \in CM!NodesOf(at[1]) : c = <<n, at[2]>>
      BY <1>13, <2>1
    <2> QED
      BY <1>2, <2>2 DEF CM!Tags
  <1>12. Ended'
    BY <1>0, <1>1, <1>2 DEF Ended
  <1> QED
    BY <1>5, <1>8, <1>9, <1>10, <1>11, <1>12 DEF NotBegun, Begun

(* checkCloseProgram, whichever way it goes.                               *)
LEMMA CheckInv ==
  ASSUME CMAssumption, CMInv, curCloseLevel # nil,
         NEW tags \in SUBSET closeTagMap, NEW under \in SUBSET calls,
         closeExpireTime # nil /\ cmNow < closeExpireTime => \A c \in under : c[1] \in tags,
         CM!checkCloseProgram(curCloseLevel, tags, under), UNCHANGED <<cmNow, clusterMap, known>>
  PROVE  CMInv'
  <1> USE DEF CMInv
  <1>0. /\ LoginLevel \in 1..99 /\ closeTagMap \subseteq Nodes /\ \A n \in closeTagMap : Level[n] = curCloseLevel
        /\ calls \subseteq Nodes \X {"step_pre", "step_close"}
    BY DEF CMAssumption, CM!LevelAssumption, CM!TypeOK
  <1>1. CASE curCloseLevel <= 100 /\ ~CM!Waits(tags) /\ CM!StartNext(curCloseLevel, tags, under)
    <2>1. curCloseLevel \in 0..LoginLevel /\ curCloseLevel # 0
      BY <1>0, <1>1 DEF Begun
    <2>2. closeExpireTime # nil /\ (cmNow < closeExpireTime => tags = {})
      BY <1>1 DEF CM!Waits, Begun
    <2>3. closeExpireTime = nil \/ cmNow < closeExpireTime => under = {}
      BY <2>2
    <2>4. process = "up" \/ curCloseLevel = LoginLevel
      BY <1>1, <1>0 DEF Ended
    <2>5. known' \subseteq clusterMap /\ \A n \in known' : told[n] = ToldAt(n, curCloseLevel, curCloseStep)
      BY DEF CM!TypeOK, Begun
    <2> QED
      BY <1>0, <1>1, <2>1, <2>3, <2>4, <2>5, StartNextInv
  <1>2. CASE /\ closeTagMap' = tags /\ calls' = under
             /\ UNCHANGED <<curCloseLevel, curCloseStep, closeExpireTime, process, told>>
    BY <1>0, <1>2 DEF CM!TypeOK, NotBegun, Begun, Tagged, Ended, ToldAt
  <1> QED
    BY <1>1, <1>2 DEF CM!checkCloseProgram

LEMMA CMInitInv == ASSUME CMAssumption, CM!Init PROVE CMInv
  <1>1. \A n \in Nodes : <<>> \in Seq({"step_pre", "step_close"})
    OBVIOUS
  <1> QED
    BY <1>1 DEF CM!Init, CMInv, CM!TypeOK, NotBegun, Begun, Tagged, Ended

LEMMA CMStepInv == ASSUME CMAssumption, CMInv, [CM!Next]_(CM!vars) PROVE CMInv'
  <1> USE DEF CMInv, CM!closing
  <1>1. ASSUME NEW n \in Nodes, CM!updateCluster(n) PROVE CMInv'
    BY <1>1 DEF CM!updateCluster, CM!TypeOK, NotBegun, Begun, Tagged, Ended, ToldAt
  <1>2. ASSUME NEW n \in Nodes, NEW step \in {"step_pre", "step_close"}, CM!callReturns(n, step)
        PROVE  CMInv'
    <2> DEFINE tags == IF Level[n] = curCloseLevel THEN closeTagMap \ {n} ELSE closeTagMap
    <2> DEFINE under == calls \ {<<n, step>>}
    <2>1. curCloseLevel # nil
      BY <1>2 DEF CM!callReturns, CM!TypeOK
    <2>2. ASSUME closeExpireTime # nil, cmNow < closeExpireTime, NEW c \in under PROVE c[1] \in tags
      <3>1. c \in calls /\ c[1] \in closeTagMap /\ c[2] = curCloseStep /\ c = <<c[1], c[2]>>
        BY <2>2 DEF Tagged, CM!TypeOK
      <3>2. step = curCloseStep
        BY <1>2, <2>2 DEF CM!callReturns, Tagged
      <3>3. c[1] # n
        BY <3>1, <3>2
      <3> QED
        BY <3>1, <3>3
    <2>3. CM!checkCloseProgram(curCloseLevel, tags, under) /\ UNCHANGED <<cmNow, clusterMap, known>>
      BY <1>2 DEF CM!callReturns
    <2>4. tags \in SUBSET closeTagMap /\ under \in SUBSET calls
      OBVIOUS
    <2> HIDE DEF tags, under
    <2> QED
      BY <2>1, <2>2, <2>3, <2>4, CheckInv
  <1>3. CASE CM!closeCluster
    <2>1. /\ curCloseLevel = nil /\ process = "up" /\ closeExpireTime = nil /\ curCloseStep = nil
          /\ \A n \in Nodes : told[n] = <<>>
      BY <1>3 DEF CM!closeCluster, NotBegun
    <2>2. CM!StartNext(0, {}, {}) /\ known' = clusterMap /\ UNCHANGED <<cmNow, clusterMap>>
      BY <1>3, <2>1 DEF CM!closeCluster, CM!checkCloseProgram, CM!Waits
    <2>3. \A n \in known' : told[n] = ToldAt(n, 0, curCloseStep)
      BY <2>1, <2>2 DEF CM!TypeOK, CMAssumption, CM!LevelAssumption, ToldAt
    <2>4. 0 \in 0..LoginLevel
      BY DEF CMAssumption, CM!LevelAssumption
    <2> QED
      BY <2>1, <2>2, <2>3, <2>4, StartNextInv
  <1>4. CASE CM!update
    <2>1. curCloseLevel # nil
      BY <1>4 DEF CM!update, NotBegun
    <2>2. ~(closeExpireTime # nil /\ cmNow < closeExpireTime)
      BY <1>4 DEF CM!update, CM!TypeOK
    <2>3. CM!checkCloseProgram(curCloseLevel, closeTagMap, calls) /\ UNCHANGED <<cmNow, clusterMap, known>>
      BY <1>4 DEF CM!update
    <2> QED
      BY <2>1, <2>2, <2>3, CheckInv
  <1>5. CASE CM!abort
    BY <1>5 DEF CM!abort, CM!TypeOK, NotBegun, Begun, Tagged, Ended, ToldAt
  <1>6. CASE CM!Tick
    <2>1. Tagged'
      BY <1>6 DEF CM!Tick, CM!TypeOK, Tagged
    <2> QED
      BY <1>6, <2>1 DEF CM!Tick, CM!TypeOK, NotBegun, Begun, Ended, ToldAt
  <1>7. CASE UNCHANGED CM!vars
    BY <1>7 DEF CM!vars, CM!TypeOK, NotBegun, Begun, Tagged, Ended, ToldAt
  <1> QED
    BY <1>1, <1>2, <1>3, <1>4, <1>5, <1>6, <1>7 DEF CM!Next

(* checkCloseProgram: until the deadline no step begins while a call of    *)
(* another is under way, and when a level begins every node of the lower   *)
(* ones that was there has been told both steps, whatever the nodes do.    *)
THEOREM CloseCorrect == ASSUME CMAssumption PROVE CM!Spec => []CM!CloseIsOrderly
  <1>1. CM!Init => CMInv
    BY CMInitInv
  <1>2. CMInv /\ [CM!Next]_(CM!vars) => CMInv'
    BY CMStepInv
  <1>3. CMInv => CM!CloseIsOrderly
    <2> SUFFICES ASSUME CMInv PROVE CM!CloseIsOrderly
      OBVIOUS
    <2>1. CM!OneStepAtATime
      BY DEF CMInv, CM!OneStepAtATime, CM!TypeOK, Tagged
    <2>2. ASSUME NEW n \in known, curCloseLevel > Level[n]
          PROVE  told[n] = <<"step_pre", "step_close">>
      <3>1. curCloseLevel # nil /\ n \in Nodes
        BY DEF CMInv, CM!TypeOK
      <3>2. curCloseLevel \in Nat /\ Level[n] \in Nat
        BY <3>1 DEF CMInv, CM!TypeOK, CMAssumption, CM!LevelAssumption
      <3> QED
        BY <2>2, <3>1, <3>2 DEF CMInv, Begun, ToldAt
    <2> QED
      BY <2>1, <2>2 DEF CM!CloseIsOrderly, CM!EveryNodeIsTold
  <1> QED
    BY <1>1, <1>2, <1>3, PTL DEF CM!Spec

(* What has been said when the process ends itself.                        *)
EndComesLast ==
  process # "up" => \A n \in known : told[n] = <<"step_pre", "step_close">>

(* abort: when the process ends itself, every node that was there when     *)
(* closing began has been told to prepare and to stop, in this order.      *)
THEOREM EndCorrect == ASSUME CMAssumption PROVE CM!Spec => []EndComesLast
  <1>1. CM!Init => CMInv
    BY CMInitInv
  <1>2. CMInv /\ [CM!Next]_(CM!vars) => CMInv'
    BY CMStepInv
  <1>3. CMInv => EndComesLast
    <2> SUFFICES ASSUME CMInv, process # "up", NEW n \in known
                 PROVE  told[n] = <<"step_pre", "step_close">>
      BY DEF EndComesLast
    <2>1. n \in Nodes /\ curCloseLevel \in {LoginLevel, 101} /\ curCloseLevel # nil
      BY DEF CMInv, CM!TypeOK, Ended, NotBegun
    <2>2. Level[n] \in Nat /\ Level[n] < curCloseLevel /\ curCloseLevel \in Nat
      BY <2>1 DEF CMAssumption, CM!LevelAssumption
    <2> QED
      BY <2>1, <2>2 DEF CMInv, Begun, ToldAt
  <1> QED
    BY <1>1, <1>2, <1>3, PTL DEF CM!Spec

-----------------------------------------------------------------------------
(* Scheduler.                                                              *)
LEMMA SCInitInv == ASSUME SC!HandlesAssumption, SC!Init PROVE SC!NoStartIsLost
  <1> USE DEF SC!Init, SC!Handles, SC!HandlesAssumption
  <1>1. call_map \in [SC!Handles -> {"none", "function", "true"}]
    OBVIOUS
  <1>2. \A h \in SC!Handles : call_map[h] = "none" <=> h > initialHandle
    OBVIOUS
  <1>3. open \in BOOLEAN /\ continue \in BOOLEAN /\ schedulerCo = "ready"
    BY Zenon
  <1>4. initialHandle \in 0..MaxHandles /\ keys \subseteq 1..initialHandle /\ scRunning = nil
    OBVIOUS
  <1> HIDE DEF SC!Init
  <1> QED
    BY <1>1, <1>2, <1>3, <1>4 DEF SC!NoStartIsLost, SC!TypeOK

LEMMA SCStepInv ==
  ASSUME SC!HandlesAssumption, SC!NoStartIsLost, [SC!Next]_(SC!vars) PROVE SC!NoStartIsLost'
  <1> USE DEF SC!HandlesAssumption, SC!NoStartIsLost, SC!Handles, SC!frame
  <1>1. CASE SC!scheduleUpdate
    <2>1. /\ initialHandle' = initialHandle + 1 /\ initialHandle' \in 1..MaxHandles
          /\ call_map' \in [1..MaxHandles -> {"none", "function", "true"}]
          /\ \A h \in 1..MaxHandles : call_map'[h] = IF h = initialHandle' THEN "function" ELSE call_map[h]
      BY <1>1 DEF SC!scheduleUpdate, SC!TypeOK
    <2>2. \A h \in 1..MaxHandles : call_map'[h] = "none" <=> h > initialHandle'
      BY <2>1 DEF SC!TypeOK
    <2>3. keys' \subseteq 1..initialHandle'
      BY <1>1, <2>1 DEF SC!scheduleUpdate, SC!TypeOK
    <2>4. scRunning' \in {nil} \cup [handle : 1..initialHandle', func : {"function", "true"}]
      BY <1>1, <2>1 DEF SC!scheduleUpdate, SC!TypeOK
    <2> QED
      BY <1>1, <2>1, <2>2, <2>3, <2>4 DEF SC!scheduleUpdate, SC!TypeOK
  <1>2. ASSUME NEW h \in SC!Handles, SC!unscheduleUpdate(h) PROVE SC!NoStartIsLost'
    BY <1>2 DEF SC!unscheduleUpdate, SC!TypeOK
  <1>3. CASE SC!start
    BY <1>3 DEF SC!start, SC!Woken, SC!TypeOK
  <1>4. CASE SC!pause
    BY <1>4 DEF SC!pause, SC!TypeOK
  <1>5. CASE SC!destroy
    BY <1>5 DEF SC!destroy, SC!Woken, SC!TypeOK
  <1>6. ASSUME NEW h \in SC!Handles, SC!call(h) PROVE SC!NoStartIsLost'
    <2>1. h \in 1..initialHandle /\ call_map[h] \in {"function", "true"}
      BY <1>6 DEF SC!call, SC!TypeOK
    <2>2. scRunning' \in [handle : 1..initialHandle, func : {"function", "true"}]
      BY <1>6, <2>1 DEF SC!call
    <2> QED
      BY <1>6, <2>2 DEF SC!call, SC!TypeOK
  <1>7. CASE SC!coFun
    <2>1. keys' \subseteq 1..initialHandle
      BY <1>7 DEF SC!coFun, SC!TypeOK
    <2> QED
      BY <1>7, <2>1 DEF SC!coFun, SC!TypeOK
  <1>8. CASE SC!callReturns
    BY <1>8 DEF SC!callReturns, SC!TypeOK
  <1>9. CASE SC!updateEnds
    BY <1>9 DEF SC!updateEnds, SC!TypeOK
  <1>10. CASE SC!sleepEnds
    BY <1>10 DEF SC!sleepEnds, SC!TypeOK
  <1>11. CASE UNCHANGED SC!vars
    BY <1>11 DEF SC!vars, SC!TypeOK
  <1> QED
    BY <1>1, <1>2, <1>3, <1>4, <1>5, <1>6, <1>7, <1>8, <1>9, <1>10, <1>11 DEF SC!Next

(* start, destroy: the coroutine never waits while the scheduler is to run *)
(* or to end, however they fall together with pause and the end of a frame.*)
THEOREM StartCorrect == ASSUME SC!HandlesAssumption PROVE SC!Spec => []SC!NoStartIsLost
  <1>1. SC!Init => SC!NoStartIsLost
    BY SCInitInv
  <1>2. SC!NoStartIsLost /\ [SC!Next]_(SC!vars) => SC!NoStartIsLost'
    BY SCStepInv
  <1> QED
    BY <1>1, <1>2, PTL DEF SC!Spec

(* update: what was removed is not called any more, in the same frame or   *)
(* in another.                                                             *)
THEOREM RemovedCorrect == ASSUME SC!HandlesAssumption PROVE SC!Spec => SC!RemovedDoNotRun
  <1>1. ASSUME SC!Next, NEW h \in SC!Handles, call_map[h] = "true", scRunning = nil
        PROVE  scRunning' # [handle |-> h, func |-> "function"]
    <2>1. [handle |-> h, func |-> "function"] # nil
      BY DEF SC!HandlesAssumption, SC!Running
    <2>2. ASSUME NEW g \in SC!Handles, SC!call(g) PROVE scRunning' # [handle |-> h, func |-> "function"]
      BY <1>1, <2>2 DEF SC!call
    <2>3. CASE \/ SC!scheduleUpdate \/ SC!start \/ SC!pause \/ SC!destroy
               \/ SC!coFun \/ SC!callReturns \/ SC!updateEnds \/ SC!sleepEnds
               \/ \E g \in SC!Handles : SC!unscheduleUpdate(g)
      BY <1>1, <2>1, <2>3 DEF SC!scheduleUpdate, SC!start, SC!pause, SC!destroy, SC!coFun, SC!frame,
            SC!callReturns, SC!updateEnds, SC!sleepEnds, SC!unscheduleUpdate
    <2> QED
      BY <1>1, <2>2, <2>3 DEF SC!Next
  <1>2. [SC!Next]_(SC!vars) =>
          [\A h \in SC!Handles : call_map[h] = "true" /\ scRunning = nil =>
             scRunning' # [handle |-> h, func |-> "function"]]_(SC!vars)
    BY <1>1
  <1> QED
    BY <1>2, PTL DEF SC!Spec, SC!RemovedDoNotRun

-----------------------------------------------------------------------------
(* ClusterCall.  The answer and the timeout of one request: until one of   *)
(* them comes nobody is told, and each leaves behind what keeps the other  *)
(* silent.                                                                 *)
NotMade(r) ==
  kind[r] = nil =>
    /\ caller[r] = "idle" /\ main[r] = "idle" /\ ~isTimeout[r] /\ ~hasCallBack[r]
    /\ cbRuns[r] = 0 /\ timeoutRuns[r] = 0

(* Who waits was not called back, and has no timeout unless it gave up.    *)
Waiting(r) ==
  caller[r] = "waiting" =>
    /\ kind[r] # nil /\ cbRuns[r] = 0
    /\ kind[r] # "timeout_callback" \/ ~isTimeout[r] => timeoutRuns[r] = 0

(* The coroutine of timeout_callback has not given up before it goes on.   *)
Sleeping(r) ==
  /\ main[r] # "idle" => kind[r] = "timeout_callback"
  /\ main[r] \in {"asleep", "woken"} =>
       /\ ~isTimeout[r] /\ timeoutRuns[r] = 0
       /\ ~hasCallBack[r] => cbRuns[r] = 0

Once(r) ==
  NotMade(r) /\ Waiting(r) /\ Sleeping(r) /\ cbRuns[r] + timeoutRuns[r] <= 1

CCInv == CC!TypeOK /\ \A r \in Requests : Once(r)

LEMMA ArgumentsSplit ==
  /\ CC!Passed = <<arg>>
  /\ \A args \in {CC!Arguments, CC!Passed} : Head(args) \in {command, arg}
  BY DEF CC!Passed, CC!Arguments

LEMMA CCInitInv == ASSUME CC!Init PROVE CCInv
  BY DEF CC!Init, CCInv, CC!TypeOK, Once, NotMade, Waiting, Sleeping

(* What a step does to one request leaves the others as they are.          *)
LEMMA OnlyThis ==
  ASSUME CCInv, CC!TypeOK', NEW r \in Requests, Once(r)',
         \A o \in Requests \ {r} :
           /\ kind'[o] = kind[o] /\ caller'[o] = caller[o] /\ main'[o] = main[o]
           /\ isTimeout'[o] = isTimeout[o] /\ hasCallBack'[o] = hasCallBack[o]
           /\ cbRuns'[o] = cbRuns[o] /\ timeoutRuns'[o] = timeoutRuns[o]
  PROVE  CCInv'
  <1>1. ASSUME NEW o \in Requests \ {r} PROVE Once(o)'
    BY DEF CCInv, Once, NotMade, Waiting, Sleeping
  <1> QED
    BY <1>1 DEF CCInv

LEMMA CCStepInv == ASSUME CC!ArgsAssumption, CCInv, [CC!Next]_(CC!vars) PROVE CCInv'
  <1> USE DEF CC!Kinds
  <1>1. ASSUME NEW r \in Requests, CC!callNoAddress(r) PROVE CCInv'
    <2>1. CC!TypeOK'
      BY <1>1 DEF CC!callNoAddress, CC!New, CCInv, CC!TypeOK
    <2>2. Once(r)'
      BY <1>1 DEF CC!callNoAddress, CC!New, CCInv, CC!TypeOK, CC!ArgsAssumption, Once, NotMade, Waiting, Sleeping
    <2> QED
      BY <1>1, <2>1, <2>2, OnlyThis DEF CC!callNoAddress, CC!New, CCInv, CC!TypeOK
  <1>2. ASSUME NEW r \in Requests, CC!callbackNoAddress(r) PROVE CCInv'
    <2>1. CC!TypeOK'
      BY <1>2 DEF CC!callbackNoAddress, CC!New, CC!Runs, CC!waits, CCInv, CC!TypeOK
    <2>2. Once(r)'
      BY <1>2 DEF CC!callbackNoAddress, CC!New, CC!Runs, CC!waits, CCInv, CC!TypeOK, CC!ArgsAssumption,
            Once, NotMade, Waiting, Sleeping
    <2> QED
      BY <1>2, <2>1, <2>2, OnlyThis DEF CC!callbackNoAddress, CC!New, CC!Runs, CC!waits, CCInv, CC!TypeOK
  <1>3. ASSUME NEW r \in Requests, CC!call(r) PROVE CCInv'
    <2>1. PICK k \in {"call", "callback", "timeout_callback"} :
            /\ CC!New(r, k)
            /\ main' = [main EXCEPT ![r] = IF k = "timeout_callback" THEN "asleep" ELSE "idle"]
      BY <1>3 DEF CC!call
    <2>2. CC!TypeOK'
      BY <1>3, <2>1 DEF CC!call, CC!New, CCInv, CC!TypeOK
    <2>3. Once(r)'
      BY <1>3, <2>1 DEF CC!call, CC!New, CCInv, CC!TypeOK, CC!ArgsAssumption, Once, NotMade, Waiting, Sleeping
    <2> QED
      BY <1>3, <2>1, <2>2, <2>3, OnlyThis DEF CC!call, CC!New, CCInv, CC!TypeOK
  <1>4. ASSUME NEW r \in Requests, CC!send(r) PROVE CCInv'
    <2>1. CC!TypeOK'
      BY <1>4 DEF CC!send, CC!New, CC!waits, CCInv, CC!TypeOK
    <2>2. Once(r)'
      BY <1>4 DEF CC!send, CC!New, CC!waits, CCInv, CC!TypeOK, CC!ArgsAssumption, Once, NotMade, Waiting, Sleeping
    <2> QED
      BY <1>4, <2>1, <2>2, OnlyThis DEF CC!send, CC!New, CC!waits, CCInv, CC!TypeOK
  <1>5. ASSUME NEW r \in Requests, CC!answer(r) PROVE CCInv'
    <2>1. CC!TypeOK'
      <3>1. main' \in [Requests -> {"idle", "asleep", "woken", "ended"}]
        BY <1>5 DEF CC!answer, CCInv, CC!TypeOK
      <3>2. /\ caller' \in [Requests -> {"idle", "waiting", "returned"}]
            /\ isTimeout' \in [Requests -> BOOLEAN] /\ hasCallBack' \in [Requests -> BOOLEAN]
        BY <1>5 DEF CC!answer, CCInv, CC!TypeOK
      <3>3. cbRuns' \in [Requests -> Nat] /\ timeoutRuns' \in [Requests -> Nat]
        BY <1>5 DEF CC!answer, CC!Runs, CCInv, CC!TypeOK
      <3>4. \A o \in Requests : ~(isTimeout'[o] /\ hasCallBack'[o])
        BY <1>5 DEF CC!answer, CCInv, CC!TypeOK
      <3> QED
        BY <1>5, <3>1, <3>2, <3>3, <3>4 DEF CC!answer, CCInv, CC!TypeOK
    <2>2. Once(r)'
      BY <1>5 DEF CC!answer, CC!Runs, CCInv, CC!TypeOK, Once, NotMade, Waiting, Sleeping
    <2> QED
      BY <1>5, <2>1, <2>2, OnlyThis DEF CC!answer, CC!Runs, CCInv, CC!TypeOK
  <1>6. ASSUME NEW r \in Requests, CC!wake(r) PROVE CCInv'
    <2>1. CC!TypeOK'
      <3>1. main' \in [Requests -> {"idle", "asleep", "woken", "ended"}]
        BY <1>6 DEF CC!wake, CCInv, CC!TypeOK
      <3>2. /\ caller' \in [Requests -> {"idle", "waiting", "returned"}]
            /\ isTimeout' \in [Requests -> BOOLEAN] /\ hasCallBack' \in [Requests -> BOOLEAN]
        BY <1>6 DEF CC!wake, CCInv, CC!TypeOK
      <3>3. cbRuns' \in [Requests -> Nat] /\ timeoutRuns' \in [Requests -> Nat]
        BY <1>6 DEF CC!wake, CC!Runs, CCInv, CC!TypeOK
      <3>4. \A o \in Requests : ~(isTimeout'[o] /\ hasCallBack'[o])
        BY <1>6 DEF CC!wake, CCInv, CC!TypeOK
      <3> QED
        BY <1>6, <3>1, <3>2, <3>3, <3>4 DEF CC!wake, CCInv, CC!TypeOK
    <2>2. Once(r)'
      BY <1>6 DEF CC!wake, CC!Runs, CCInv, CC!TypeOK, Once, NotMade, Waiting, Sleeping
    <2> QED
      BY <1>6, <2>1, <2>2, OnlyThis DEF CC!wake, CC!Runs, CCInv, CC!TypeOK
  <1>7. ASSUME NEW m \in messages, CC!dispatch(m) PROVE CCInv'
    <2>1. m[1] \in Requests /\ Head(m[2]) \in {command, arg}
      BY ArgumentsSplit DEF CCInv, CC!TypeOK
    <2>2. CC!TypeOK'
      BY <1>7, <2>1 DEF CC!dispatch, CC!waits, CCInv, CC!TypeOK
    <2> QED
      BY <1>7, <2>2 DEF CC!dispatch, CC!waits, CCInv, Once, NotMade, Waiting, Sleeping
  <1>8. CASE UNCHANGED CC!vars
    BY <1>8 DEF CC!vars, CC!waits, CCInv, CC!TypeOK, Once, NotMade, Waiting, Sleeping
  <1> QED
    BY <1>1, <1>2, <1>3, <1>4, <1>5, <1>6, <1>7, <1>8 DEF CC!Next

(* timeout_callback, callback and call: whoever wins, the answer or the    *)
(* timeout, who made a request is not told twice.                          *)
THEOREM ToldOnceCorrect == ASSUME CC!ArgsAssumption PROVE CC!Spec => []CC!ToldOnce
  <1>1. CCInv => CC!ToldOnce
    BY DEF CCInv, Once, CC!ToldOnce
  <1>2. CC!Init => CCInv
    BY CCInitInv
  <1>3. CCInv /\ [CC!Next]_(CC!vars) => CCInv'
    BY CCStepInv
  <1> QED
    BY <1>1, <1>2, <1>3, PTL DEF CC!Spec

-----------------------------------------------------------------------------
(* DelayTimer: its proofs are in DelayTimerProofs, which speaks of the same*)
(* definitions, reached in another way.                                    *)
AT == INSTANCE DelayTimerProofs WITH now <- dtNow, running <- dtRunning

LEMMA SameTimers ==
  (DT!Init <=> AT!Init) /\ (DT!Next <=> AT!Next) /\ DT!vars = AT!vars
  <1> USE DEF DT!Timers, AT!Timers, DT!ServiceRuns, AT!ServiceRuns, DT!pass, AT!pass,
              DT!EntriesOf, AT!EntriesOf, DT!Continue, AT!Continue, DT!Due, AT!Due,
              DT!Fire, AT!Fire
  <1>1. (DT!Init <=> AT!Init) /\ DT!vars = AT!vars
    BY DEF DT!Init, AT!Init, DT!vars, AT!vars
  <1>2. (DT!update <=> AT!update) /\ (DT!forkDue <=> AT!forkDue) /\ (DT!Tick <=> AT!Tick)
    BY DEF DT!update, AT!update, DT!forkDue, AT!forkDue, DT!Tick, AT!Tick
  <1>3. DT!callbackReturns <=> AT!callbackReturns
    BY DEF DT!callbackReturns, AT!callbackReturns, DT!NextDue, AT!NextDue
  <1>4. \A e : (DT!callback(e) <=> AT!callback(e)) /\ (DT!begin(e) <=> AT!begin(e))
    BY DEF DT!callback, AT!callback, DT!begin, AT!begin, DT!IsNext, AT!IsNext
  <1>5. DT!Clock <=> AT!Clock
    BY <1>2, <1>3, <1>4 DEF DT!Clock, AT!Clock
  <1>6. DT!Client <=> AT!Client
    BY DEF DT!Client, AT!Client, DT!delay, AT!delay, DT!removeNode, AT!removeNode,
           DT!uniqueDelay, AT!uniqueDelay
  <1> QED
    BY <1>1, <1>2, <1>5, <1>6 DEF DT!Next, AT!Next

LEMMA SameOnSchedule == DT!OnSchedule <=> AT!OnSchedule
  BY DEF DT!OnSchedule, AT!OnSchedule, DT!IndicesAgree, AT!IndicesAgree, DT!TypeOK, AT!TypeOK,
         DT!Timers, AT!Timers, DT!Node, AT!Node

-----------------------------------------------------------------------------
(* In a behaviour of Services each part does what it does alone, or        *)
(* nothing.                                                                *)
LEMMA Parts == SSpec => CM!Spec /\ CC!Spec /\ SC!Spec /\ AT!Spec
  <1>1. SInit => CM!Init /\ CC!Init /\ SC!Init /\ AT!Init
    BY SameTimers DEF SInit
  <1>2. [SNext]_svars => [CM!Next]_(CM!vars)
    BY DEF SNext, svars, Closing, Calls, Frames, Timing, cmVars, CM!vars, CM!closing
  <1>3. [SNext]_svars => [SC!Next]_(SC!vars)
    BY DEF SNext, svars, Closing, Calls, Frames, Timing, scVars, SC!vars, SC!frame
  <1>4. [SNext]_svars => [AT!Next]_(AT!vars)
    BY SameTimers DEF SNext, svars, Closing, Calls, Frames, Timing, dtVars, AT!vars
  <1>5. [SNext]_svars => [CC!Next]_(CC!vars)
    BY DEF SNext, svars, Closing, Calls, Frames, Timing, ccVars, CC!vars, CC!waits
  <1> QED
    BY <1>1, <1>2, <1>3, <1>4, <1>5, PTL DEF SSpec, CM!Spec, CC!Spec, SC!Spec, AT!Spec

(* CloseCorrect, in a service.                                             *)
THEOREM ClosingCorrect == SSpec => []CloseIsOrderly
  <1>1. CMAssumption
    BY ServicesAssumption DEF CMAssumption
  <1> QED
    BY <1>1, Parts, CloseCorrect, PTL DEF CloseIsOrderly

(* ToldOnceCorrect, in a service: the half of CallersAreTold that needs no *)
(* fairness.                                                               *)
THEOREM RequestsCorrect == SSpec => []CC!ToldOnce
  BY ServicesAssumption, Parts, ToldOnceCorrect, PTL

(* StartCorrect, in a service.                                             *)
THEOREM FramesCorrect == SSpec => []NoStartIsLost
  BY ServicesAssumption, Parts, StartCorrect, PTL DEF NoStartIsLost

(* OnScheduleCorrect of DelayTimerProofs, in a service.                    *)
THEOREM TimersCorrect == SSpec => []OnSchedule
  <1>1. AT!TimerAssumption
    BY ServicesAssumption DEF AT!TimerAssumption, AT!VariantsAssumption, DT!VariantsAssumption,
       AT!PeriodsAssumption, DT!PeriodsAssumption, AT!BoundAssumption, DT!BoundAssumption,
       AT!nilAssumption, DT!nilAssumption, AT!Node, DT!Node, AT!Timers, DT!Timers
  <1>2. AT!OnSchedule => OnSchedule
    BY SameOnSchedule DEF OnSchedule
  <1>3. AT!Spec => []AT!OnSchedule
    BY <1>1, AT!OnScheduleCorrect
  <1> QED
    BY <1>2, <1>3, Parts, PTL

(* RemovedCorrect of DelayTimerProofs, in a service.                       *)
THEOREM RemovedTimersCorrect == SSpec => RemovedDoNotFire
  <1>1. AT!TimerAssumption
    BY ServicesAssumption DEF AT!TimerAssumption, AT!VariantsAssumption, DT!VariantsAssumption,
       AT!PeriodsAssumption, DT!PeriodsAssumption, AT!BoundAssumption, DT!BoundAssumption,
       AT!nilAssumption, DT!nilAssumption, AT!Node, DT!Node, AT!Timers, DT!Timers
  <1>2. AT!Spec => AT!RemovedDoNotFire
    BY <1>1, AT!RemovedCorrect
  <1> DEFINE A == variant = "inline" => \A m \in removed : fired'[m] = fired[m]
  <1>3. [A]_(AT!vars) => [A]_(DT!vars)
    <2>1. DT!vars = AT!vars /\ (DT!vars = AT!vars)'
      BY DEF DT!vars, AT!vars
    <2> QED
      BY <2>1
  <1> QED
    BY <1>2, <1>3, Parts, PTL DEF RemovedDoNotFire, DT!RemovedDoNotFire, AT!RemovedDoNotFire
=============================================================================
