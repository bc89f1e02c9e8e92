------------------------------- MODULE Tables -------------------------------
(***************************************************************************)
(* Five parts that keep a table between calls, each alone: the LRU cache   *)
(* (LRUCache, which this module extends; its keys are interchangeable),    *)
(* the linked queue, the lists of records, the files of the data logs, and *)
(* the timer of a value.  table says which one a behaviour is about; the   *)
(* others stay as they begin.                                              *)
(***************************************************************************)
EXTENDS LRUCache, TLC

CONSTANTS
  Objs, MaxPushes,                           \* of the queue
  Uids, Callers, limit, FirstId, MaxId,      \* of the lists
  Kinds, MaxPeriod, dlMaxTime, MaxLines,     \* of the logs
  cd, endTime, avMaxTime, MaxTimers          \* of the value

VARIABLES
  table,
  head, last, size, obj, next, pushed, returned,
  uidMap, autoId, _relaseTag, lock_tb, rlCalls, db, added, crossed,
  period, second, file_map, module_map, lastTime, index, disk, written, dlSpoilt,
  variant, avNow, auto, nodeList, set, armed, rank, running, forked, born, fired, removed,
  timerIndex, nextTime, values, started, avSpoilt

LQ == INSTANCE LQueue WITH None <- nil, MaxNodes <- MaxPushes
RL == INSTANCE RecordList WITH calls <- rlCalls
DL == INSTANCE DataLog WITH MaxTime <- dlMaxTime, taken <- written, spoilt <- dlSpoilt
AV == INSTANCE AutoValue WITH
        MaxTime <- avMaxTime, now <- avNow, added <- values, spoilt <- avSpoilt

ASSUME TablesAssumption ==
  /\ LQ!NodesAssumption
  /\ RL!LimitAssumption /\ RL!IdAssumption /\ RL!nilAssumption
  /\ DL!TimeAssumption /\ DL!nilAssumption
  /\ AV!PeriodAssumption /\ AV!nilAssumption
  /\ AV!DT!BoundAssumption /\ AV!DT!PeriodsAssumption /\ AV!DT!nilAssumption

Symmetry == Permutations(Keys)

lqVars == <<head, last, size, obj, next, pushed, returned>>
rlVars == <<uidMap, autoId, _relaseTag, lock_tb, rlCalls, db, added, crossed>>
dlVars == <<period, second, file_map, module_map, lastTime, index, disk, written, dlSpoilt>>
avVars == <<variant, avNow, auto, nodeList, set, armed, rank, running, forked, born, fired, removed,
            timerIndex, nextTime, values, started, avSpoilt>>
tbVars == <<table, vars, lqVars, rlVars, dlVars, avVars>>

TBInit ==
  /\ table \in {"entries", "queue", "records", "logs", "value"}
  /\ Init /\ LQ!Init /\ RL!Init /\ DL!Init /\ AV!Init
  /\ table = "entries" \/ maxSize = CHOOSE m \in Sizes : TRUE
  /\ table = "records" \/ db[CHOOSE u \in Uids : TRUE] = 1..FirstId

Entries == table = "entries" /\ Next /\ UNCHANGED <<table, lqVars, rlVars, dlVars, avVars>>
Queue == table = "queue" /\ LQ!Next /\ UNCHANGED <<table, vars, rlVars, dlVars, avVars>>
Records == table = "records" /\ RL!Next /\ UNCHANGED <<table, vars, lqVars, dlVars, avVars>>
Logs == table = "logs" /\ DL!Next /\ UNCHANGED <<table, vars, lqVars, rlVars, avVars>>
Value == table = "value" /\ AV!Next /\ UNCHANGED <<table, vars, lqVars, rlVars, dlVars>>

TBSpec == TBInit /\ [][Entries \/ Queue \/ Records \/ Logs \/ Value]_tbVars

-----------------------------------------------------------------------------
(* What is said of each of them in its module.                             *)
ChainIsSound == table = "queue" => LQ!ChainIsSound
ImplementsFIFO == LQ!ImplementsFIFO
RecordsAreRight == table = "records" => RL!RecordsAreRight
LinesAreRight == table = "logs" => DL!LinesAreRight
ValuesComeOnTime == table = "value" => AV!ValuesComeOnTime
=============================================================================
