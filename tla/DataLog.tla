------------------------------ MODULE DataLog -------------------------------
(***************************************************************************)
(* service/dataCenterLog/dataLogInst.lua: the data logs of a service, a    *)
(* file for each kind of log (synType) and period of time.  Each of the    *)
(* two services that use it writes logs of one name (preName), so that a   *)
(* file is named by its kind and period.                                   *)
(*                                                                         *)
(* The names come from os.date, which follows the clock of the machine,    *)
(* and that can be set back; the ids from skynet.time, which only goes     *)
(* forward.  Whether the directory of a kind is there, or can be made, is  *)
(* left open.  A write to a closed file, and closing it again, raise an    *)
(* error.  What is written is flushed and taken to be on disk.             *)
(***************************************************************************)
EXTENDS Naturals, Sequences, SequencesExt

CONSTANTS
  Kinds,                        \* the values of synType
  nil,
  MaxPeriod, MaxTime, MaxLines  \* bounds: of either clock, the messages

TimeAssumption == MaxPeriod \in Nat \ {0} /\ {MaxTime, MaxLines} \subseteq Nat

Periods == 1..MaxPeriod
FileNames == Kinds \X Periods

nilAssumption == nil \notin FileNames /\ nil \notin {"open", "closed"}

VARIABLES
  period, second,    \* what the two clocks say
  file_map,          \* the file objects by name: "open", "closed", or nil
  module_map,        \* for each kind, the name of the last file opened, or nil
  lastTime, index,   \* of getAiid
  disk,              \* the ids written to each file
  taken,             \* history: the ids of the messages that came to their write
  spoilt             \* history: the clock was set back, or close ended with an error
clocks == <<period, second>>
ids == <<lastTime, index>>
vars == <<clocks, file_map, module_map, ids, disk, taken, spoilt>>

Init ==
  /\ period = 1 /\ second = 1
  /\ file_map = [f \in FileNames |-> nil] /\ module_map = [k \in Kinds |-> nil]
  /\ lastTime = nil /\ index = 0
  /\ disk = [f \in FileNames |-> <<>>] /\ taken = <<>> /\ spoilt = FALSE

(* Mutant: the next id does not look at the last time.                     *)
getAiidAnew == lastTime' = second /\ index' = 1

(* The number of a message among those of its second.                      *)
getAiid ==
  /\ lastTime' = second
  /\ index' = IF lastTime = second THEN index + 1 ELSE 1

Id == <<lastTime', index'>>

(* The file of a kind that was opened last was closed before its time.     *)
OldIsClosed(k) == module_map[k] # nil /\ file_map[module_map[k]] = "closed"

(* Mutant: the file of the last period stays open.                         *)
OpenForgetsOld(k, file) ==
  /\ file_map' = [file_map EXCEPT ![<<k, period>>] = file]
  /\ module_map' = [module_map EXCEPT ![k] = IF file = nil THEN nil ELSE <<k, period>>]

(* queryFile and check_close_oldfile: there is a file object, or nil, for  *)
(* the name; the old file of the kind is closed, whichever it is.          *)
Open(k, file) ==
  /\ file_map' = [f \in FileNames |-> IF f = <<k, period>> THEN file
                                      ELSE IF f = module_map[k] THEN "closed" ELSE file_map[f]]
  /\ module_map' = [module_map EXCEPT ![k] = IF file = nil THEN nil ELSE <<k, period>>]

(* The message is encoded, unless that fails, and written.                 *)
Write(f) ==
  \/ UNCHANGED <<disk, taken>>
  \/ /\ taken' = Append(taken, Id)
     /\ disk' = IF file_map'[f] = "open" THEN [disk EXCEPT ![f] = Append(@, Id)] ELSE disk

(* writeFile, when there is a file of this name.                           *)
writeFile(k) ==
  /\ file_map[<<k, period>>] # nil /\ Len(taken) < MaxLines /\ index < MaxLines
  /\ getAiid /\ UNCHANGED <<clocks, file_map, module_map, spoilt>>
  /\ Write(<<k, period>>)

(* writeFile, when there is none: it is opened, at the second attempt      *)
(* perhaps, when the directory was made again, or not at all.              *)
writeNewFile(k) ==
  /\ file_map[<<k, period>>] = nil /\ ~OldIsClosed(k)
  /\ Len(taken) < MaxLines /\ index < MaxLines /\ getAiid
  /\ \/ Open(k, "open") /\ Write(<<k, period>>)
     \/ Open(k, nil) /\ UNCHANGED <<disk, taken>>
  /\ UNCHANGED <<clocks, spoilt>>

(* The old file cannot be closed again: writeFile ends with an error.      *)
writeFails(k) ==
  /\ file_map[<<k, period>>] = nil /\ OldIsClosed(k) /\ index < MaxLines
  /\ getAiid
  /\ \E file \in {"open", nil} : file_map' = [file_map EXCEPT ![<<k, period>>] = file]
  /\ UNCHANGED <<clocks, module_map, disk, taken, spoilt>>

OpenFiles == {f \in FileNames : file_map[f] = "open"}
ClosedFiles == {f \in FileNames : file_map[f] = "closed"}

close ==
  /\ ClosedFiles = {}
  /\ file_map' = [f \in FileNames |-> nil] /\ module_map' = [k \in Kinds |-> nil]
  /\ UNCHANGED <<clocks, ids, disk, taken, spoilt>>

(* close, when a file is closed already: it ends with an error there.      *)
closeFails ==
  /\ ClosedFiles # {}
  /\ \E S \in SUBSET OpenFiles :
       file_map' = [f \in FileNames |-> IF f \in S THEN "closed" ELSE file_map[f]]
  /\ spoilt' = TRUE
  /\ UNCHANGED <<clocks, module_map, ids, disk, taken>>

Tick ==
  /\ second < MaxTime /\ second' = second + 1
  /\ UNCHANGED <<period, file_map, module_map, ids, disk, taken, spoilt>>

NextPeriod ==
  /\ \E p \in Periods \ {period} : period' = p /\ spoilt' = (spoilt \/ p < period)
  /\ UNCHANGED <<second, file_map, module_map, ids, disk, taken>>

Next ==
  \/ \E k \in Kinds : writeFile(k) \/ writeNewFile(k) \/ writeFails(k)
  \/ close \/ closeFails \/ Tick \/ NextPeriod

Spec == Init /\ [][Next]_vars

-----------------------------------------------------------------------------
(* No two messages have one id, whatever the clock of the machine does and *)
(* whether they are written or not.                                        *)
IdsAreUnique == IsInjective(taken)

(* Until the clock is set back, or close meets a file of an earlier period *)
(* and gives up, no message is written to a closed file: each is in one    *)
(* file, once; and at most one file of a kind is open, the last one.       *)
NoWriteIsLost ==
  ~spoilt =>
    /\ ToSet(taken) = UNION {ToSet(disk[f]) : f \in FileNames}
    /\ \A k \in Kinds : {f \in OpenFiles : f[1] = k} = {module_map[k]} \ {nil}

(* Both.                                                                   *)
LinesAreRight == IdsAreUnique /\ NoWriteIsLost
=============================================================================
