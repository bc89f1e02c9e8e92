------------------------------ MODULE HLogger ------------------------------
(***************************************************************************)
(* depends/hlogger/hlogger.c, the logger service.  It writes each message  *)
(* to the files of its levels, begins new files when the day changes or a  *)
(* file is full, and makes the directory again when that is gone.  A file  *)
(* is named for its level and the second it is opened in.                  *)
(*                                                                         *)
(* loggers[level].file is <<second>> while a file is open, and <<>> when   *)
(* it is NULL or stdout.  A callback is one action; in it, the clock may   *)
(* move on between the time of the message and the name of the file, and   *)
(* calls of the system may fail.                                           *)
(***************************************************************************)
EXTENDS Naturals, Sequences, FiniteSets

CONSTANTS
  fsize,            \* bytes after which a file is full
  Sizes,            \* sizes of messages
  SecondsOfDay,
  MaxMsgs, MaxClock, MaxFaults   \* bounds: messages, seconds, and calls that fail or
                                 \* directories that vanish

LoggerAssumption ==
  SecondsOfDay \in Nat \ {0} /\ fsize \in Nat /\ Sizes \subseteq Nat /\ MaxClock \in Nat

VARIABLES
  inst,      \* HappyLogger: mday and loggers
  disk,      \* the files in the directory and their lines
  dir,       \* whether there is the directory
  clock, msgs, faults,
  written    \* history: what went to a file of the directory, by level
vars == <<inst, disk, dir, clock, msgs, faults, written>>

Levels == {"ERROR", "WARN", "INFO"}
Types == {"TEXT", "DEBUG"} \cup Levels
mday(second) == second \div SecondsOfDay

(* hlogger_init makes the directory; the files are opened when needed.     *)
Init ==
  /\ inst = [mday |-> mday(0), loggers |-> [l \in Levels |-> [file |-> <<>>, fwrited |-> 0]]]
  /\ disk = [f \in {} |-> <<>>] /\ dir = TRUE
  /\ clock = 0 /\ msgs = 0 /\ faults = 0 /\ written = [l \in Levels |-> <<>>]

-----------------------------------------------------------------------------
(* What a callback works on: the logger, the files and the directory.      *)
Here == [inst |-> inst, disk |-> disk, dir |-> dir, written |-> written, ok |-> TRUE]

closeFile(s, level) == [s EXCEPT !.inst.loggers[level].file = <<>>]
closeAllFiles(s) ==
  [s EXCEPT !.inst.loggers = [l \in Levels |-> [@[l] EXCEPT !.file = <<>>]]]

throwErrorItem(s, level) == [closeFile(s, level) EXCEPT !.ok = FALSE]
throwError(s) == [closeAllFiles(s) EXCEPT !.ok = FALSE]

newDir(s, bad) == IF "mkdir" \in bad THEN throwError(s) ELSE [s EXCEPT !.dir = TRUE]

(* Mutant: what the file holds already is cut off.                         *)
OpenEmpty(s, level, second) ==
  [s EXCEPT !.inst.loggers[level] = [file |-> <<second>>, fwrited |-> 0],
            !.disk = [f \in DOMAIN @ \cup {<<level, second>>} |->
                        IF f # <<level, second>> THEN @[f] ELSE <<>>]]

(* A file that is there already, opened in the same second, is appended    *)
(* to, and counted from 0.                                                 *)
Open(s, level, second) ==
  [s EXCEPT !.inst.loggers[level] = [file |-> <<second>>, fwrited |-> 0],
            !.disk = [f \in DOMAIN @ \cup {<<level, second>>} |->
                        IF f \in DOMAIN @ THEN @[f] ELSE <<>>]]

createLoggerFile(s, level, second, bad) ==
  IF "open" \in bad THEN throwErrorItem(s, level)
  ELSE IF s.dir THEN Open(s, level, second)
  ELSE LET made == newDir(s, bad) IN IF made.ok THEN Open(made, level, second) ELSE made

rollFile(s, level, second, bad) == createLoggerFile(closeFile(s, level), level, second, bad)

AppendTo(files, file, line) == [files EXCEPT ![file] = Append(@, line)]

(* A line is written in three pieces; when one fails the line is torn, and *)
(* the file is closed.  A file that is no longer in the directory takes    *)
(* lines, too.                                                             *)
Write(s, level, line, bad) ==
  LET file == <<level, s.inst.loggers[level].file[1]>>
      whole == "write" \notin bad
      onDisk == file \in DOMAIN s.disk
      after == [s EXCEPT !.disk = IF onDisk THEN AppendTo(@, file, [line EXCEPT !.whole = whole]) ELSE @,
                         !.inst.loggers[level].fwrited = @ + line.size,
                         !.written[level] = IF onDisk /\ whole THEN Append(@, line) ELSE @] IN
  IF whole THEN after ELSE throwErrorItem(after, level)

(* A message that finds no file is dropped.                                *)
logger_output(s, level, line, second, bad) ==
  LET ready == [s EXCEPT !.ok = TRUE]
      open == IF ready.inst.loggers[level].file = <<>>
              THEN createLoggerFile(ready, level, second, bad) ELSE ready
      room == IF open.ok /\ open.inst.loggers[level].fwrited > fsize
              THEN rollFile(open, level, second, bad) ELSE open IN
  IF room.ok THEN Write(room, level, line, bad) ELSE room

-----------------------------------------------------------------------------
(* Mutant: yesterday's files stay open.                                    *)
NewDayMissed(s) == s

(* The first message of another day closes all files.                      *)
NewDay(s) == IF s.inst.mday = mday(clock) THEN s
             ELSE [closeAllFiles(s) EXCEPT !.inst.mday = mday(clock)]

(* Errors and warnings go to their own files first, and everything goes to *)
(* the file for information.                                               *)
OwnFile(s, type, line, second, bad) ==
  IF type \in {"ERROR", "WARN"} THEN logger_output(s, type, line, second, bad) ELSE s

hlogger_cb(type, size, second, bad) ==
  LET line == [id |-> msgs + 1, time |-> clock, size |-> size, whole |-> TRUE]
      after == logger_output(OwnFile(NewDay(Here), type, line, second, bad), "INFO", line, second, bad) IN
  /\ msgs < MaxMsgs /\ msgs' = msgs + 1
  /\ faults' = faults + Cardinality(bad) /\ faults' <= MaxFaults
  /\ inst' = after.inst /\ disk' = after.disk /\ dir' = after.dir /\ written' = after.written
  /\ clock' = second

Tick == clock < MaxClock /\ clock' = clock + 1 /\ UNCHANGED <<inst, disk, dir, msgs, faults, written>>

(* Somebody removes the directory with the files in it.                    *)
RemoveDir ==
  /\ dir /\ faults < MaxFaults /\ faults' = faults + 1
  /\ dir' = FALSE /\ disk' = [f \in {} |-> <<>>] /\ written' = [l \in Levels |-> <<>>]
  /\ UNCHANGED <<inst, clock, msgs>>

Next ==
  \/ \E type \in Types, size \in Sizes, second \in clock..MaxClock, bad \in SUBSET {"open", "mkdir", "write"} :
       second <= clock + 1 /\ hlogger_cb(type, size, second, bad)
  \/ Tick \/ RemoveDir

Spec == Init /\ [][Next]_vars

-----------------------------------------------------------------------------
(* The whole lines of a level: the second their file is named for, and     *)
(* their place in it.                                                      *)
Kept(level) ==
  UNION {{<<f[2], i>> : i \in {i \in DOMAIN disk[f] : disk[f][i].whole}} :
           f \in {f \in DOMAIN disk : f[1] = level}}
UpToLine(lines, p) == {q \in lines : q[1] < p[1] \/ (q[1] = p[1] /\ q[2] <= p[2])}

(* The files of a level, one after the other as they are named, hold what  *)
(* was written to it, in order and whole, whatever failed and was opened   *)
(* again in between: the whole line that is the n-th is the n-th written.  *)
EveryMessageIsKept ==
  \A level \in Levels :
    /\ Len(written[level]) = Cardinality(Kept(level))
    /\ \A p \in Kept(level) :
         written[level][Cardinality(UpToLine(Kept(level), p))] = disk[<<level, p[1]>>][p[2]]

(* No message goes to a file of a day that was over.                       *)
DayIsRight ==
  \A f \in DOMAIN disk : \A i \in DOMAIN disk[f] : mday(disk[f][i].time) <= mday(f[2])

(* Both: every message is somewhere, and where it belongs.                 *)
LogIsRight == EveryMessageIsKept /\ DayIsRight
=============================================================================
