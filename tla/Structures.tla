----------------------------- MODULE Structures -----------------------------
(***************************************************************************)
(* What C libraries keep for their callers, each alone: the skip list      *)
(* (SkipList, which this module extends), the files of the logger, and the *)
(* timing wheel.  structure says which one a behaviour is about; the       *)
(* others stay as they begin.                                              *)
(***************************************************************************)
EXTENDS SkipList

CONSTANTS
  fsize, Sizes, SecondsOfDay, MaxMsgs, MaxClock, MaxFaults,    \* of HLogger
  TIME_NEAR, TIME_LEVEL, LEVELS, Handles, Delays, MaxDiff      \* of TimingWheel

VARIABLES
  structure,
  inst, disk, dir, clock, msgs, faults, written,          \* of HLogger
  near, far, ticked, diff, dispatching, shifted           \* of TimingWheel

(* Three objects of one score, two of them of one time, and a name that    *)
(* comes at one time with two scores.                                      *)
Scores == <<1, 1, 1, 2>>
Timestamps == <<1, 2, 1, 1>>
Names == <<1, 2, 3, 1>>

HL == INSTANCE HLogger
TW == INSTANCE TimingWheel WITH t <- far, time <- ticked

ASSUME StructuresAssumption == ListAssumption /\ HL!LoggerAssumption /\ TW!WheelAssumption

hlVars == <<inst, disk, dir, clock, msgs, faults, written>>
twVars == <<near, far, ticked, diff, dispatching, shifted>>
stVars == <<structure, vars, hlVars, twVars>>

STInit ==
  /\ structure \in {"list", "logger", "timer"}
  /\ Init /\ HL!Init /\ TW!Init

InList == structure = "list" /\ Next /\ UNCHANGED <<structure, hlVars, twVars>>
InLogger == structure = "logger" /\ HL!Next /\ UNCHANGED <<structure, vars, twVars>>
InTimer == structure = "timer" /\ TW!Next /\ UNCHANGED <<structure, vars, hlVars>>

STSpec == STInit /\ [][InList \/ InLogger \/ InTimer]_stVars

-----------------------------------------------------------------------------
(* What is said of each of them in its module; of the skip list it is said *)
(* of every state.                                                         *)
LogIsRight == structure = "logger" => HL!LogIsRight
FiresOnTime == TW!FiresOnTime
=============================================================================
