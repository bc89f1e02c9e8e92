------------------------------ MODULE Natives ------------------------------
(***************************************************************************)
(* Two C libraries that share no state, each alone: cjson (MCCjson, which  *)
(* this module extends), and libfaketime, of which FakeTime has the clocks,*)
(* FakeSleep the waits, and Uthash the table of what waits.  library says  *)
(* which of these a behaviour is about; the others stay as they begin.     *)
(***************************************************************************)
EXTENDS MCCjson

CONSTANTS p1, p2, cond

VARIABLES
  library,
  env, ftNow, rc, mtime, outfile, shm, proc, touched,
  fsNow, q, dont_fake, wait_ms, wait, timer, alarmed, live, monotonic_conds, told,
  hash, dst

EV == INSTANCE MCEnvironments WITH Epoch <- 10
FT == INSTANCE FakeTime WITH
        Procs <- {p1, p2}, Epoch <- 10, Envs <- EV!MCEnvs, now <- ftNow,
        MaxNow <- 3, MaxTicks <- 3, MaxMem <- 2, MaxCalls <- 3, MaxTime <- 40
FS == INSTANCE FakeSleep WITH
        Epoch <- 10, Settings <- EV!MCSettings, Requests <- {1, 3}, Conds <- {cond}, Sec <- 2,
        WaitMs <- EV!MCWaitMs, MaxNow <- 4, MaxExpired <- 2, now <- fsNow

(* Elements 1 and 4 have one key; the hashes fall into two buckets however *)
(* often the buckets double, which stops the doubling.                     *)
UT == INSTANCE Uthash WITH
        N <- 6, key <- <<1, 2, 3, 1, 4, 5>>, hashv <- <<0, 1, 0, 0, 1, 1>>,
        rank <- <<2, 1, 2, 3, 1, 2>>, Chosen <- {1, 3, 4},
        HASH_INITIAL_NUM_BUCKETS <- 2, HASH_BKT_CAPACITY_THRESH <- 3,
        MaxBuckets <- 8, MaxItems <- 5, MaxReordered <- 3, head <- hash

ftVars == <<env, ftNow, rc, mtime, outfile, shm, proc, touched>>
fsVars == <<fsNow, q, dont_fake, wait_ms, wait, timer, alarmed, live, monotonic_conds, told>>
utVars == <<hash, dst>>
ntVars == <<library, vars, ftVars, fsVars, utVars>>

NTInit ==
  /\ library \in {"cjson", "clocks", "waits", "hash"}
  /\ Init /\ FT!Init /\ FS!Init /\ UT!Init
  /\ library = "clocks" \/ env = EV!Counted
  /\ library = "waits" \/ (~dont_fake /\ wait_ms = EV!Never /\ ~q.user_rate_set)

Json == library = "cjson" /\ Next /\ UNCHANGED <<library, ftVars, fsVars, utVars>>
Clocks == library = "clocks" /\ FT!Next /\ UNCHANGED <<library, vars, fsVars, utVars>>
Waits == library = "waits" /\ FS!Next /\ UNCHANGED <<library, vars, ftVars, utVars>>
Hashed == library = "hash" /\ UT!Next /\ UNCHANGED <<library, vars, ftVars, fsVars>>

NTSpec == NTInit /\ [][Json \/ Clocks \/ Waits \/ Hashed]_ntVars

-----------------------------------------------------------------------------
(* What is said of each of them in its module.                             *)
ClocksAgree == library = "clocks" => FT!ClocksAgree
TimeNeverGoesBack == FT!TimeNeverGoesBack
RestIsRight == library = "waits" => FS!RestIsRight
WaitsEndOnTime == FS!WaitsEndOnTime
FindsEveryElement == library = "hash" => UT!FindsEveryElement
ImplementsOrderedMap == UT!ImplementsOrderedMap
=============================================================================
