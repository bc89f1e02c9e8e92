------------------------------ MODULE FakeTime ------------------------------
(***************************************************************************)
(* depends/libfaketime/src/libfaketime.c: the processes whose clock the    *)
(* library fakes.  They read the clock, set it, look at and set the times  *)
(* of a file; the setting is in their environment or in a file that may    *)
(* change and is looked at again when a cache has expired.  A process and  *)
(* its children share a memory, guarded by a semaphore: the number of      *)
(* calls where every call moves the clock on, the place in a file of       *)
(* timestamps that are replayed, and the time the first of them started.   *)
(*                                                                         *)
(* A read of the clock is as many steps as it takes the semaphore, and one *)
(* before; the real time goes on between them.                             *)
(***************************************************************************)
EXTENDS FakeClock, FiniteSets, SequencesExt

CONSTANTS
  Procs,
  Envs,        \* the environments to look at, one in a behaviour
  MaxNow, MaxTicks, MaxMem, MaxCalls, MaxTime     \* bounds

VARIABLES
  env,         \* the environment variables, but for FAKETIME and FAKETIME_SHARED
  now,         \* the real time, as CLOCK_MONOTONIC counts it
  rc,          \* what is in the file the setting is in
  mtime,       \* the time of a file
  outfile,     \* the timestamps saved
  shm,         \* the shared memories that were ever made
  proc,        \* what each process knows
  touched      \* the time last set on the file, and under which setting
vars == <<env, now, rc, mtime, outfile, shm, proc, touched>>

Empty == [NoSetting EXCEPT !.kind = "empty"]
NotSet == [value |-> Never, at |-> Never]

real == now + Epoch

Down ==
  [up |-> FALSE, skip |-> FALSE, clock |-> NewClock(NoTimes), last_data_fetch |-> 0,
   force_cache_expiration |-> FALSE, parse_config_file |-> TRUE, FAKETIME |-> NoSetting,
   line |-> NoSetting, infile_set |-> FALSE, callcounter |-> 0, mem |-> 0, shmCreator |-> FALSE,
   pc |-> "idle", clk |-> "real", tp |-> Never, tp_save |-> Never, adjust |-> <<>>,
   seen |-> NoTimes, mine |-> NotSet]

Init ==
  /\ env \in Envs /\ now = 1 /\ mtime = Epoch
  /\ rc \in env.files
  /\ outfile = <<>> /\ shm = <<>> /\ proc = [p \in Procs |-> Down]
  /\ touched = [value |-> Never, setting |-> NoSetting]

Idle(p) == proc[p].up /\ proc[p].pc = "idle"
Become(p, q) == proc' = [proc EXCEPT ![p] = q]

-----------------------------------------------------------------------------
(* A file without a line leaves the line read before.                      *)
read_config_file(q) ==
  LET line == IF rc = Empty THEN q.line ELSE rc IN
  IF rc = NoFile THEN q
  ELSE [q EXCEPT !.line = line, !.clock = parse_ft_string(@, line, now, mtime, env)]

Expired(q) ==
  \/ q.last_data_fetch = 0 \/ real - q.last_data_fetch > env.cache_duration
  \/ env.no_cache \/ q.force_cache_expiration

(* What was reported no longer counts after another setting, unless it is  *)
(* another rate and FAKETIME_XRESET.                                       *)
Refresh(q) ==
  LET setting == IF q.FAKETIME = NoSetting THEN PlusZero ELSE q.FAKETIME
      parsed == IF q.parse_config_file /\ rc # NoFile THEN read_config_file(q)
                ELSE [q EXCEPT !.clock = parse_ft_string(@, setting, now, mtime, env)]
      other == parsed.clock.user_faked_time_saved # q.clock.user_faked_time_saved
      smooth == env.xreset /\ parsed.clock.user_faked_time_saved.x # <<>> IN
  IF ~Expired(q) THEN q
  ELSE [parsed EXCEPT !.last_data_fetch = real, !.force_cache_expiration = FALSE,
                      !.seen = IF other THEN [@ EXCEPT !.mon = Never, !.real = IF smooth THEN @ ELSE Never]
                               ELSE @]

-----------------------------------------------------------------------------
(* A process gets the memory its parent named in FAKETIME_SHARED, or makes *)
(* one when there is none or the one named is gone.  Without semaphores it *)
(* has none.                                                               *)
ft_shm_init(parent) ==
  LET named == IF parent \in Procs THEN proc[parent].mem ELSE 0 IN
  IF ~env.shm THEN 0
  ELSE IF named # 0 /\ shm[named].linked THEN named
  ELSE Len(shm) + 1

ft_shm_create == [ticks |-> 0, file_idx |-> 0, start_time |-> NoTimes, linked |-> TRUE,
                  handed |-> 0, given |-> {}]

(* A bug: each process starts the clock anew.                              *)
ft_shm_start_anew(shared, mem) == system_time_from_system(now)

(* The first process of a memory starts the clock, the others take its.    *)
ft_shm_start(shared, mem) ==
  IF mem # 0 /\ shared[mem].start_time # NoTimes THEN shared[mem].start_time
  ELSE system_time_from_system(now)

ftpl_init(p, parent, skip) ==
  LET mem == ft_shm_init(parent)
      shared == IF mem > Len(shm) THEN Append(shm, ft_shm_create) ELSE shm
      start == ft_shm_start(shared, mem)
      FAKETIME == IF parent \in Procs THEN proc[parent].FAKETIME ELSE env.FAKETIME
      q == [Down EXCEPT !.up = TRUE, !.skip = skip, !.mem = mem, !.shmCreator = mem > Len(shm),
                        !.infile_set = env.load # <<>>, !.FAKETIME = FAKETIME,
                        !.parse_config_file = FAKETIME = NoSetting,
                        !.clock = [NewClock(start) EXCEPT !.ft_mode = IF skip THEN "NOOP" ELSE @]] IN
  /\ ~proc[p].up /\ (env.alone => \A o \in Procs : ~proc[o].up)
  /\ IF parent \in Procs THEN env.children /\ Idle(parent) ELSE TRUE
  /\ mem <= MaxMem
  /\ shm' = IF mem = 0 THEN shm ELSE [shared EXCEPT ![mem].start_time = start]
  /\ Become(p, IF FAKETIME = NoSetting THEN read_config_file(q)
               ELSE [q EXCEPT !.clock = parse_ft_string(@, FAKETIME, now, mtime, env)])
  /\ UNCHANGED <<env, now, rc, mtime, outfile, touched>>

(* FAKETIME_SKIP_CMDS and FAKETIME_ONLY_CMDS name the programs that are    *)
(* not faked.                                                              *)
Skips == env.skips

(* The process that made a memory removes its name when it ends; others    *)
(* may still have it.                                                      *)
ft_cleanup(p) ==
  /\ Idle(p)
  /\ shm' = IF proc[p].shmCreator THEN [shm EXCEPT ![proc[p].mem].linked = FALSE] ELSE shm
  /\ env.ends
  /\ Become(p, Down)
  /\ UNCHANGED <<env, now, rc, mtime, outfile, touched>>

-----------------------------------------------------------------------------
(* adjtime goes on with the time it has read.                              *)
Report(q) ==
  [q EXCEPT !.pc = IF q.adjust # <<>> THEN "adjust" ELSE "idle", !.seen[q.clk] = q.tp,
            !.clk = "real", !.tp = Never, !.tp_save = Never]

Remember(q) ==
  Report([q EXCEPT !.clock.ftpl_timecache[q.clk] = q.tp_save, !.clock.ftpl_faketimecache[q.clk] = q.tp])

Save(q) == IF env.save /\ q.mem # 0 THEN [q EXCEPT !.pc = "save"] ELSE Remember(q)

(* Where every call moves the clock on, and nothing is shared, the time    *)
(* stays the real one.                                                     *)
Fake(q) ==
  LET counts == q.clock.ft_mode = "START_AT" /\ q.clock.user_per_tick_inc_set IN
  IF counts /\ q.mem # 0 THEN [q EXCEPT !.pc = "tick"]
  ELSE Save([q EXCEPT !.tp = IF counts THEN @ ELSE Faked(q.clock, q.clk, @)])

Limited == {env.start_after_secs, env.stop_after_secs, env.start_after_ncalls, env.stop_after_ncalls} # {-1}

(* FAKETIME_START_AFTER_... and FAKETIME_STOP_AFTER_...                    *)
OutsideLimits(q, clk, tp) ==
  LET secs == tp - q.clock.ftpl_starttime[clk] IN
  Limited /\ \/ env.start_after_secs # -1 /\ secs < env.start_after_secs
             \/ env.stop_after_secs # -1 /\ secs >= env.stop_after_secs
             \/ env.start_after_ncalls # -1 /\ q.callcounter < env.start_after_ncalls
             \/ env.stop_after_ncalls # -1 /\ q.callcounter >= env.stop_after_ncalls

fake_clock_gettime(p, clk, adjust) ==
  LET tp == system_time_from_system(now)[clk]
      counts == env.start_after_ncalls # -1 \/ env.stop_after_ncalls # -1
      called == [proc[p] EXCEPT !.clk = clk, !.tp = tp, !.tp_save = tp, !.adjust = adjust,
                                !.callcounter = IF counts /\ ~proc[p].skip THEN @ + 1 ELSE @]
      fresh == Refresh(called) IN
  /\ Idle(p)
  /\ called.callcounter <= MaxCalls
  /\ Become(p, IF called.skip \/ OutsideLimits(called, clk, tp) THEN Report(called)
               ELSE IF fresh.infile_set /\ fresh.mem # 0 THEN [fresh EXCEPT !.pc = "load"]
               ELSE Fake(fresh))
  /\ UNCHANGED <<env, now, rc, mtime, outfile, shm, touched>>

time(p) == fake_clock_gettime(p, "real", <<>>)
ftime(p) == fake_clock_gettime(p, "real", <<>>)
gettimeofday(p) == fake_clock_gettime(p, "real", <<>>)

(* FAKETIME_DONT_FAKE_MONOTONIC.                                           *)
clock_gettime(p, clk) ==
  /\ env.fake_monotonic_clock \/ clk = "real"
  /\ fake_clock_gettime(p, clk, <<>>)

(* The next timestamp of the file; behind the last one the clock goes on   *)
(* from it, and the first process to come there starts it.                 *)
load_time(p) ==
  LET q == proc[p]
      m == shm[q.mem]
      first == m.ticks = 0
      start == IF first THEN system_time_from_system(now) ELSE m.start_time
      tp == env.load[m.file_idx + 1] IN
  /\ q.pc = "load"
  /\ IF m.file_idx + 1 > Len(env.load)
     THEN /\ shm' = IF first THEN [shm EXCEPT ![q.mem].ticks = 1, ![q.mem].start_time = start] ELSE shm
          /\ Become(p, Fake([q EXCEPT !.clock.user_faked_time = Last(env.load),
                                      !.clock.ftpl_starttime = start, !.infile_set = FALSE]))
     ELSE /\ shm' = [shm EXCEPT ![q.mem].file_idx = @ + 1, ![q.mem].handed = @ + 1,
                                ![q.mem].given = @ \cup {tp}]
          /\ Become(p, Report([q EXCEPT !.tp = tp]))
  /\ UNCHANGED <<env, now, rc, mtime, outfile, touched>>

(* A bug: the count is read and written back without the semaphore.        *)
next_time_unguarded(p) ==
  LET q == proc[p]
      tp == q.clock.user_faked_time + timespecmul(q.clock.user_per_tick_inc, <<shm[q.mem].ticks, 1>>)
      raced == \E o \in Procs \ {p} : proc[o].pc = "tick" /\ proc[o].mem = q.mem IN
  /\ q.pc = "tick" /\ shm[q.mem].ticks < MaxTicks
  /\ shm' = [shm EXCEPT ![q.mem].ticks = IF raced THEN @ ELSE @ + 1, ![q.mem].handed = @ + 1,
                         ![q.mem].given = @ \cup {tp}]
  /\ Become(p, Save([q EXCEPT !.tp = tp]))
  /\ UNCHANGED <<env, now, rc, mtime, outfile, touched>>

next_time(p) ==
  LET q == proc[p]
      tp == q.clock.user_faked_time + timespecmul(q.clock.user_per_tick_inc, <<shm[q.mem].ticks, 1>>) IN
  /\ q.pc = "tick" /\ shm[q.mem].ticks < MaxTicks
  /\ shm' = [shm EXCEPT ![q.mem].ticks = @ + 1, ![q.mem].handed = @ + 1, ![q.mem].given = @ \cup {tp}]
  /\ Become(p, Save([q EXCEPT !.tp = tp]))
  /\ UNCHANGED <<env, now, rc, mtime, outfile, touched>>

save_time(p) ==
  /\ proc[p].pc = "save"
  /\ outfile' = Append(outfile, proc[p].tp)
  /\ Become(p, Remember(proc[p]))
  /\ UNCHANGED <<env, now, rc, mtime, shm, touched>>

-----------------------------------------------------------------------------
(* A bug: the cached setting stays in use.                                 *)
SetTimeLater(p, value) ==
  LET offset == [PlusZero EXCEPT !.at = value - real]
      q == [proc[p] EXCEPT !.FAKETIME = offset, !.parse_config_file = FALSE, !.adjust = <<>>,
                           !.mine = [value |-> value, at |-> real],
                           !.pc = IF env.update THEN "write" ELSE "idle"] IN
  /\ Become(p, q)
  /\ rc' = IF env.update THEN Empty ELSE rc
  /\ UNCHANGED <<env, now, mtime, outfile, shm, touched>>

(* The time becomes an offset in the process's own environment, and in the *)
(* file, which is empty for a moment.  value is the time to set.           *)
SetTime(p, value) ==
  LET offset == [PlusZero EXCEPT !.at = value - real]
      q == [proc[p] EXCEPT !.FAKETIME = offset, !.parse_config_file = FALSE,
                           !.force_cache_expiration = TRUE, !.adjust = <<>>,
                           !.mine = [value |-> value, at |-> real],
                           !.pc = IF env.update THEN "write" ELSE "idle"] IN
  /\ Become(p, q)
  /\ rc' = IF env.update THEN Empty ELSE rc
  /\ UNCHANGED <<env, now, mtime, outfile, shm, touched>>

clock_settime(p, value) == Idle(p) /\ value \in env.settings /\ SetTime(p, value)
settimeofday(p, value) == clock_settime(p, value)

adjtime(p, delta) == delta \in env.deltas /\ fake_clock_gettime(p, "real", <<delta>>)
Adjust(p) ==
  LET value == proc[p].seen.real + proc[p].adjust[1] IN
  proc[p].pc = "adjust" /\ value \in 0..MaxTime /\ SetTime(p, value)

UpdateFile(p) ==
  /\ proc[p].pc = "write"
  /\ rc' = proc[p].FAKETIME
  /\ Become(p, [proc[p] EXCEPT !.pc = "idle"])
  /\ UNCHANGED <<env, now, mtime, outfile, shm, touched>>

-----------------------------------------------------------------------------
(* The three times of a file go through fake_clock_gettime with the calls  *)
(* not counted, and the semaphore held: with timestamps to save or replay  *)
(* it would be waited for in there for ever, and nobody calls stat then.   *)
fake_statbuf(p) ==
  LET q == Refresh(proc[p])
      shown == Faked(q.clock, "real", mtime) IN
  /\ Idle(p) /\ env.stat /\ ~proc[p].skip /\ ~proc[p].infile_set /\ ~env.save /\ ~Limited
  /\ Become(p, [q EXCEPT !.clock.ftpl_timecache.real = mtime, !.clock.ftpl_faketimecache.real = shown])
  /\ UNCHANGED <<env, now, rc, mtime, outfile, shm, touched>>

(* With FAKE_UTIME the offset is taken off the time given.                 *)
utime(p, value) ==
  LET q == proc[p] IN
  /\ Idle(p) /\ value \in env.utimes /\ ~q.skip
  /\ mtime' = value - q.clock.user_offset
  /\ touched' = [value |-> value, setting |-> q.clock.user_faked_time_saved]
  /\ UNCHANGED <<env, now, rc, outfile, shm, proc>>

Advance == now < MaxNow /\ now' = now + 1 /\ UNCHANGED <<env, rc, mtime, outfile, shm, proc, touched>>

(* Somebody writes another setting into the file.                          *)
ChangeSetting ==
  /\ rc' \in env.files /\ rc' # rc /\ ~env.update
  /\ UNCHANGED <<env, now, mtime, outfile, shm, proc, touched>>

Next ==
  \/ Advance \/ ChangeSetting
  \/ \E p \in Procs :
       \/ \E parent \in Procs \cup {0}, skip \in Skips : ftpl_init(p, parent, skip)
       \/ ft_cleanup(p)
       \/ time(p) \/ ftime(p) \/ gettimeofday(p)
       \/ \E clk \in env.clocks : clock_gettime(p, clk)
       \/ load_time(p) \/ next_time(p) \/ save_time(p)
       \/ \E value \in env.settings : clock_settime(p, value) \/ settimeofday(p, value)
       \/ \E delta \in env.deltas : adjtime(p, delta)
       \/ Adjust(p) \/ UpdateFile(p) \/ fake_statbuf(p)
       \/ \E value \in env.utimes : utime(p, value)

Spec == Init /\ [][Next]_vars

-----------------------------------------------------------------------------
Running == {p \in Procs : proc[p].up /\ ~proc[p].skip}
Setting(p) == proc[p].clock.user_faked_time_saved

(* Where every call moves the clock on, and where timestamps are replayed, *)
(* no two calls of the processes of one memory get the same timestamp,     *)
(* however their steps interleave; and every timestamp that was counted    *)
(* out is in the file it is to be saved in, once, when its call is over.   *)
Counting == env.FAKETIME.i # <<>>
TimestampsAreGivenOnce ==
  /\ \A i \in DOMAIN shm : Cardinality(shm[i].given) = shm[i].handed
  /\ Counting /\ env.save /\ env.load = <<>> =>
       LET saving == {p \in Procs : proc[p].pc = "save"}
       IN  /\ ToSet(outfile) \cup {proc[p].tp : p \in saving} = UNION {shm[i].given : i \in DOMAIN shm}
           /\ Len(outfile) + Cardinality(saving) = FoldSeq(LAMBDA m, n : m.handed + n, 0, shm)

(* As long as a process keeps its setting, or with FAKETIME_XRESET only    *)
(* changes its rate, the time it is told never goes back, not when the     *)
(* last timestamp to replay has been used up either.  (Limits switch       *)
(* between two clocks, and a replay that goes on at a rate is off by the   *)
(* time its first call took: they are left out.)                           *)
TimeNeverGoesBack ==
  [][\A p \in Procs :
       \/ Limited
       \/ env.load # <<>> /\ ~Counting
       \/ ~proc'[p].up
       \/ \A clk \in Clocks :
            \/ proc'[p].seen[clk] >= proc[p].seen[clk]
            \/ /\ Setting(p)' # Setting(p)
               /\ ~(env.xreset /\ Setting(p)'.x # <<>> /\ clk = "real")]_vars

(* The processes of one memory that have read the same setting show one    *)
(* time, whenever they were started; and a file that one of them gave a    *)
(* time has that time in all of them.  (With FAKETIME_XRESET each counts   *)
(* from its own last read, and with "@" from its own start unless          *)
(* FAKETIME_DONT_RESET is given.)                                          *)
Alike(p, q) ==
  /\ proc[p].mem = proc[q].mem /\ proc[p].mem # 0
  /\ Setting(p) = Setting(q) /\ proc[p].infile_set = proc[q].infile_set
OneFamilyOneClock ==
  /\ \A p, q \in Running :
       Alike(p, q) /\ ~env.xreset /\ (env.dont_reset \/ Setting(p).kind = "+") =>
         /\ \A clk \in Clocks : LET tp == system_time_from_system(now)[clk]
                               IN  Faked(proc[p].clock, clk, tp) = Faked(proc[q].clock, clk, tp)
         /\ proc[p].clock.user_per_tick_inc = proc[q].clock.user_per_tick_inc
  /\ \A p \in Running :
       LET clock == proc[p].clock IN
       /\ touched.setting.kind = "+" /\ Setting(p) = touched.setting
       /\ ~clock.user_rate_set /\ env.load = <<>>
       => Faked(clock, "real", mtime) = touched.value

(* After a process has set the clock, its next read and all later ones     *)
(* show the time set and what has gone by since, as long as the clock runs *)
(* at its own rate.                                                        *)
SetTimeTakesEffect ==
  \A p \in Running :
    LET q == proc[p] IN
    /\ q.mine # NotSet /\ ~q.force_cache_expiration
    /\ ~q.clock.user_rate_set /\ ~q.clock.user_per_tick_inc_set
    => Faked(q.clock, "real", real) = q.mine.value + (real - q.mine.at)

(* All of these: the clock of a setting is one, whoever set it, and its    *)
(* timestamps are given once.                                              *)
ClocksAgree == OneFamilyOneClock /\ SetTimeTakesEffect /\ TimestampsAreGivenOnce
=============================================================================
