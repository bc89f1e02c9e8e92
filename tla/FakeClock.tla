----------------------------- MODULE FakeClock -----------------------------
(***************************************************************************)
(* depends/libfaketime/src: how a setting (FAKETIME or the first line of   *)
(* the file it is in) becomes a faked clock, for one process.              *)
(*                                                                         *)
(* Times are whole numbers of one unit, a rate is a fraction <<n, d>>.  A  *)
(* setting is a record: kind "at" for a time to stand still at, "+" for an *)
(* offset, "@" for a time to start at, "%" for the time of a file to start *)
(* at, "x" for modifiers alone; at is that time or offset, and x and i the *)
(* modifiers, <<>> without.  The clock "mon" stands for CLOCK_MONOTONIC,   *)
(* CLOCK_MONOTONIC_RAW and CLOCK_BOOTTIME.                                 *)
(***************************************************************************)
EXTENDS Integers, Sequences

CONSTANT Epoch     \* what CLOCK_REALTIME is ahead of CLOCK_MONOTONIC

Clocks == {"real", "mon"}

(* A timespec of {0, -1}: nothing was put there yet.                       *)
Never == -1
NoTimes == [c \in Clocks |-> Never]

system_time_from_system(now) == [real |-> now + Epoch, mon |-> now]

(* The product is cut off towards zero.                                    *)
timespecmul(t, c) ==
  IF t >= 0 THEN (t * c[1]) \div c[2] ELSE -((-t * c[1]) \div c[2])

(* What the library knows in a process before it has read a setting.       *)
NoSetting == [kind |-> "none", at |-> 0, x |-> <<>>, i |-> <<>>]
NoFile == [NoSetting EXCEPT !.kind = "no file"]
PlusZero == [NoSetting EXCEPT !.kind = "+"]
NewClock(start) ==
  [ft_mode |-> "FREEZE", user_faked_time |-> Never, user_faked_time_set |-> FALSE,
   ftpl_starttime |-> start, user_offset |-> Never,
   user_rate |-> <<1, 1>>, user_rate_set |-> FALSE,
   user_per_tick_inc |-> 0, user_per_tick_inc_set |-> FALSE,
   ftpl_timecache |-> NoTimes, ftpl_faketimecache |-> NoTimes, user_faked_time_saved |-> NoSetting]

(* A bug: the new rate counts from where the old one did.                  *)
SetRateOnly(q, x, xreset) == [q EXCEPT !.user_rate = x, !.user_rate_set = TRUE]

(* FAKETIME_XRESET starts the clocks again at what was read and reported   *)
(* last, and the new rate counts from there.                               *)
SetRate(q, x, xreset) ==
  LET faster == [q EXCEPT !.user_rate = x, !.user_rate_set = TRUE] IN
  IF xreset /\ q.ftpl_timecache.real # Never
  THEN [faster EXCEPT !.user_faked_time = q.ftpl_faketimecache.real,
                      !.ftpl_starttime = q.ftpl_timecache]
  ELSE faster

parse_modifiers(q, s, xreset) ==
  IF s.x # <<>> THEN SetRate(q, s.x, xreset)
  ELSE IF s.i # <<>> THEN [q EXCEPT !.user_per_tick_inc = s.i[1], !.user_per_tick_inc_set = TRUE]
  ELSE q

(* A setting that is as before changes nothing; modifiers that a new one   *)
(* does not name stay.  env says what is in the environment, and mtime is  *)
(* the time of the file that "%" follows.                                  *)
parse_ft_string(q, s, now, mtime, env) ==
  LET mode(m) == IF q.ft_mode = "NOOP" THEN "NOOP" ELSE m
      start == IF env.dont_reset THEN q.ftpl_starttime ELSE system_time_from_system(now)
      based ==
        CASE s.kind = "at" -> [q EXCEPT !.ft_mode = mode("FREEZE"), !.user_faked_time = s.at,
                                        !.user_faked_time_set = TRUE]
          [] s.kind = "+" -> [q EXCEPT !.ft_mode = mode("START_AT"), !.user_offset = s.at,
                                       !.user_faked_time = q.ftpl_starttime.real + s.at]
          [] s.kind \in {"@", "%"} -> [q EXCEPT !.ft_mode = "START_AT", !.ftpl_starttime = start,
                                                !.user_faked_time = IF s.kind = "%" THEN mtime ELSE s.at]
          [] OTHER -> q
      parsed == IF s.kind = "at" THEN based ELSE parse_modifiers(based, s, env.xreset)
  IN  IF s = q.user_faked_time_saved THEN q ELSE [parsed EXCEPT !.user_faked_time_saved = s]

(* What fake_clock_gettime makes of tp, the real time of clock clk, when   *)
(* it does not count calls.                                                *)
Faked(q, clk, tp) ==
  LET tdiff == tp - q.ftpl_starttime[clk]
      timeadj == IF q.user_rate_set THEN timespecmul(tdiff, q.user_rate) ELSE tdiff IN
  CASE q.ft_mode = "FREEZE" -> IF q.user_faked_time_set THEN q.user_faked_time ELSE tp
    [] q.ft_mode = "START_AT" -> q.user_faked_time + timeadj
    [] OTHER -> tp
=============================================================================
