----------------------------- MODULE MCEnvironments ---------------------------
(***************************************************************************)
(* Environments for FakeTime, each for one of the things the library does, *)
(* and settings for FakeSleep.                                             *)
(***************************************************************************)
EXTENDS FakeClock

Plus(at) == [PlusZero EXCEPT !.at = at]
Times(at, n, d) == [Plus(at) EXCEPT !.x = <<n, d>>]
Plain ==
  [FAKETIME |-> NoSetting, files |-> {NoFile}, shm |-> TRUE, dont_reset |-> FALSE, xreset |-> FALSE,
   no_cache |-> FALSE, cache_duration |-> 1, load |-> <<>>, save |-> FALSE, fake_monotonic_clock |-> TRUE,
   start_after_secs |-> -1, stop_after_secs |-> -1, start_after_ncalls |-> -1, stop_after_ncalls |-> -1,
   stat |-> FALSE, ends |-> FALSE, alone |-> FALSE, children |-> TRUE, settings |-> {}, deltas |-> {}, utimes |-> {}, update |-> FALSE,
   skips |-> {FALSE}, clocks |-> {"real"}]

(* Every call moves the clock on by 2, and what it reports is saved.       *)
Counted == [Plain EXCEPT !.FAKETIME = [Plus(5) EXCEPT !.i = <<2>>], !.save = TRUE, !.shm = TRUE]
Unshared == [Counted EXCEPT !.shm = FALSE]
(* Two timestamps are replayed, then every call moves the clock on.        *)
Replayed == [Counted EXCEPT !.load = <<20, 23>>, !.save = FALSE]
ReplayedThenRuns == [Plain EXCEPT !.FAKETIME = Times(5, 2, 1), !.load = <<20, 23>>]
(* A file changes the rate of a running clock.                             *)
Smooth == [Plain EXCEPT !.files = {Times(3, 3, 1), Times(3, 1, 2)},
                        !.xreset = TRUE, !.no_cache = TRUE]
(* A file changes the offset of a running clock; children are started.     *)
Family == [Plain EXCEPT !.files = {NoFile, Plus(4)}]
Ending == [Plain EXCEPT !.FAKETIME = Plus(4), !.ends = TRUE]
Stopped == [Plain EXCEPT !.files = {NoFile, [NoSetting EXCEPT !.kind = "at", !.at = 9]},
                         !.children = FALSE, !.skips = {TRUE, FALSE}]
FileTimes == [Plain EXCEPT !.files = {Plus(-2)}, !.children = FALSE, !.stat = TRUE, !.utimes = {12}, !.cache_duration = 0]
StartedAt == [Plain EXCEPT !.FAKETIME = [NoSetting EXCEPT !.kind = "@", !.at = 8, !.x = <<2, 1>>],
                           !.dont_reset = TRUE, !.clocks = Clocks]
Followed == [StartedAt EXCEPT !.FAKETIME = [NoSetting EXCEPT !.kind = "%"], !.utimes = {12},
                              !.dont_reset = FALSE, !.fake_monotonic_clock = FALSE]
(* The clock is set, by one process for itself or by several for all.      *)
SetAlone == [Plain EXCEPT !.FAKETIME = Plus(3), !.settings = {9, 30}, !.deltas = {-4}, !.alone = TRUE]
SetForAll == [Plain EXCEPT !.files = {NoFile}, !.settings = {30}, !.update = TRUE, !.no_cache = TRUE, !.children = FALSE]
Limits == [Plain EXCEPT !.FAKETIME = Plus(7), !.start_after_secs = 1, !.stop_after_secs = 3]
CallLimits == [Plain EXCEPT !.FAKETIME = Plus(7), !.start_after_ncalls = 1, !.stop_after_ncalls = 2]

MCEnvs == {Counted, Unshared, Replayed, ReplayedThenRuns, Smooth, Family, Ending, Stopped, FileTimes, StartedAt, Followed,
           SetAlone, SetForAll, Limits, CallLimits}

(* Clocks ahead, at a start of their own, and faster and slower.           *)
MCSettings == {Plus(5), Times(-3, 2, 1), Times(2, 1, 2),
               [NoSetting EXCEPT !.kind = "@", !.at = 3, !.x = <<3, 1>>]}
MCWaitMs == {Never, 2}
=============================================================================
