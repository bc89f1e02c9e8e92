----------------------------- MODULE FakeSleep -----------------------------
(***************************************************************************)
(* depends/libfaketime/src/libfaketime.c: how long a process with a faked  *)
(* clock waits.  The kernel (external) measures the waits by the real      *)
(* clock, so that every call that waits turns its times into real ones,    *)
(* and what is left of them back.                                          *)
(*                                                                         *)
(* Sec units make a second: some calls count only whole seconds.  One      *)
(* thread of the process waits, or there is a timer on, or an alarm: what  *)
(* becomes of one does not depend on another.                              *)
(***************************************************************************)
EXTENDS FakeClock, FiniteSets

CONSTANTS
  Settings,     \* what FAKETIME may be
  Requests,     \* how long the calls wait
  Conds, Sec,
  WaitMs,       \* what FAKETIME_WAIT_MS may be, Never without
  MaxNow, MaxExpired    \* bounds

VARIABLES
  now,              \* the real time
  q,                \* the process's clock
  dont_fake,        \* the thread is of a program in FAKETIME_SKIP_CMDS
  wait_ms,          \* FAKETIME_WAIT_MS
  wait,             \* the call that waits
  timer, alarmed,   \* the timer and the alarm, as the kernel has them
  live,             \* the clock each condition variable was made with
  monotonic_conds,  \* those that the library took for monotonic
  told              \* what the last call said was left, and what was
vars == <<now, q, dont_fake, wait_ms, wait, timer, alarmed, live, monotonic_conds, told>>

Asleep == [call |-> "none", clk |-> "real", until |-> Never, wake |-> Never, since |-> Never, asked |-> Never]
Off == [at |-> Never, interval |-> 0, until |-> Never, every |-> 0, expired |-> 0]
Nothing == [call |-> "none", said |-> 0, left |-> 0]

Shown(clk) ==
  LET tp == system_time_from_system(now)[clk] IN IF dont_fake THEN tp ELSE Faked(q, clk, tp)

NoEnv == [dont_reset |-> FALSE, xreset |-> FALSE]
Init ==
  /\ now = 1 /\ dont_fake \in BOOLEAN /\ wait_ms \in WaitMs
  /\ \E s \in Settings :
       q = parse_ft_string([NewClock(system_time_from_system(0)) EXCEPT
                              !.ft_mode = IF dont_fake THEN "NOOP" ELSE @], s, 0, Never, NoEnv)
  /\ wait = Asleep /\ timer = Off /\ alarmed = Off
  /\ live = [c \in Conds |-> "none"] /\ monotonic_conds = {}
  /\ told = Nothing

-----------------------------------------------------------------------------
inverse == <<q.user_rate[2], q.user_rate[1]>>
Scales == q.user_rate_set /\ ~dont_fake
ToReal(t) == IF Scales THEN timespecmul(t, inverse) ELSE t
ToFake(t) == IF Scales THEN timespecmul(t, q.user_rate) ELSE t

Ready == wait = Asleep

(* The call waits, for asked or until a time on clock clk, which the       *)
(* kernel makes the real time wake.                                        *)
Wait(call, clk, until, wake, asked) ==
  /\ Ready /\ timer = Off /\ alarmed = Off
  /\ wait' = [call |-> call, clk |-> clk, until |-> until, wake |-> wake, since |-> now, asked |-> asked]
  /\ UNCHANGED <<now, q, dont_fake, wait_ms, timer, alarmed, live, monotonic_conds>> /\ told' = Nothing

WaitFor(call, req, real_req) == Wait(call, "mon", Shown("mon") + req, now + real_req, req)

nanosleep(req) == WaitFor("nanosleep", req, ToReal(req))
usleep(usec) == WaitFor("usleep", usec, ToReal(usec))
sleep(seconds) == WaitFor("sleep", seconds * Sec, ToReal(seconds * Sec))

(* A time that is over is now.                                             *)
Soonest(wake) == IF wake < now THEN now ELSE wake

(* Times to wait until are turned around whether the thread's clock is     *)
(* faked or not.                                                           *)
Start == q.ftpl_starttime
clock_nanosleep(clk, abstime, req) ==
  LET timeadj == req - q.user_faked_time
      tdiff == IF q.user_rate_set THEN timespecmul(timeadj, inverse) ELSE timeadj IN
  IF abstime THEN Wait("clock_nanosleep until", clk, req, Soonest(Start.mon + tdiff), Never)
  ELSE WaitFor("clock_nanosleep", req, ToReal(req))

(* Less than a second is not turned.                                       *)
ppoll(timeout) == WaitFor("ppoll", timeout, IF timeout >= Sec THEN ToReal(timeout) ELSE timeout)

Forever(call) == Wait(call, "mon", Never, Never, Never)
epoll_wait(timeout) ==
  IF timeout = Never THEN Forever("epoll_wait") ELSE WaitFor("epoll_wait", timeout, ToReal(timeout))
poll(timeout) == IF timeout = Never THEN Forever("poll") ELSE WaitFor("poll", timeout, ToReal(timeout))
select(timeout) == IF timeout = Never THEN Forever("select") ELSE WaitFor("select", timeout, ToReal(timeout))
pselect(timeout) == IF timeout = Never THEN Forever("pselect") ELSE WaitFor("pselect", timeout, ToReal(timeout))

sem_timedwait(abs_timeout) ==
  LET tdiff == abs_timeout - q.user_faked_time
      timeadj == IF q.user_rate_set THEN timespecmul(tdiff, q.user_rate) ELSE tdiff IN
  Wait("sem_timedwait", "real", abs_timeout,
       Soonest((IF dont_fake THEN abs_timeout ELSE Start.real + timeadj) - Epoch), Never)

-----------------------------------------------------------------------------
(* Condition variables.  One that is on the monotonic clock is remembered  *)
(* (Uthash), as the kernel is told the faked time for it: the C library    *)
(* asks the faked clock again how long that is from now.                   *)
pthread_cond_init(c, clk) ==
  /\ Ready /\ live[c] = "none"
  /\ live' = [live EXCEPT ![c] = clk]
  /\ monotonic_conds' = IF clk = "mon" THEN monotonic_conds \cup {c} ELSE monotonic_conds
  /\ UNCHANGED <<now, q, dont_fake, wait_ms, wait, timer, alarmed>> /\ told' = Nothing

(* A bug: the condition variable stays among the monotonic ones.           *)
pthread_cond_forget(c) ==
  /\ Ready /\ live[c] # "none"
  /\ live' = [live EXCEPT ![c] = "none"]
  /\ UNCHANGED <<now, q, dont_fake, wait_ms, wait, timer, alarmed, monotonic_conds>> /\ told' = Nothing

pthread_cond_destroy(c) ==
  /\ Ready /\ live[c] # "none"
  /\ live' = [live EXCEPT ![c] = "none"]
  /\ monotonic_conds' = monotonic_conds \ {c}
  /\ UNCHANGED <<now, q, dont_fake, wait_ms, wait, timer, alarmed>> /\ told' = Nothing

pthread_cond_timedwait(c, abstime) ==
  LET clk_id == IF c \in monotonic_conds THEN "mon" ELSE "real"
      realtime == system_time_from_system(now)[clk_id]
      faketime == Shown(clk_id)
      left == abstime - faketime
      tdiff_actual == IF wait_ms # Never THEN wait_ms
                      ELSE IF q.user_rate_set THEN timespecmul(left, inverse) ELSE left
      tp == (IF clk_id = "mon" THEN faketime ELSE realtime) + tdiff_actual IN
  /\ live[c] # "none"
  /\ Wait("pthread_cond_timedwait", live[c], abstime,
          Soonest(IF live[c] = "mon" THEN now + tp - Shown("mon") ELSE tp - Epoch), Never)

-----------------------------------------------------------------------------
(* The kernel's alarm says how many seconds are left, rounded up; an alarm *)
(* in no second at all is none.                                            *)
Remaining(a) == IF a.at = Never THEN 0 ELSE a.at - now
Say(call, said, left) == told' = [call |-> call, said |-> said, left |-> left]
InSeconds(t) == (t + Sec - 1) \div Sec

alarm(seconds) ==
  LET seconds_real == ToReal(seconds)
      ret == InSeconds(Remaining(alarmed)) IN
  /\ Ready /\ timer = Off
  /\ alarmed' = IF seconds_real = 0 THEN Off
                ELSE [Off EXCEPT !.at = now + (seconds_real * Sec), !.until = Shown("mon") + (seconds * Sec)]
  /\ Say("alarm", ToFake(ret) * Sec, IF alarmed = Off THEN 0 ELSE alarmed.until - Shown("mon"))
  /\ UNCHANGED <<now, q, dont_fake, wait_ms, wait, timer, live, monotonic_conds>>

(* A timer, on the real clock.  What is said of an old one is the time     *)
(* that many units after the start of the epoch.                           *)
timer_settime(abstime, value, interval, old_value) ==
  LET adj == value - q.user_faked_time
      tdiff == IF q.user_rate_set THEN timespecmul(adj, inverse) ELSE adj
      at == IF ~abstime THEN now + ToReal(value)
            ELSE IF dont_fake THEN value - Epoch ELSE Start.mon + tdiff
      remaining == Remaining(timer) IN
  /\ Ready /\ alarmed = Off
  /\ timer' = IF value = 0 THEN Off
              ELSE [at |-> Soonest(at), interval |-> ToReal(interval), every |-> interval, expired |-> 0,
                    until |-> IF abstime THEN value ELSE Shown("real") + value]
  /\ IF old_value
     THEN Say("timer_settime", IF dont_fake \/ remaining = 0 THEN remaining ELSE Faked(q, "real", remaining),
              IF timer = Off THEN 0 ELSE timer.until - Shown("real"))
     ELSE told' = Nothing
  /\ UNCHANGED <<now, q, dont_fake, wait_ms, wait, alarmed, live, monotonic_conds>>

(* A bug: the rest of a timer is not turned back.                          *)
timer_gettime_unscaled ==
  /\ Ready
  /\ Say("timer_gettime", Remaining(timer), IF timer = Off THEN 0 ELSE timer.until - Shown("real"))
  /\ UNCHANGED <<now, q, dont_fake, wait_ms, wait, timer, alarmed, live, monotonic_conds>>

timer_gettime ==
  /\ Ready
  /\ Say("timer_gettime", ToFake(Remaining(timer)), IF timer = Off THEN 0 ELSE timer.until - Shown("real"))
  /\ UNCHANGED <<now, q, dont_fake, wait_ms, wait, timer, alarmed, live, monotonic_conds>>

-----------------------------------------------------------------------------
(* The kernel.  What is due is not late, but may be together.              *)
Due == {w \in {wait.wake, timer.at, alarmed.at} : w # Never /\ w <= now}

Advance ==
  /\ Due = {} /\ now < MaxNow
  /\ now' = now + 1 /\ told' = Nothing
  /\ UNCHANGED <<q, dont_fake, wait_ms, wait, timer, alarmed, live, monotonic_conds>>

Wake ==
  /\ wait.wake \in Due
  /\ wait' = Asleep
  /\ UNCHANGED <<now, q, dont_fake, wait_ms, timer, alarmed, live, monotonic_conds>> /\ told' = Nothing

(* A signal, or what the call waited for.  nanosleep returns -1 then, and  *)
(* what is left is not turned back; sleep says that nothing is.            *)
Interrupt ==
  LET rem == wait.wake - now
      said == CASE wait.call = "clock_nanosleep" -> ToFake(rem)
                [] wait.call = "sleep" -> IF Scales THEN 0 ELSE rem
                [] OTHER -> rem IN
  /\ ~Ready /\ wait.wake \notin Due
  /\ wait' = Asleep
  /\ IF wait.call \in {"nanosleep", "clock_nanosleep", "sleep"}
     THEN Say(wait.call, said, wait.until - Shown("mon")) ELSE told' = Nothing
  /\ UNCHANGED <<now, q, dont_fake, wait_ms, timer, alarmed, live, monotonic_conds>>

Expire ==
  /\ timer.at \in Due /\ timer.expired < MaxExpired
  /\ timer' = IF timer.interval = 0 THEN Off
              ELSE [timer EXCEPT !.at = @ + timer.interval, !.until = @ + timer.every, !.expired = @ + 1]
  /\ UNCHANGED <<now, q, dont_fake, wait_ms, wait, alarmed, live, monotonic_conds>> /\ told' = Nothing

Ring ==
  /\ alarmed.at \in Due
  /\ alarmed' = Off
  /\ UNCHANGED <<now, q, dont_fake, wait_ms, wait, timer, live, monotonic_conds>> /\ told' = Nothing

(* The clock is read, and the file with the setting has another one.       *)
Read(s) ==
  /\ Ready /\ timer = Off /\ alarmed = Off /\ \A c \in Conds : live[c] = "none"
  /\ q' = parse_ft_string(q, s, now, Never, NoEnv)
  /\ UNCHANGED <<now, dont_fake, wait_ms, wait, timer, alarmed, live, monotonic_conds>> /\ told' = Nothing

Next ==
  \/ \E t \in Requests : \/ nanosleep(t) \/ usleep(t) \/ sleep(t) \/ ppoll(t)
                         \/ clock_nanosleep("mon", FALSE, t) \/ alarm(t)
  \/ \E t \in Requests \cup {Never} : epoll_wait(t) \/ poll(t) \/ select(t) \/ pselect(t)
  \/ \E t \in Requests :
       \/ \E clk \in Clocks : clock_nanosleep(clk, TRUE, Shown(clk) + t)
       \/ sem_timedwait(Shown("real") + t)
       \/ \E c \in Conds : live[c] # "none" /\ pthread_cond_timedwait(c, Shown(live[c]) + t)
       \/ \E interval \in {0, t}, old_value \in BOOLEAN :
            \/ timer_settime(FALSE, t, interval, old_value)
            \/ timer_settime(TRUE, Shown("real") + t, interval, old_value)
  \/ timer_settime(FALSE, 0, 0, TRUE) \/ timer_gettime
  \/ \E c \in Conds : (\E clk \in Clocks : pthread_cond_init(c, clk)) \/ pthread_cond_destroy(c)
  \/ Advance \/ Wake \/ Interrupt \/ Expire \/ Ring
  \/ \E s \in Settings : Read(s)

Spec == Init /\ [][Next]_vars

-----------------------------------------------------------------------------
(* One unit of real time cut off is that much of the faked one; and the    *)
(* faked time is itself cut off to units.                                  *)
Slack == (q.user_rate[1] \div q.user_rate[2]) + 2

(* sem_timedwait multiplies with the rate where it should divide, what     *)
(* waits until a time turns it although the thread's clock is not faked,   *)
(* and FAKETIME_WAIT_MS says how long to wait.                             *)
ByTheClock ==
  CASE wait.call = "sem_timedwait" -> ~Scales
    [] wait.call = "clock_nanosleep until" -> ~dont_fake
    [] wait.call = "pthread_cond_timedwait" -> wait_ms = Never /\ ~(dont_fake /\ q.user_rate_set)
    [] wait.call = "ppoll" -> wait.asked >= Sec
    [] OTHER -> wait.until # Never

Between(a, b, c) == a <= b /\ b <= c

(* A call that waits, a timer and an alarm end when the clock that the     *)
(* process sees shows the time asked for, not before and not after, but    *)
(* for what is cut off (of an alarm, whole seconds; of a timer that goes   *)
(* off again and again, once each time), whatever the offset and the rate, *)
(* and on the clock that a condition variable was made with.               *)
WaitsEndOnTime ==
  [][/\ Wake /\ ByTheClock => Between(wait.until - Slack, Shown(wait.clk), wait.until + Slack)
     /\ Wake /\ wait.call = "pthread_cond_timedwait" /\ wait_ms # Never => now = wait.since + wait_ms
     /\ Expire => Between(timer.until - (Slack * (1 + timer.expired)), Shown("real"), timer.until + Slack)
     /\ Ring => Between(alarmed.until - (Slack * Sec), Shown("mon"), alarmed.until + Slack)]_vars

(* What is said to be left of a timer, of an alarm and of a clock_nanosleep*)
(* that was interrupted is what is left by the clock the process sees.     *)
Off_by(r) == IF r.call = "alarm" THEN Slack * Sec ELSE Slack * (1 + timer.expired)
RestIsRight ==
  told.call \in {"clock_nanosleep", "timer_gettime", "alarm"} =>
    Between(told.left - Off_by(told), told.said, told.left + Off_by(told))

(* timer_settime and nanosleep say of their last lines that they "fake     *)
(* returned parts" (libfaketime.c:1338 and 1900).  What they return is     *)
(* not what is left, though.                                               *)
ReturnedPartsAreFaked ==
  told.call \in {"nanosleep", "timer_settime"} =>
    Between(told.left - Off_by(told), told.said, told.left + Off_by(told))
=============================================================================
