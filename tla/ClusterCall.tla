----------------------------- MODULE ClusterCall -----------------------------
(***************************************************************************)
(* clusterExt.lua: requests to services of this or another node.  call     *)
(* waits for the answer, callback waits for it in a coroutine of its own,  *)
(* timeout_callback does so and gives up after a while, send does not      *)
(* wait.                                                                   *)
(*                                                                         *)
(* The services are external: they take the first argument of a message    *)
(* for a command, and may answer, fail, or do neither.  Here they and the  *)
(* network take, answer and lose messages in any order.                    *)
(***************************************************************************)
EXTENDS Naturals, Sequences, FiniteSets

CONSTANTS Requests, command, arg, nil

RequestsAssumption == IsFiniteSet(Requests)
Kinds == {"call", "callback", "timeout_callback", "send"}
ArgsAssumption == command # arg /\ nil \notin {command, arg} \cup Kinds

VARIABLES
  kind,        \* of each request: the function it was made by, or nil
  messages,    \* under way: pairs <<request, arguments>>
  dispatched,  \* taken by a service: pairs <<request, first argument>>
  caller,      \* clusterExt.call of a request: "idle", "waiting", "returned"
  main,        \* coroutine of timeout_callback: "idle", "asleep", "woken", "ended"
  isTimeout, hasCallBack,
  cbRuns, timeoutRuns     \* how often cb and timeout_call were called
waits == <<caller, main, isTimeout, hasCallBack>>
vars == <<kind, messages, dispatched, waits, cbRuns, timeoutRuns>>

Init ==
  /\ kind = [r \in Requests |-> nil] /\ messages = {} /\ dispatched = {}
  /\ caller = [r \in Requests |-> "idle"] /\ main = [r \in Requests |-> "idle"]
  /\ isTimeout = [r \in Requests |-> FALSE] /\ hasCallBack = [r \in Requests |-> FALSE]
  /\ cbRuns = [r \in Requests |-> 0] /\ timeoutRuns = [r \in Requests |-> 0]

(* What the caller of a function passes after the kind of message.         *)
Arguments == <<command, arg>>

(* clusterExt.call names its first argument command, for the log, and      *)
(* passes on the others.                                                   *)
Passed == Tail(Arguments)

New(r, k) == kind[r] = nil /\ kind' = [kind EXCEPT ![r] = k]

Runs(count, r) == [count EXCEPT ![r] = @ + 1]

(* An address that is nil is logged and nothing is sent.                   *)
callNoAddress(r) ==
  /\ New(r, "call") /\ caller' = [caller EXCEPT ![r] = "returned"]
  /\ UNCHANGED <<messages, dispatched, main, isTimeout, hasCallBack, cbRuns, timeoutRuns>>

(* callback and timeout_callback call cb at once if there is no address.   *)
callbackNoAddress(r) ==
  /\ \E k \in {"callback", "timeout_callback"} : New(r, k)
  /\ cbRuns' = Runs(cbRuns, r)
  /\ UNCHANGED <<messages, dispatched, waits, timeoutRuns>>

(* call, and the call that callback and timeout_callback fork.  The        *)
(* coroutine of timeout_callback, meanwhile, sleeps.                       *)
call(r) ==
  /\ \E k \in {"call", "callback", "timeout_callback"} :
       /\ New(r, k)
       /\ main' = [main EXCEPT ![r] = IF k = "timeout_callback" THEN "asleep" ELSE "idle"]
  /\ messages' = messages \cup {<<r, Passed>>}
  /\ caller' = [caller EXCEPT ![r] = "waiting"]
  /\ UNCHANGED <<dispatched, isTimeout, hasCallBack, cbRuns, timeoutRuns>>

send(r) ==
  /\ New(r, "send") /\ messages' = messages \cup {<<r, Arguments>>}
  /\ UNCHANGED <<dispatched, waits, cbRuns, timeoutRuns>>

(* A service takes a message.                                              *)
dispatch(m) ==
  /\ m \in messages /\ messages' = messages \ {m}
  /\ dispatched' = dispatched \cup {<<m[1], Head(m[2])>>}
  /\ UNCHANGED <<kind, waits, cbRuns, timeoutRuns>>

(* An answer or an error, from the service or the network: call returns,   *)
(* callback calls cb, and timeout_callback does so unless it has given up. *)
answer(r) ==
  LET late == kind[r] = "timeout_callback" /\ isTimeout[r] IN
  /\ caller[r] = "waiting" /\ caller' = [caller EXCEPT ![r] = "returned"]
  /\ cbRuns' = IF kind[r] = "call" \/ late THEN cbRuns ELSE Runs(cbRuns, r)
  /\ IF kind[r] = "timeout_callback" /\ ~late
     THEN /\ hasCallBack' = [hasCallBack EXCEPT ![r] = TRUE]
          /\ main' = [main EXCEPT ![r] = IF @ = "asleep" THEN "woken" ELSE @]
     ELSE UNCHANGED <<hasCallBack, main>>
  /\ UNCHANGED <<kind, messages, dispatched, isTimeout, timeoutRuns>>

(* Mutant: timeout_call is left to the answer that comes too late.         *)
wakeSilently(r) ==
  /\ main[r] \in {"asleep", "woken"} /\ main' = [main EXCEPT ![r] = "ended"]
  /\ isTimeout' = [isTimeout EXCEPT ![r] = ~hasCallBack[r]]
  /\ UNCHANGED <<kind, messages, dispatched, caller, hasCallBack, cbRuns, timeoutRuns>>

(* The coroutine of timeout_callback goes on, woken or after its time: if  *)
(* there was no answer it gives up.                                        *)
wake(r) ==
  /\ main[r] \in {"asleep", "woken"} /\ main' = [main EXCEPT ![r] = "ended"]
  /\ IF hasCallBack[r]
     THEN UNCHANGED <<isTimeout, timeoutRuns>>
     ELSE /\ isTimeout' = [isTimeout EXCEPT ![r] = TRUE]
          /\ timeoutRuns' = Runs(timeoutRuns, r)
  /\ UNCHANGED <<kind, messages, dispatched, caller, hasCallBack, cbRuns>>

Next ==
  \/ \E r \in Requests : \/ callNoAddress(r) \/ callbackNoAddress(r) \/ call(r) \/ send(r)
                         \/ answer(r) \/ wake(r)
  \/ \E m \in messages : dispatch(m)

Spec == Init /\ [][Next]_vars

(* Sleeps end; nothing is assumed of services.                             *)
FairSpec == Spec /\ \A r \in Requests : WF_vars(wake(r))

-----------------------------------------------------------------------------
(* Types; a coroutine that gave up did not see an answer.                  *)
TypeOK ==
  /\ kind \in [Requests -> Kinds \cup {nil}]
  /\ messages \subseteq Requests \X {Arguments, Passed}
  /\ dispatched \subseteq Requests \X {command, arg}
  /\ caller \in [Requests -> {"idle", "waiting", "returned"}]
  /\ main \in [Requests -> {"idle", "asleep", "woken", "ended"}]
  /\ isTimeout \in [Requests -> BOOLEAN] /\ hasCallBack \in [Requests -> BOOLEAN]
  /\ cbRuns \in [Requests -> Nat] /\ timeoutRuns \in [Requests -> Nat]
  /\ \A r \in Requests : ~(isTimeout[r] /\ hasCallBack[r])

(* The answer and the timeout race, and one of them wins: who made the     *)
(* request is never told twice, and not of both.                           *)
ToldOnce ==
  TypeOK /\ \A r \in Requests : cbRuns[r] + timeoutRuns[r] <= 1

(* Who waits with a timeout is told, whatever the service does.            *)
ToldInTheEnd ==
  \A r \in Requests : kind[r] = "timeout_callback" ~> cbRuns[r] + timeoutRuns[r] = 1

(* Both: who made a request is told once.                                  *)
CallersAreTold == []ToldOnce /\ ToldInTheEnd

(* clusterExt.lua:58 logs a failed call as the failure of this command:    *)
(* what a service takes for the command is the one that was called.        *)
CommandArrives == \A d \in dispatched : d[2] = command
=============================================================================
