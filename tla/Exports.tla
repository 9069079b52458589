------------------------------ MODULE Exports ------------------------------
(***************************************************************************)
(* An export and the wait for it, in time: ExportZIP posts, WaitForProcess *)
(* polls, RoundTrip repeats each request after a backoff, all under one    *)
(* context that may have a deadline.                                       *)
(*                                                                         *)
(* Time is counted in ticks.  A tick passes only while everything waits:   *)
(* for an answer, in time.Sleep, in the select of WaitForProcess.  The     *)
(* limiter has a token whenever one is asked for, EnsureSession takes no   *)
(* time (it fails or not), and no 403 comes: module Transport has those.   *)
(*                                                                         *)
(* A duration has Width bits.  The settings of the backoff are arbitrary   *)
(* as long as BaseDelay times MaxDelay fits, as the defaults do (200 ms    *)
(* and 5 s in nanoseconds are 10^18 < 2^63).                               *)
(***************************************************************************)
EXTENDS Integers

CONSTANTS
  Width,            \* bits of a time.Duration
  BaseDelays,       \* values of ExponentialBackoff.BaseDelay
  MaxDelays,        \* values of ExponentialBackoff.MaxDelay
  MaxAttempts,      \* ExponentialBackoff.MaxAttempts
  Intervals,        \* values of WaitOptions.Interval
  DefaultInterval,  \* defaultPollInterval
  Deadlines         \* ticks a context may have left when the export begins

ASSUME ExportsAssumption ==
  /\ Width \in Nat \ {0}
  /\ BaseDelays \subseteq Nat \ {0}
  /\ MaxDelays \subseteq Nat
  /\ MaxAttempts \in Nat
  /\ Intervals \subseteq Int
  /\ DefaultInterval \in Nat \ {0}
  /\ Deadlines \subseteq Nat

ASSUME DelaysFit == \A b \in BaseDelays, m \in MaxDelays : b * m < 2^(Width - 1)

VARIABLES
  policy,       \* the client's backoff
  interval,     \* opts.Interval
  left,         \* ticks until the context is done, Never without a deadline
  late,         \* history: ticks since the context is done
  op,           \* "export" (ExportZIP) or "wait" (WaitForProcess)
  pc,           \* where the caller is
  attempt,      \* the backoff counter of the running request
  timer,        \* ticks left in time.Sleep or time.After
  started,      \* exports the server began
  status,       \* of the process the caller waits for
  result        \* what the caller got

callVars == <<op, pc, attempt, timer, result>>
vars == <<policy, interval, left, late, callVars, started, status>>

Never == -1
Terminal == {"Done", "Failed"}

TypeOK ==
  /\ policy \in [base : BaseDelays, max : MaxDelays]
  /\ interval \in Intervals
  /\ left \in {Never} \cup Nat
  /\ late \in Nat
  /\ op \in {"export", "wait"}
  /\ pc \in {"start", "sent", "sleep", "select", "done"}
  /\ attempt \in 0..MaxAttempts
  /\ timer \in Nat
  /\ started \in 0..(MaxAttempts + 1)
  /\ status \in {"none", "Waiting", "Running"} \cup Terminal
  /\ result \in {"none", "process", "error"}

Init ==
  /\ policy \in [base : BaseDelays, max : MaxDelays]
  /\ interval \in Intervals
  /\ left \in {Never} \cup Deadlines
  /\ late = 0
  /\ op = "export"
  /\ pc = "start"
  /\ attempt = 0
  /\ timer = 0
  /\ started = 0
  /\ status = "none"
  /\ result = "none"

-----------------------------------------------------------------------------
(* ExponentialBackoff.                                                     *)

(* base << n in Width bits with a sign.                                    *)
Shifted(base, n) ==
  LET bits == (base * 2^n) % 2^Width IN
  IF bits < 2^(Width - 1) THEN bits ELSE bits - 2^Width

(* Half of it, and up to another half drawn by chance.                     *)
Jittered(delay) == {delay \div 2 + j : j \in 0..(delay \div 2)}

(* A delay that was shifted out completely passes for one.                 *)
Faulty_NextDelay(n) ==
  LET delay == Shifted(policy.base, n) IN
  Jittered(IF delay > policy.max \/ delay < 0 THEN policy.max ELSE delay)

NextDelay(n) ==
  LET delay == Shifted(policy.base, n) IN
  Jittered(IF delay > policy.max \/ delay <= 0 THEN policy.max ELSE delay)

Faulty_ShouldRetry == attempt <= MaxAttempts

ShouldRetry == attempt < MaxAttempts

-----------------------------------------------------------------------------
(* One request: EnsureSession, then RoundTrip.                             *)

Return(how) ==
  /\ pc' = "done"
  /\ result' = how
  /\ timer' = 0
  /\ UNCHANGED <<op, attempt>>

(* The context is not asked.                                               *)
Faulty_Admits == TRUE

(* limiter.Wait returns an error when the context is done.                 *)
Admits == left # 0

(* EnsureSession may fail; then, and before every further attempt, the     *)
(* limiter.                                                                *)
Start ==
  /\ pc = "start"
  /\ \/ attempt = 0 /\ Return("error")
     \/ ~Admits /\ Return("error")
     \/ Admits /\ pc' = "sent" /\ UNCHANGED <<op, attempt, timer, result>>
  /\ UNCHANGED <<policy, interval, left, late, started, status>>

(* A POST may be carried out although its answer is lost.                  *)
MayStart ==
  \/ UNCHANGED started
  \/ op = "export" /\ started' = started + 1

(* A network error, a timeout, a 429, a 5xx, or the context is done: every *)
(* one of them is retried, after time.Sleep, or returned.                  *)
Unanswered ==
  /\ pc = "sent"
  /\ MayStart
  /\ IF ShouldRetry
     THEN /\ pc' = "sleep"
          /\ timer' \in NextDelay(attempt)
          /\ UNCHANGED <<op, attempt, result>>
     ELSE Return("error")
  /\ UNCHANGED <<policy, interval, left, late, status>>

Awake ==
  /\ pc = "sleep"
  /\ timer = 0
  /\ pc' = "start"
  /\ attempt' = attempt + 1
  /\ UNCHANGED <<policy, interval, left, late, op, timer, started, status, result>>

(* Another status than 200, or a body decodeProcess cannot read.           *)
Refused ==
  /\ pc = "sent"
  /\ MayStart
  /\ Return("error")
  /\ UNCHANGED <<policy, interval, left, late, status>>

-----------------------------------------------------------------------------
(* ExportZIP and WaitForProcess.                                           *)

(* The export began; the caller goes on to WaitForProcess.                 *)
Exported ==
  /\ pc = "sent" /\ op = "export"
  /\ started' = started + 1
  /\ status' = "Waiting"
  /\ op' = "wait"
  /\ pc' = "start"
  /\ attempt' = 0
  /\ UNCHANGED <<policy, interval, left, late, timer, result>>

(* Only success counts as the end.                                         *)
Faulty_IsTerminal(s) == s = "Done"

IsTerminal(s) == s \notin {"Waiting", "Running"}

Pause == IF interval <= 0 THEN DefaultInterval ELSE interval

(* Get brought the process: WaitForProcess returns it, or waits to ask     *)
(* again.                                                                  *)
Polled ==
  /\ pc = "sent" /\ op = "wait"
  /\ IF IsTerminal(status)
     THEN Return("process")
     ELSE /\ pc' = "select"
          /\ timer' = Pause
          /\ UNCHANGED <<op, attempt, result>>
  /\ UNCHANGED <<policy, interval, left, late, started, status>>

(* select chooses at random when both are ready.                           *)
Select ==
  /\ pc = "select"
  /\ \/ left = 0 /\ Return("error")
     \/ /\ timer = 0
        /\ pc' = "start"
        /\ attempt' = 0
        /\ UNCHANGED <<op, timer, result>>
  /\ UNCHANGED <<policy, interval, left, late, started, status>>

-----------------------------------------------------------------------------
(* Time and the server.                                                    *)

(* The request of a context that is done is cancelled at once.             *)
Waits ==
  \/ pc = "sent" /\ left # 0
  \/ pc = "sleep" /\ timer > 0
  \/ pc = "select" /\ timer > 0 /\ left # 0

Tick ==
  /\ Waits
  /\ left' = IF left > 0 THEN left - 1 ELSE left
  /\ late' = IF left = 0 THEN late + 1 ELSE late
  /\ timer' = IF timer > 0 THEN timer - 1 ELSE 0
  /\ UNCHANGED <<policy, interval, op, pc, attempt, started, status, result>>

(* The server works on the process, or never does.                         *)
Proceed ==
  /\ \/ status = "Waiting" /\ status' \in {"Running"} \cup Terminal
     \/ status = "Running" /\ status' \in Terminal
  /\ UNCHANGED <<policy, interval, left, late, callVars, started>>

Step == Start \/ Awake \/ Select
Respond == Unanswered \/ Refused \/ Exported \/ Polled

Next == Step \/ Respond \/ Tick \/ Proceed

Spec == Init /\ [][Next]_vars

(* The goroutine runs on, clocks do, and an attempt is answered, cancelled *)
(* or ended by ResponseHeaderTimeout.  Nothing makes the server finish.    *)
FairSpec == Spec /\ WF_vars(Step) /\ WF_vars(Respond) /\ WF_vars(Tick)

-----------------------------------------------------------------------------
(* Properties.                                                             *)

(* RoundTrip sleeps at least half of, and at most, BaseDelay times a power *)
(* of two as far as MaxDelay allows, in exact numbers: no shift that runs  *)
(* over or out of the duration makes it hammer the server or oversleep.    *)
DelaysBounded ==
  [][pc # "sleep" /\ pc' = "sleep" =>
       LET exact == policy.base * 2^attempt
           cap == IF exact > policy.max THEN policy.max ELSE exact IN
       timer' \in (cap \div 2)..cap]_vars

(* time.Sleep does not look at the context, so the caller gets its error   *)
(* later than the deadline, but never by more than one delay.              *)
ReturnsSoonAfterDeadline == late <= policy.max

(* The wait ends when the process does, whichever way, and when the        *)
(* context has a deadline, whatever the process does.                      *)
WaitEnds == (left # Never \/ status \in Terminal) ~> pc = "done"

=============================================================================
