----------------------------- MODULE HealthCheck -----------------------------
(****************************************************************************)
(* The failure counter of one upstream host (healthcheck.go, dnsredir.go):  *)
(* who raises, lowers and resets `fails`, and what Down makes of it.        *)
(*                                                                          *)
(* The worker starts a Check goroutine at every tick without waiting for    *)
(* the previous one.  A failed Exchange raises the counter and leaves a     *)
(* goroutine that lowers it again 2s later and, when the raised value was   *)
(* a multiple of failureCheck, checks the host itself.  Whether a check or  *)
(* an exchange will fail is settled when it starts, by whether the host     *)
(* answers then; when its result is applied is open.                        *)
(****************************************************************************)
EXTENDS Integers

CONSTANTS
  MaxFails,      \* max_fails
  FailureCheck,  \* every how many failures a request triggers a check
  MaxChecks,     \* bound: check goroutines of either outcome in flight
  MaxTimers,     \* bound: sleeping goroutines of failed exchanges
  MaxExchanges,  \* bound: exchanges in flight that will fail
  MaxStreak      \* bound: failed checks in a row

ASSUME HealthAssumption ==
  /\ MaxFails \in Nat \ {0} /\ FailureCheck \in Nat \ {0}
  /\ MaxChecks \in Nat /\ MaxTimers \in Nat
  /\ MaxExchanges \in Nat /\ MaxStreak \in Nat

VARIABLES
  checking,   \* checkInterval # 0
  alive,      \* the host answers
  fails,      \* uh.fails
  okChecks,   \* checks in flight that will succeed
  badChecks,  \* checks in flight that will fail
  exchanges,  \* exchanges in flight that will fail
  sleepers,   \* sleeping goroutines that will just lower the counter
  checkers,   \* sleeping goroutines that will check the host as well
  worker,     \* healthCheckWorker: "off" (never started), "run", "gone"
  stop,       \* HealthCheck.Stop: "no", "closed" (waiting), "returned"
  streak,     \* history: failed checks applied since the last successful one
  debt        \* history: goroutines asleep when the last success was applied

vars == <<checking, alive, fails, okChecks, badChecks, exchanges, sleepers,
          checkers, worker, stop, streak, debt>>

Timers == sleepers + checkers

\* checkDownFunc, for max_fails # 0.
Down == fails >= MaxFails

HealthInit ==
  /\ checking \in BOOLEAN
  /\ alive \in BOOLEAN
  /\ fails = 0
  /\ okChecks = 0
  /\ badChecks = 0
  /\ exchanges = 0
  /\ sleepers = 0
  /\ checkers = 0
  /\ worker = IF checking THEN "run" ELSE "off"
  /\ stop = "no"
  /\ streak = 0
  /\ debt = 0

\* A Check goroutine sends its query.
Launch ==
  \/ /\ alive
     /\ okChecks < MaxChecks
     /\ okChecks' = okChecks + 1
     /\ UNCHANGED badChecks
  \/ /\ ~alive
     /\ badChecks < MaxChecks
     /\ streak + badChecks < MaxStreak
     /\ badChecks' = badChecks + 1
     /\ UNCHANGED okChecks

\* The host stops or starts to answer.
Flip ==
  /\ alive' = ~alive
  /\ UNCHANGED <<checking, fails, okChecks, badChecks, exchanges, sleepers,
                 checkers, worker, stop, streak, debt>>

\* healthCheck: at the start and at every tick, `go host.Check()`.
WorkerTick ==
  /\ worker = "run"
  /\ Launch
  /\ UNCHANGED <<checking, alive, fails, exchanges, sleepers, checkers,
                 worker, stop, streak, debt>>

\* Variant: a successful check does not reset the counter.
CheckOk_NoReset ==
  /\ okChecks > 0
  /\ okChecks' = okChecks - 1
  /\ streak' = 0
  /\ debt' = Timers
  /\ UNCHANGED <<checking, alive, fails, badChecks, exchanges, sleepers,
                 checkers, worker, stop>>

\* Check: an answer resets the counter.
CheckOk ==
  /\ okChecks > 0
  /\ okChecks' = okChecks - 1
  /\ fails' = 0
  /\ streak' = 0
  /\ debt' = Timers
  /\ UNCHANGED <<checking, alive, badChecks, exchanges, sleepers, checkers,
                 worker, stop>>

\* Variant: a failed check does not count.
CheckFail_NotCounted ==
  /\ badChecks > 0
  /\ badChecks' = badChecks - 1
  /\ streak' = streak + 1
  /\ UNCHANGED <<checking, alive, fails, okChecks, exchanges, sleepers,
                 checkers, worker, stop, debt>>

\* Check: an error raises the counter.
CheckFail ==
  /\ badChecks > 0
  /\ badChecks' = badChecks - 1
  /\ fails' = fails + 1
  /\ streak' = streak + 1
  /\ UNCHANGED <<checking, alive, okChecks, exchanges, sleepers, checkers,
                 worker, stop, debt>>

\* A request is sent to a host that does not answer.
ExchangeStart ==
  /\ ~alive
  /\ exchanges < MaxExchanges
  /\ exchanges' = exchanges + 1
  /\ UNCHANGED <<checking, alive, fails, okChecks, badChecks, sleepers,
                 checkers, worker, stop, streak, debt>>

\* The exchange failed, with health checking off: healthCheck returns.
ExchangeFailUnchecked ==
  /\ exchanges > 0
  /\ ~checking
  /\ exchanges' = exchanges - 1
  /\ UNCHANGED <<checking, alive, fails, okChecks, badChecks, sleepers,
                 checkers, worker, stop, streak, debt>>

\* The exchange failed: the counter is raised and a goroutine falls asleep,
\* having kept the raised value.  Go's % is zero exactly when TLA+'s is.
ExchangeFail ==
  LET check == (fails + 1) % FailureCheck = 0 IN
  /\ exchanges > 0
  /\ checking
  /\ Timers < MaxTimers
  /\ exchanges' = exchanges - 1
  /\ fails' = fails + 1
  /\ checkers' = IF check THEN checkers + 1 ELSE checkers
  /\ sleepers' = IF check THEN sleepers ELSE sleepers + 1
  /\ UNCHANGED <<checking, alive, okChecks, badChecks, worker, stop, streak,
                 debt>>

\* A goroutine wakes up, lowers the counter, and is done ...
TimerFire ==
  /\ sleepers > 0
  /\ sleepers' = sleepers - 1
  /\ fails' = fails - 1
  /\ UNCHANGED <<checking, alive, okChecks, badChecks, exchanges, checkers,
                 worker, stop, streak, debt>>

\* ... or goes on to check the host.
TimerFireCheck ==
  /\ checkers > 0
  /\ Launch
  /\ checkers' = checkers - 1
  /\ fails' = fails - 1
  /\ UNCHANGED <<checking, alive, exchanges, sleepers, worker, stop, streak,
                 debt>>

\* Stop closes hc.stop, the worker returns, and Stop returns after wg.Wait.
StopCall ==
  /\ stop = "no"
  /\ stop' = "closed"
  /\ UNCHANGED <<checking, alive, fails, okChecks, badChecks, exchanges,
                 sleepers, checkers, worker, streak, debt>>

WorkerExit ==
  /\ worker = "run"
  /\ stop = "closed"
  /\ worker' = "gone"
  /\ UNCHANGED <<checking, alive, fails, okChecks, badChecks, exchanges,
                 sleepers, checkers, stop, streak, debt>>

StopReturn ==
  /\ stop = "closed"
  /\ worker # "run"
  /\ stop' = "returned"
  /\ UNCHANGED <<checking, alive, fails, okChecks, badChecks, exchanges,
                 sleepers, checkers, worker, streak, debt>>

HealthNext ==
  \/ Flip
  \/ WorkerTick
  \/ CheckOk
  \/ CheckFail
  \/ ExchangeStart
  \/ ExchangeFailUnchecked
  \/ ExchangeFail
  \/ TimerFire
  \/ TimerFireCheck
  \/ StopCall
  \/ WorkerExit
  \/ StopReturn

HealthSpec == HealthInit /\ [][HealthNext]_vars

\* Goroutines run; the ticker of a running worker keeps firing; a goroutine
\* that wakes up gets to check though other checks come and go.
HealthFairness ==
  /\ WF_vars(WorkerTick)
  /\ WF_vars(CheckOk)
  /\ WF_vars(CheckFail)
  /\ WF_vars(ExchangeFail \/ ExchangeFailUnchecked)
  /\ WF_vars(TimerFire)
  /\ SF_vars(TimerFireCheck)
  /\ WF_vars(WorkerExit)
  /\ WF_vars(StopReturn)

FairHealthSpec == HealthSpec /\ HealthFairness

-----------------------------------------------------------------------------
\* Properties

\* The counter stays between the two bounds that the number of sleeping
\* goroutines and of failed checks set, far from the ends of an int32.
HealthTypeOK ==
  /\ checking \in BOOLEAN
  /\ alive \in BOOLEAN
  /\ fails \in (-MaxTimers)..(MaxStreak + MaxTimers)
  /\ okChecks \in 0..MaxChecks
  /\ badChecks \in 0..MaxChecks
  /\ exchanges \in 0..MaxExchanges
  /\ sleepers \in 0..MaxTimers
  /\ checkers \in 0..MaxTimers
  /\ worker \in {"off", "run", "gone"}
  /\ stop \in {"no", "closed", "returned"}
  /\ streak \in 0..MaxStreak
  /\ debt \in 0..MaxTimers

\* What the counter is worth: the failed checks since the last success, plus
\* one for each sleeping goroutine, less one for each goroutine whose increment
\* that success wiped out - whether or not it has woken up since ("Failure count
\* may go negative here", healthCheck).
Accounting == fails = streak + Timers - debt

\* The strengthening that makes HealthTypeOK and Accounting inductive.
HealthInv ==
  /\ HealthTypeOK
  /\ Accounting
  /\ Timers <= MaxTimers
  /\ streak + badChecks <= MaxStreak

\* max_fails failed checks in a row take a host down once they also outweigh
\* what the last success left behind: no more than that is ever needed.
DownAfterDebt == streak >= MaxFails + debt => Down

\* A checked host that stops answering for good ends up down and stays down,
\* whatever late answers and sleeping goroutines still do to the counter.
DeadDetected == <>[](~alive /\ worker = "run") => <>[]Down

\* A checked host that answers for good ends up, and stays, not down ("should be
\* rectified by HC eventually").
AliveRestored == <>[](alive /\ worker = "run") => <>[]~Down

=============================================================================
