----------------------------- MODULE DialTimeout ----------------------------
(****************************************************************************)
(* The self-adjusting dial timeout of a host (src/healthcheck.go:260-285),  *)
(* as requests that dial at the same time use and adjust it.                *)
(****************************************************************************)
EXTENDS Integers, FiniteSets

CONSTANTS
  Requests,        \* goroutines that dial the host
  minDialTimeout,
  maxDialTimeout,
  Lag,             \* what a dial that times out takes beyond its timeout
  Times            \* how long the host may take to accept a connection

VARIABLES
  avgDialTime,     \* t.avgDialTime
  connectTime,     \* how long the host takes to accept or refuse a connection
  accepts,         \* the host accepts connections
  step,            \* per request: idle, dial, took, add
  val,             \* its timeout, then the time it took, then what it will add
  conn,            \* per request: its last dial got a connection
  most             \* history: how many have been between LoadAvg and AddAvg at once

dialVars == <<avgDialTime, connectTime, accepts, step, val, conn, most>>

cumulativeAvgWeight == 4

\* Durations are integers of at least the weight's resolution: a dial that times out is
\* measured from before its timer was set, so that it is over by more than the few
\* nanoseconds that the division by the weight cuts off.
ASSUME DialAssumption ==
  /\ minDialTimeout \in Nat \ {0} /\ maxDialTimeout \in Nat /\ minDialTimeout <= maxDialTimeout
  /\ Lag \in Nat /\ Lag >= cumulativeAvgWeight
  /\ Times \subseteq Nat

\* Go's integer division, which rounds towards zero.
Quotient(a, b) == IF a >= 0 THEN a \div b ELSE -((-a) \div b)

limitDialTimeout(avg) ==
  IF avg < minDialTimeout THEN minDialTimeout
  ELSE IF avg < maxDialTimeout \div 2 THEN 2 * avg
  ELSE maxDialTimeout

\* The timeout is fixed when the dial begins.
BeginDial(r) ==
  /\ step[r] = "idle"
  /\ step' = [step EXCEPT ![r] = "dial"]
  /\ val' = [val EXCEPT ![r] = limitDialTimeout(avgDialTime)]
  /\ UNCHANGED <<avgDialTime, connectTime, accepts, conn, most>>

Answered(r) ==
  /\ step[r] = "dial" /\ connectTime <= val[r]
  /\ step' = [step EXCEPT ![r] = "took"]
  /\ val' = [val EXCEPT ![r] = connectTime]
  /\ conn' = [conn EXCEPT ![r] = accepts]
  /\ UNCHANGED <<avgDialTime, connectTime, accepts, most>>

\* Variant: a dial that fails returns before the average is adjusted.
TimedOut_NotMeasured(r) ==
  /\ step[r] = "dial" /\ connectTime > val[r]
  /\ step' = [step EXCEPT ![r] = "took"]
  /\ val' = [val EXCEPT ![r] = avgDialTime]
  /\ conn' = [conn EXCEPT ![r] = FALSE]
  /\ UNCHANGED <<avgDialTime, connectTime, accepts, most>>

TimedOut(r) ==
  /\ step[r] = "dial" /\ connectTime > val[r]
  /\ step' = [step EXCEPT ![r] = "took"]
  /\ val' = [val EXCEPT ![r] = @ + Lag]
  /\ conn' = [conn EXCEPT ![r] = FALSE]
  /\ UNCHANGED <<avgDialTime, connectTime, accepts, most>>

\* Requests that have read the average and not yet adjusted it.
Adjusting == {r \in Requests : step[r] = "add"}
Overlap == LET n == Cardinality(Adjusting) + 1 IN most' = IF n > most THEN n ELSE most

\* updateDialTimeout reads the average ...
LoadAvg_Unweighted(r) ==
  /\ step[r] = "took"
  /\ step' = [step EXCEPT ![r] = "add"]
  /\ val' = [val EXCEPT ![r] = @ - avgDialTime]
  /\ Overlap
  /\ UNCHANGED <<avgDialTime, connectTime, accepts, conn>>

LoadAvg(r) ==
  /\ step[r] = "took"
  /\ step' = [step EXCEPT ![r] = "add"]
  /\ val' = [val EXCEPT ![r] = Quotient(@ - avgDialTime, cumulativeAvgWeight)]
  /\ Overlap
  /\ UNCHANGED <<avgDialTime, connectTime, accepts, conn>>

\* ... and adds its part to whatever the average has become in between.
AddAvg(r) ==
  /\ step[r] = "add"
  /\ avgDialTime' = avgDialTime + val[r]
  /\ step' = [step EXCEPT ![r] = "idle"]
  /\ val' = [val EXCEPT ![r] = 0]
  /\ UNCHANGED <<connectTime, accepts, conn, most>>

\* The host, or the network to it, gets faster or slower, or stops or starts to accept.
Change ==
  /\ connectTime' \in Times /\ accepts' \in BOOLEAN
  /\ UNCHANGED <<avgDialTime, step, val, conn, most>>

DialInit ==
  /\ avgDialTime = minDialTimeout
  /\ connectTime \in Times /\ accepts \in BOOLEAN
  /\ step = [r \in Requests |-> "idle"]
  /\ val = [r \in Requests |-> 0]
  /\ conn = [r \in Requests |-> FALSE]
  /\ most = 0

DialNext ==
  \/ Change
  \/ \E r \in Requests :
       BeginDial(r) \/ Answered(r) \/ TimedOut(r) \/ LoadAvg(r) \/ AddAvg(r)

DialSpec == DialInit /\ [][DialNext]_dialVars

-----------------------------------------------------------------------------
\* Every timeout in use is within the frame that limitDialTimeout promises ("limited by
\* min and max frame"), whatever stale adjustments have done to the average.
TimeoutInFrame ==
  \A r \in Requests : step[r] = "dial" => val[r] \in minDialTimeout .. maxDialTimeout

\* Requests that adjust the average from the same old value overshoot, but however many dial
\* the host at once, the average is bounded by how many of them have at most been between
\* the two atomic operations of updateDialTimeout (src/healthcheck.go:282-284): with one
\* it stays between zero and the longest dial; with two it may turn negative, by a third of
\* the longest dial, and exceed it by as much; with k of them, k at most the weight, it is
\* between -(k-1)/(5-k) and 4/(5-k) of it. Nothing is claimed for more than the weight,
\* where each round of stale adjustments may carry it further.
Longest == maxDialTimeout + Lag
AvgBounded ==
  \A k \in 1 .. cumulativeAvgWeight :
    most <= k => (cumulativeAvgWeight + 1 - k) * avgDialTime
                   \in -(k - 1) * Longest .. cumulativeAvgWeight * Longest

\* Once the host accepts in a steady time that is within the maximum, only finitely many dials
\* time out: timeouts that are too short lengthen the average until the next one is long
\* enough, and successes do not shorten it too far, also when dials overlap.
SettledServed ==
  <>[][accepts' /\ connectTime' = connectTime /\ connectTime <= maxDialTimeout]_dialVars
    => <>[][\A r \in Requests : ~(step[r] = "dial" /\ step'[r] = "took" /\ ~conn'[r])]_dialVars

=============================================================================
