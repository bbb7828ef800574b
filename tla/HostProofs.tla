------------------------------ MODULE HostProofs ------------------------------
(****************************************************************************)
(* Proofs about upstream hosts and exchanges with them: the failure counter *)
(* of a host (HealthCheck), for any max_fails and any bounds; its dial      *)
(* timeouts (DialTimeout): their frame and the bounds on their average, for *)
(* any number of requests; and of an Exchange, the Id of the answer and the *)
(* addresses in the sets and tables, for all hosts, replies and tables.     *)
(****************************************************************************)
EXTENDS HealthCheck, DialTimeout, Exchange, FiniteSetTheorems, TLAPS

\* The counter is determined by what is asleep and what the checks said, in
\* every interleaving of checks, requests, sleeping goroutines and Stop.
THEOREM HealthInvariant == HealthSpec => []HealthInv
<1> USE HealthAssumption
<1>1. HealthInit => HealthInv
  BY DEF HealthInit, HealthInv, HealthTypeOK, Accounting, Timers
<1>2. HealthInv /\ [HealthNext]_vars => HealthInv'
  <2> SUFFICES ASSUME HealthInv, [HealthNext]_vars PROVE HealthInv'
    OBVIOUS
  <2> USE DEF HealthInv, HealthTypeOK, Accounting, Timers
  <2>1. CASE Flip
    BY <2>1 DEF Flip
  <2>2. CASE WorkerTick
    BY <2>2 DEF WorkerTick, Launch
  <2>3. CASE CheckOk
    BY <2>3 DEF CheckOk
  <2>4. CASE CheckFail
    BY <2>4 DEF CheckFail
  <2>5. CASE ExchangeStart
    BY <2>5 DEF ExchangeStart
  <2>6. CASE ExchangeFailUnchecked
    BY <2>6 DEF ExchangeFailUnchecked
  <2>7. CASE ExchangeFail
    BY <2>7 DEF ExchangeFail
  <2>8. CASE TimerFire
    BY <2>8 DEF TimerFire
  <2>9. CASE TimerFireCheck
    BY <2>9 DEF TimerFireCheck, Launch
  <2>10. CASE StopCall
    BY <2>10 DEF StopCall
  <2>11. CASE WorkerExit
    BY <2>11 DEF WorkerExit
  <2>12. CASE StopReturn
    BY <2>12 DEF StopReturn
  <2>13. CASE UNCHANGED vars
    BY <2>13 DEF vars
  <2> QED
    BY <2>1, <2>2, <2>3, <2>4, <2>5, <2>6, <2>7, <2>8, <2>9, <2>10, <2>11,
       <2>12, <2>13, Zenon DEF HealthNext
<1> QED BY <1>1, <1>2, PTL DEF HealthSpec

\* The counter's bounds.
THEOREM HealthTypeCorrect == HealthSpec => []HealthTypeOK
<1>1. HealthInv => HealthTypeOK
  BY DEF HealthInv
<1> QED BY <1>1, HealthInvariant, PTL

\* The counter is worth what Accounting says.
THEOREM AccountingAlways == HealthSpec => []Accounting
<1>1. HealthInv => Accounting
  BY DEF HealthInv
<1> QED BY <1>1, HealthInvariant, PTL

\* MaxFails + debt failed checks in a row always take the host down.
THEOREM DownAfterDebtAlways == HealthSpec => []DownAfterDebt
<1>1. HealthInv => DownAfterDebt
  BY HealthAssumption
  DEF HealthInv, HealthTypeOK, Accounting, Timers, DownAfterDebt, Down
<1> QED BY <1>1, HealthInvariant, PTL

-----------------------------------------------------------------------------
\* Dial timeouts

Steps == {"idle", "dial", "took", "add"}

\* Types, with the values that a request holds between its steps.
DialTypeOK ==
  /\ avgDialTime \in Int
  /\ connectTime \in Nat
  /\ step \in [Requests -> Steps]
  /\ val \in [Requests -> Int]

FrameInv == DialTypeOK /\ TimeoutInFrame

\* The timeout computed from any average is within the frame (limitDialTimeout).
LEMMA LimitInFrame ==
  ASSUME NEW avg \in Int
  PROVE  limitDialTimeout(avg) \in minDialTimeout .. maxDialTimeout
BY DialAssumption DEF limitDialTimeout

\* Go's division by the weight moves a value at most a quarter of the way, towards
\* zero (updateDialTimeout).
LEMMA QuotientBounds ==
  ASSUME NEW x \in Int
  PROVE  /\ Quotient(x, cumulativeAvgWeight) \in Int
         /\ x >= 0 => /\ 0 <= Quotient(x, cumulativeAvgWeight)
                      /\ 4 * Quotient(x, cumulativeAvgWeight) <= x
         /\ x <= 0 => /\ Quotient(x, cumulativeAvgWeight) <= 0
                      /\ x <= 4 * Quotient(x, cumulativeAvgWeight)
BY DEF Quotient, cumulativeAvgWeight

\* The dials begin with no timeout outside its frame.
LEMMA FrameInit == DialInit => FrameInv
BY DialAssumption DEF DialInit, FrameInv, DialTypeOK, TimeoutInFrame, Steps

\* Every step keeps each timeout in its frame.
LEMMA FrameStep == FrameInv /\ [DialNext]_dialVars => FrameInv'
<1> SUFFICES ASSUME FrameInv, [DialNext]_dialVars PROVE FrameInv'
  OBVIOUS
<1> USE DialAssumption DEF FrameInv, DialTypeOK, TimeoutInFrame, Steps
<1>1. CASE Change
  BY <1>1 DEF Change
<1>2. ASSUME NEW r \in Requests, BeginDial(r) PROVE FrameInv'
  BY <1>2, LimitInFrame DEF BeginDial
<1>3. ASSUME NEW r \in Requests, Answered(r) PROVE FrameInv'
  BY <1>3 DEF Answered
<1>4. ASSUME NEW r \in Requests, TimedOut(r) PROVE FrameInv'
  BY <1>4 DEF TimedOut
<1>5. ASSUME NEW r \in Requests, LoadAvg(r) PROVE FrameInv'
  <2>1. Quotient(val[r] - avgDialTime, cumulativeAvgWeight) \in Int
    BY QuotientBounds
  <2> QED
    BY <1>5, <2>1 DEF LoadAvg
<1>6. ASSUME NEW r \in Requests, AddAvg(r) PROVE FrameInv'
  BY <1>6 DEF AddAvg
<1>7. CASE UNCHANGED dialVars
  BY <1>7 DEF dialVars
<1> QED
  BY <1>1, <1>2, <1>3, <1>4, <1>5, <1>6, <1>7 DEF DialNext

\* The timeout of every dial under way is between minDialTimeout and maxDialTimeout, for
\* any number of requests and whatever their stale adjustments make of the average.
THEOREM TimeoutInFrameAlways == DialSpec => []TimeoutInFrame
<1>1. FrameInv => TimeoutInFrame
  BY DEF FrameInv
<1> QED
  BY FrameInit, FrameStep, <1>1, PTL DEF DialSpec

-----------------------------------------------------------------------------
\* most is what it should be: no more requests than that are adjusting the average.
OverlapInv == IsFiniteSet(Adjusting) /\ most \in Nat /\ Cardinality(Adjusting) <= most

\* The history variable counts the requests between LoadAvg and AddAvg.
LEMMA OverlapStep ==
  ASSUME FrameInv, OverlapInv, [DialNext]_dialVars
  PROVE  OverlapInv'
<1> USE DEF FrameInv, DialTypeOK, OverlapInv
<1>0. Cardinality(Adjusting) \in Nat
  BY FS_CardinalityType
<1>1. ASSUME Adjusting' = Adjusting, most' = most PROVE OverlapInv'
  BY <1>1, Zenon
<1>2. CASE Change \/ UNCHANGED dialVars
  BY <1>1, <1>2 DEF Change, dialVars, Adjusting
<1>3. ASSUME NEW r \in Requests, BeginDial(r) \/ Answered(r) \/ TimedOut(r) PROVE OverlapInv'
  <2>1. Adjusting' = Adjusting /\ most' = most
    BY <1>3 DEF BeginDial, Answered, TimedOut, Adjusting
  <2> QED
    BY <1>1, <2>1
<1>4. ASSUME NEW r \in Requests, LoadAvg(r) PROVE OverlapInv'
  <2>1. Adjusting' = Adjusting \cup {r} /\ r \notin Adjusting
    BY <1>4 DEF LoadAvg, Adjusting
  <2>2. most' = IF Cardinality(Adjusting) + 1 > most THEN Cardinality(Adjusting) + 1 ELSE most
    BY <1>4 DEF LoadAvg, Overlap
  <2>3. IsFiniteSet(Adjusting') /\ Cardinality(Adjusting') = Cardinality(Adjusting) + 1
    BY <2>1, FS_AddElement
  <2> QED
    BY <1>0, <2>2, <2>3
<1>5. ASSUME NEW r \in Requests, AddAvg(r) PROVE OverlapInv'
  <2>1. Adjusting' = Adjusting \ {r} /\ r \in Adjusting /\ most' = most
    BY <1>5 DEF AddAvg, Adjusting
  <2>2. IsFiniteSet(Adjusting') /\ Cardinality(Adjusting') = Cardinality(Adjusting) - 1
    BY <2>1, FS_RemoveElement
  <2> QED
    BY <1>0, <2>1, <2>2
<1> QED
  BY <1>2, <1>3, <1>4, <1>5 DEF DialNext

Distinct(a, b, c, d) == a # b /\ a # c /\ a # d /\ b # c /\ b # d /\ c # d

\* What a set of at most k members, k at most the weight, cannot have.
LEMMA FewMembers ==
  ASSUME NEW S, IsFiniteSet(S), NEW k \in 1 .. 4, Cardinality(S) <= k
  PROVE  /\ \A a, b, c, d, e \in S : Distinct(a, b, c, d) => e \in {a, b, c, d}
         /\ k <= 3 => \A a, b, c, d \in S : ~Distinct(a, b, c, d)
         /\ k <= 2 => \A a, b, c \in S : a = b \/ a = c \/ b = c
         /\ k <= 1 => \A a, b \in S : a = b
<1>0. Cardinality(S) \in Nat
  BY FS_CardinalityType
<1>1. ASSUME NEW T \in SUBSET S
      PROVE  IsFiniteSet(T) /\ Cardinality(T) <= k /\ Cardinality(T) \in Nat
  <2>1. IsFiniteSet(T) /\ Cardinality(T) <= Cardinality(S)
    BY FS_Subset
  <2>2. Cardinality(T) \in Nat
    BY <2>1, FS_CardinalityType
  <2> QED
    BY <1>0, <2>1, <2>2
<1>2. ASSUME NEW T \in SUBSET S, NEW x \in S, x \notin T
      PROVE  Cardinality(T \cup {x}) = Cardinality(T) + 1
  <2>1. IsFiniteSet(T)
    BY <1>1
  <2> QED
    BY <1>2, <2>1, FS_AddElement
<1>3. \A a : Cardinality({a}) = 1
  BY FS_Singleton, Zenon
<1>4. \A a, b \in S : a # b => Cardinality({a, b}) = 2
  <2> TAKE a, b \in S
  <2> HAVE a # b
  <2>1. {a, b} = {a} \cup {b}
    OBVIOUS
  <2>2. Cardinality({a} \cup {b}) = Cardinality({a}) + 1
    BY <1>2
  <2> QED
    BY <1>3, <2>1, <2>2
<1>5. \A a, b, c \in S : a # b /\ c \notin {a, b} => Cardinality({a, b, c}) = 3
  <2> TAKE a, b, c \in S
  <2> HAVE a # b /\ c \notin {a, b}
  <2>1. {a, b, c} = {a, b} \cup {c}
    OBVIOUS
  <2>2. Cardinality({a, b} \cup {c}) = Cardinality({a, b}) + 1
    BY <1>2
  <2>3. Cardinality({a, b}) = 2
    BY <1>4
  <2>4. Cardinality({a, b, c}) = Cardinality({a, b}) + 1
    BY <2>1, <2>2, Zenon
  <2> QED
    BY <2>3, <2>4
<1>6. \A a, b, c, d \in S : Distinct(a, b, c, d) => Cardinality({a, b, c, d}) = 4
  <2> TAKE a, b, c, d \in S
  <2> HAVE Distinct(a, b, c, d)
  <2>1. {a, b, c, d} = {a, b, c} \cup {d} /\ d \notin {a, b, c} /\ a # b /\ c \notin {a, b}
    BY DEF Distinct
  <2>2. Cardinality({a, b, c} \cup {d}) = Cardinality({a, b, c}) + 1
    BY <1>2, <2>1
  <2>3. Cardinality({a, b, c}) = 3
    BY <1>5, <2>1, Zenon
  <2>4. Cardinality({a, b, c, d}) = Cardinality({a, b, c}) + 1
    BY <2>1, <2>2, Zenon
  <2> QED
    BY <2>3, <2>4
<1>7. \A a, b, c, d, e \in S : Distinct(a, b, c, d) => e \in {a, b, c, d}
  <2> TAKE a, b, c, d, e \in S
  <2> HAVE Distinct(a, b, c, d)
  <2> SUFFICES ASSUME e \notin {a, b, c, d} PROVE FALSE
    OBVIOUS
  <2>1. Cardinality({a, b, c, d} \cup {e}) = Cardinality({a, b, c, d}) + 1
    BY <1>2
  <2>2. Cardinality({a, b, c, d} \cup {e}) <= k
    BY <1>1
  <2>3. Cardinality({a, b, c, d}) = 4
    BY <1>6
  <2> QED
    BY <2>1, <2>2, <2>3
<1>8. k <= 3 => \A a, b, c, d \in S : ~Distinct(a, b, c, d)
  <2> SUFFICES ASSUME k <= 3, NEW a \in S, NEW b \in S, NEW c \in S, NEW d \in S,
                      Distinct(a, b, c, d)
               PROVE  FALSE
    OBVIOUS
  <2>1. Cardinality({a, b, c, d}) <= k
    BY <1>1
  <2> QED
    BY <1>6, <2>1
<1>9. k <= 2 => \A a, b, c \in S : a = b \/ a = c \/ b = c
  <2> SUFFICES ASSUME k <= 2, NEW a \in S, NEW b \in S, NEW c \in S, a # b, c \notin {a, b}
               PROVE  FALSE
    OBVIOUS
  <2>1. Cardinality({a, b, c}) <= k
    BY <1>1
  <2> QED
    BY <1>5, <2>1
<1>10. k <= 1 => \A a, b \in S : a = b
  <2> SUFFICES ASSUME k <= 1, NEW a \in S, NEW b \in S, a # b PROVE FALSE
    OBVIOUS
  <2>1. Cardinality({a, b}) <= k
    BY <1>1
  <2> QED
    BY <1>4, <2>1
<1> QED
  BY <1>7, <1>8, <1>9, <1>10

\* What a request is about to add to the average, and the parts of it up and down.
Due(r) == IF r \in Adjusting THEN val[r] ELSE 0
Up(r) == IF Due(r) > 0 THEN Due(r) ELSE 0
Dn(r) == IF Due(r) < 0 THEN -Due(r) ELSE 0

\* No dial takes longer than Longest, so that no adjustment is larger than its part of it.
ValuesBounded(k) ==
  \A r \in Requests :
    /\ step[r] = "took" => val[r] \in 0 .. Longest
    /\ step[r] = "add" => (5 - k) * val[r] \in -Longest .. Longest

\* The average keeps its bounds even if only the adjustments up, or only those down, that
\* four requests have computed are made.
Budget(k, a, b, c, d) ==
  /\ (5 - k) * (avgDialTime + (Up(a) + Up(b) + Up(c) + Up(d))) <= 4 * Longest
  /\ (5 - k) * (avgDialTime - (Dn(a) + Dn(b) + Dn(c) + Dn(d))) >= -(k - 1) * Longest

Budgets(k) == \A a, b, c, d : Distinct(a, b, c, d) => Budget(k, a, b, c, d)

AvgInv(k) ==
  /\ FrameInv
  /\ OverlapInv
  /\ most <= k => ValuesBounded(k) /\ Budgets(k)

\* The bounds on the average for k overlapping adjustments.
Bounds(k) == (5 - k) * avgDialTime \in -(k - 1) * Longest .. 4 * Longest

\* Adjustments are whole numbers, and either up or down.
LEMMA PartsTyped ==
  ASSUME FrameInv, NEW r
  PROVE  /\ Due(r) \in Int /\ Up(r) \in Nat /\ Dn(r) \in Nat
         /\ Due(r) = Up(r) - Dn(r)
BY DEF FrameInv, DialTypeOK, Adjusting, Due, Up, Dn

\* The budgets bound the average: any four values will do, requests or not.
LEMMA BudgetBounds ==
  ASSUME FrameInv, NEW k \in 1 .. 4, Budgets(k)
  PROVE  Bounds(k)
<1>1. Budget(k, 1, 2, 3, 4)
  BY DEF Budgets, Distinct
<1>2. /\ Up(1) \in Nat /\ Up(2) \in Nat /\ Up(3) \in Nat /\ Up(4) \in Nat
      /\ Dn(1) \in Nat /\ Dn(2) \in Nat /\ Dn(3) \in Nat /\ Dn(4) \in Nat
  BY PartsTyped
<1>3. avgDialTime \in Int /\ Longest \in Nat
  BY DialAssumption DEF FrameInv, DialTypeOK, Longest
<1> HIDE DEF Longest
<1>4. ASSUME NEW up \in Nat, NEW dn \in Nat,
             (5 - k) * (avgDialTime + up) <= 4 * Longest,
             (5 - k) * (avgDialTime - dn) >= -(k - 1) * Longest
      PROVE  Bounds(k)
  <2>1. CASE k = 1
    BY <1>3, <1>4, <2>1 DEF Bounds
  <2>2. CASE k = 2
    BY <1>3, <1>4, <2>2 DEF Bounds
  <2>3. CASE k = 3
    BY <1>3, <1>4, <2>3 DEF Bounds
  <2>4. CASE k = 4
    BY <1>3, <1>4, <2>4 DEF Bounds
  <2> QED
    BY <2>1, <2>2, <2>3, <2>4
<1>5. Up(1) + Up(2) + Up(3) + Up(4) \in Nat /\ Dn(1) + Dn(2) + Dn(3) + Dn(4) \in Nat
  BY <1>2
<1> QED
  BY <1>1, <1>4, <1>5 DEF Budget

\* An adjustment is computed from a time and an average that are both within their bounds.
LEMMA LoadBounded ==
  ASSUME NEW k \in 1 .. 4, NEW avg \in Int, NEW v \in Int, NEW q \in Int, NEW M \in Nat,
         v \in 0 .. M, (5 - k) * avg \in -(k - 1) * M .. 4 * M,
         v >= avg => 0 <= q /\ 4 * q <= v - avg,
         v <= avg => q <= 0 /\ v - avg <= 4 * q
  PROVE  (5 - k) * q \in -M .. M
<1>1. CASE k = 1
  BY <1>1
<1>2. CASE k = 2
  BY <1>2
<1>3. CASE k = 3
  BY <1>3
<1>4. CASE k = 4
  BY <1>4
<1> QED
  BY <1>1, <1>2, <1>3, <1>4

\* Every step keeps what a dial measured, and the adjustment computed from it, within bounds.
LEMMA ValuesStep ==
  ASSUME NEW k \in 1 .. 4, FrameInv, ValuesBounded(k), Bounds(k), [DialNext]_dialVars
  PROVE  ValuesBounded(k)'
<1> USE DialAssumption DEF FrameInv, DialTypeOK, TimeoutInFrame, Steps, ValuesBounded
<1>0. Longest \in Nat /\ maxDialTimeout <= Longest /\ maxDialTimeout + Lag <= Longest
  BY DEF Longest
<1>1. CASE Change
  BY <1>1 DEF Change
<1>2. ASSUME NEW r \in Requests, BeginDial(r) PROVE ValuesBounded(k)'
  BY <1>2 DEF BeginDial
<1>3. ASSUME NEW r \in Requests, Answered(r) PROVE ValuesBounded(k)'
  BY <1>0, <1>3 DEF Answered
<1>4. ASSUME NEW r \in Requests, TimedOut(r) PROVE ValuesBounded(k)'
  BY <1>0, <1>4 DEF TimedOut
<1>5. ASSUME NEW r \in Requests, LoadAvg(r) PROVE ValuesBounded(k)'
  <2> DEFINE q == Quotient(val[r] - avgDialTime, cumulativeAvgWeight)
  <2>1. /\ q \in Int
        /\ val[r] >= avgDialTime => 0 <= q /\ 4 * q <= val[r] - avgDialTime
        /\ val[r] <= avgDialTime => q <= 0 /\ val[r] - avgDialTime <= 4 * q
    BY QuotientBounds
  <2>2. val[r] \in 0 .. Longest
    BY <1>5 DEF LoadAvg
  <2> HIDE DEF q
  <2>3. (5 - k) * q \in -Longest .. Longest
    BY <1>0, <2>1, <2>2, LoadBounded DEF Bounds
  <2>4. val' = [val EXCEPT ![r] = q] /\ step' = [step EXCEPT ![r] = "add"]
    BY <1>5 DEF LoadAvg, q
  <2> QED
    BY <2>1, <2>3, <2>4
<1>6. ASSUME NEW r \in Requests, AddAvg(r) PROVE ValuesBounded(k)'
  BY <1>6 DEF AddAvg
<1>7. CASE UNCHANGED dialVars
  BY <1>7 DEF dialVars
<1> QED
  BY <1>1, <1>2, <1>3, <1>4, <1>5, <1>6, <1>7 DEF DialNext

\* What three requests other than the one that loads the average are about to add: k
\* requests at most are adjusting it, with that one.
LEMMA OthersBounded ==
  ASSUME NEW k \in 1 .. 4, NEW M \in Nat, NEW x \in Nat, NEW y \in Nat, NEW z \in Nat,
         (5 - k) * x <= M, (5 - k) * y <= M, (5 - k) * z <= M,
         k <= 3 => x = 0 \/ y = 0 \/ z = 0,
         k <= 2 => (x = 0 \/ y = 0) /\ (x = 0 \/ z = 0) /\ (y = 0 \/ z = 0),
         k <= 1 => x = 0 /\ y = 0 /\ z = 0
  PROVE  (5 - k) * (x + y + z) <= (k - 1) * M
<1>1. CASE k = 1
  BY <1>1
<1>2. CASE k = 2
  BY <1>2
<1>3. CASE k = 3
  BY <1>3
<1>4. CASE k = 4
  BY <1>4
<1> QED
  BY <1>1, <1>2, <1>3, <1>4

\* Loading the average keeps the budget: with the average between zero and Longest the new
\* adjustment is a quarter of the rest of the way at most, and beyond it points back.
LEMMA BudgetLoad ==
  ASSUME NEW k \in 1 .. 4, NEW avg \in Int, NEW v \in Int, NEW q \in Int, NEW M \in Nat,
         NEW up \in Nat, NEW dn \in Nat,
         v \in 0 .. M, (5 - k) * up <= (k - 1) * M, (5 - k) * dn <= (k - 1) * M,
         (5 - k) * (avg + up) <= 4 * M, (5 - k) * (avg - dn) >= -(k - 1) * M,
         v >= avg => 0 <= q /\ 4 * q <= v - avg,
         v <= avg => q <= 0 /\ v - avg <= 4 * q
  PROVE  /\ (5 - k) * (avg + ((IF q > 0 THEN q ELSE 0) + up)) <= 4 * M
         /\ (5 - k) * (avg - ((IF q < 0 THEN -q ELSE 0) + dn)) >= -(k - 1) * M
<1>1. CASE k = 1
  BY <1>1
<1>2. CASE k = 2
  BY <1>2
<1>3. CASE k = 3
  BY <1>3
<1>4. CASE k = 4
  BY <1>4
<1> QED
  BY <1>1, <1>2, <1>3, <1>4

\* It is enough to look at the budgets that begin with the request that takes the step, and
\* at those without it.
LEMMA BudgetsByRequest ==
  ASSUME NEW k \in 1 .. 4, NEW r, FrameInv',
         \A x, y, z : Distinct(r, x, y, z) => Budget(k, r, x, y, z)',
         \A a, b, c, d : Distinct(a, b, c, d) /\ r \notin {a, b, c, d} => Budget(k, a, b, c, d)'
  PROVE  Budgets(k)'
<1> SUFFICES ASSUME NEW a, NEW b, NEW c, NEW d, Distinct(a, b, c, d)
             PROVE  Budget(k, a, b, c, d)'
  BY DEF Budgets, Distinct
<1>1. \A x : Up(x)' \in Nat /\ Dn(x)' \in Nat
  BY DEF FrameInv, DialTypeOK, Adjusting, Due, Up, Dn
<1>2. avgDialTime' \in Int /\ Longest' = Longest
  BY DEF FrameInv, DialTypeOK, Longest
<1>3. CASE r = a
  BY <1>3
<1>4. CASE r = b
  <2>1. Budget(k, b, a, c, d)'
    BY <1>4 DEF Distinct
  <2>2. /\ (Up(b) + Up(a) + Up(c) + Up(d))' = (Up(a) + Up(b) + Up(c) + Up(d))'
        /\ (Dn(b) + Dn(a) + Dn(c) + Dn(d))' = (Dn(a) + Dn(b) + Dn(c) + Dn(d))'
    BY <1>1
  <2> QED
    BY <2>1, <2>2, Zenon DEF Budget
<1>5. CASE r = c
  <2>1. Budget(k, c, a, b, d)'
    BY <1>5 DEF Distinct
  <2>2. /\ (Up(c) + Up(a) + Up(b) + Up(d))' = (Up(a) + Up(b) + Up(c) + Up(d))'
        /\ (Dn(c) + Dn(a) + Dn(b) + Dn(d))' = (Dn(a) + Dn(b) + Dn(c) + Dn(d))'
    BY <1>1
  <2> QED
    BY <2>1, <2>2, Zenon DEF Budget
<1>6. CASE r = d
  <2>1. Budget(k, d, a, b, c)'
    BY <1>6 DEF Distinct
  <2>2. /\ (Up(d) + Up(a) + Up(b) + Up(c))' = (Up(a) + Up(b) + Up(c) + Up(d))'
        /\ (Dn(d) + Dn(a) + Dn(b) + Dn(c))' = (Dn(a) + Dn(b) + Dn(c) + Dn(d))'
    BY <1>1
  <2> QED
    BY <2>1, <2>2, Zenon DEF Budget
<1> QED
  BY <1>3, <1>4, <1>5, <1>6

\* updateDialTimeout's load keeps the budgets, as long as k requests at most overlap.
LEMMA LoadBudgets ==
  ASSUME NEW k \in 1 .. 4, FrameInv, FrameInv', OverlapInv', ValuesBounded(k), Budgets(k),
         NEW r \in Requests, LoadAvg(r), most' <= k
  PROVE  Budgets(k)'
<1> DEFINE q == Quotient(val[r] - avgDialTime, cumulativeAvgWeight)
<1>1. /\ avgDialTime' = avgDialTime /\ step[r] = "took"
      /\ Adjusting' = Adjusting \cup {r} /\ r \notin Adjusting
      /\ val' = [val EXCEPT ![r] = q]
  BY DEF LoadAvg, FrameInv, DialTypeOK, Adjusting
<1>2. /\ avgDialTime \in Int /\ val[r] \in Int /\ Longest \in Nat /\ val[r] \in 0 .. Longest
      /\ val \in [Requests -> Int]
  BY <1>1, DialAssumption DEF FrameInv, DialTypeOK, ValuesBounded, Longest
<1>3. /\ q \in Int
      /\ val[r] >= avgDialTime => 0 <= q /\ 4 * q <= val[r] - avgDialTime
      /\ val[r] <= avgDialTime => q <= 0 /\ val[r] - avgDialTime <= 4 * q
  BY <1>2, QuotientBounds
<1> HIDE DEF q
<1>4. ASSUME NEW x, x # r PROVE Up(x)' = Up(x) /\ Dn(x)' = Dn(x)
  <2>1. x \in Adjusting' <=> x \in Adjusting
    BY <1>1, <1>4
  <2>2. x \in Adjusting => val'[x] = val[x]
    BY <1>1, <1>2, <1>4 DEF Adjusting
  <2> QED
    BY <2>1, <2>2 DEF Up, Dn, Due
<1>5. /\ Up(r) = 0 /\ Dn(r) = 0
      /\ Up(r)' = (IF q > 0 THEN q ELSE 0) /\ Dn(r)' = (IF q < 0 THEN -q ELSE 0)
  BY <1>1, <1>2, <1>3 DEF Up, Dn, Due
<1>6. ASSUME NEW x
      PROVE  /\ Up(x) \in Nat /\ Dn(x) \in Nat
             /\ (5 - k) * Up(x) <= Longest /\ (5 - k) * Dn(x) <= Longest
             /\ x \notin Adjusting => Up(x) = 0 /\ Dn(x) = 0
  <2>1. Up(x) \in Nat /\ Dn(x) \in Nat /\ Due(x) = Up(x) - Dn(x)
    BY PartsTyped
  <2>2. x \notin Adjusting => Up(x) = 0 /\ Dn(x) = 0
    BY DEF Up, Dn, Due
  <2>3. x \in Adjusting => (5 - k) * val[x] \in -Longest .. Longest /\ val[x] \in Int
    BY <1>2 DEF ValuesBounded, Adjusting
  <2>4. (5 - k) * Up(x) <= Longest /\ (5 - k) * Dn(x) <= Longest
    <3>1. CASE x \notin Adjusting
      BY <1>2, <2>2, <3>1
    <3>2. CASE x \in Adjusting
      <4>1. Due(x) = val[x]
        BY <3>2, Zenon DEF Due
      <4>2. /\ Up(x) = (IF val[x] > 0 THEN val[x] ELSE 0)
            /\ Dn(x) = (IF val[x] < 0 THEN -val[x] ELSE 0)
        BY <4>1, Zenon DEF Up, Dn
      <4>3. CASE val[x] > 0
        BY <1>2, <2>3, <3>2, <4>2, <4>3
      <4>4. CASE val[x] <= 0
        <5>1. (5 - k) * (-val[x]) <= Longest
          BY <1>2, <2>3, <3>2
        <5>2. Up(x) = 0 /\ Dn(x) = -val[x]
          BY <2>3, <3>2, <4>2, <4>4
        <5> QED
          BY <1>2, <5>1, <5>2
      <4> QED
        BY <2>3, <3>2, <4>3, <4>4
    <3> QED
      BY <3>1, <3>2
  <2> QED
    BY <2>1, <2>2, <2>4
<1>7. ASSUME NEW x, NEW y, NEW z, Distinct(r, x, y, z)
      PROVE  Budget(k, r, x, y, z)'
  <2>1. /\ k <= 3 => x \notin Adjusting \/ y \notin Adjusting \/ z \notin Adjusting
        /\ k <= 2 => /\ x \notin Adjusting \/ y \notin Adjusting
                     /\ x \notin Adjusting \/ z \notin Adjusting
                     /\ y \notin Adjusting \/ z \notin Adjusting
        /\ k <= 1 => x \notin Adjusting /\ y \notin Adjusting /\ z \notin Adjusting
    <3>1. IsFiniteSet(Adjusting') /\ Cardinality(Adjusting') <= k
      <4>1. Cardinality(Adjusting') \in Nat
        BY FS_CardinalityType DEF OverlapInv
      <4> QED
        BY <4>1 DEF OverlapInv
    <3>2. /\ k <= 3 => \A a, b, c, d \in Adjusting' : ~Distinct(a, b, c, d)
          /\ k <= 2 => \A a, b, c \in Adjusting' : a = b \/ a = c \/ b = c
          /\ k <= 1 => \A a, b \in Adjusting' : a = b
      BY <3>1, FewMembers
    <3>3. r \in Adjusting' /\ \A w \in Adjusting : w \in Adjusting'
      BY <1>1
    <3>4. k <= 3 => x \notin Adjusting \/ y \notin Adjusting \/ z \notin Adjusting
      BY <1>7, <3>2, <3>3, Zenon
    <3>5. k <= 2 => /\ x \notin Adjusting \/ y \notin Adjusting
                    /\ x \notin Adjusting \/ z \notin Adjusting
                    /\ y \notin Adjusting \/ z \notin Adjusting
      BY <1>7, <3>2, <3>3, Zenon DEF Distinct
    <3>6. k <= 1 => x \notin Adjusting /\ y \notin Adjusting /\ z \notin Adjusting
      BY <1>7, <3>2, <3>3, Zenon DEF Distinct
    <3> QED
      BY <3>4, <3>5, <3>6, Zenon
  <2>2. /\ (5 - k) * (Up(x) + Up(y) + Up(z)) <= (k - 1) * Longest
        /\ (5 - k) * (Dn(x) + Dn(y) + Dn(z)) <= (k - 1) * Longest
    BY <1>2, <1>6, <2>1, OthersBounded, Zenon
  <2>3. Budget(k, r, x, y, z)
    BY <1>7 DEF Budgets
  <2> DEFINE up == Up(x) + Up(y) + Up(z)
             dn == Dn(x) + Dn(y) + Dn(z)
  <2>4. up \in Nat /\ dn \in Nat
    BY <1>6
  <2>5. Up(r) + Up(x) + Up(y) + Up(z) = up /\ Dn(r) + Dn(x) + Dn(y) + Dn(z) = dn
    BY <1>5, <1>6
  <2>6. /\ (5 - k) * (avgDialTime + up) <= 4 * Longest
        /\ (5 - k) * (avgDialTime - dn) >= -(k - 1) * Longest
    BY <2>3, <2>5, Zenon DEF Budget
  <2>7. (5 - k) * up <= (k - 1) * Longest /\ (5 - k) * dn <= (k - 1) * Longest
    BY <2>2
  <2>8. /\ (Up(r) + Up(x) + Up(y) + Up(z))' = (IF q > 0 THEN q ELSE 0) + up
        /\ (Dn(r) + Dn(x) + Dn(y) + Dn(z))' = (IF q < 0 THEN -q ELSE 0) + dn
    BY <1>3, <1>4, <1>5, <1>6, <1>7 DEF Distinct
  <2> HIDE DEF up, dn
  <2>9. /\ (5 - k) * (avgDialTime + ((IF q > 0 THEN q ELSE 0) + up)) <= 4 * Longest
        /\ (5 - k) * (avgDialTime - ((IF q < 0 THEN -q ELSE 0) + dn)) >= -(k - 1) * Longest
    BY <1>2, <1>3, <2>4, <2>6, <2>7, BudgetLoad
  <2> QED
    BY <1>1, <2>8, <2>9, Zenon DEF Budget, Longest
<1>8. ASSUME NEW a, NEW b, NEW c, NEW d, Distinct(a, b, c, d), r \notin {a, b, c, d}
      PROVE  Budget(k, a, b, c, d)'
  <2>1. Budget(k, a, b, c, d)
    BY <1>8 DEF Budgets
  <2>2. /\ Up(a)' = Up(a) /\ Up(b)' = Up(b) /\ Up(c)' = Up(c) /\ Up(d)' = Up(d)
        /\ Dn(a)' = Dn(a) /\ Dn(b)' = Dn(b) /\ Dn(c)' = Dn(c) /\ Dn(d)' = Dn(d)
    BY <1>4, <1>8
  <2> QED
    BY <1>1, <2>1, <2>2, Zenon DEF Budget, Longest
<1> QED
  BY <1>7, <1>8, BudgetsByRequest, Zenon

\* So does its add: of four requests other than the one that adds, one has nothing to add.
LEMMA AddBudgets ==
  ASSUME NEW k \in 1 .. 4, FrameInv, FrameInv', OverlapInv, Budgets(k),
         NEW r \in Requests, AddAvg(r), most <= k
  PROVE  Budgets(k)'
<1>1. /\ avgDialTime' = avgDialTime + Due(r) /\ avgDialTime \in Int /\ Longest \in Nat
      /\ Adjusting' = Adjusting \ {r} /\ r \in Adjusting
      /\ val' = [val EXCEPT ![r] = 0] /\ val \in [Requests -> Int]
  BY DialAssumption DEF AddAvg, FrameInv, DialTypeOK, Adjusting, Due, Longest
<1>2. ASSUME NEW x
      PROVE  /\ Up(x) \in Nat /\ Dn(x) \in Nat /\ Due(x) = Up(x) - Dn(x)
             /\ x \notin Adjusting => Up(x) = 0 /\ Dn(x) = 0
  <2>1. x \notin Adjusting => Up(x) = 0 /\ Dn(x) = 0
    BY DEF Up, Dn, Due
  <2> QED
    BY <2>1, PartsTyped
<1>3. ASSUME NEW x, x # r PROVE Up(x)' = Up(x) /\ Dn(x)' = Dn(x)
  <2>1. x \in Adjusting' <=> x \in Adjusting
    BY <1>1, <1>3
  <2>2. x \in Adjusting => val'[x] = val[x]
    BY <1>1, <1>3 DEF Adjusting
  <2> QED
    BY <2>1, <2>2 DEF Up, Dn, Due
<1>4. Up(r)' = 0 /\ Dn(r)' = 0
  BY <1>1 DEF Up, Dn, Due
\* What r adds is part of the budget that r shares with three others.
<1>5. ASSUME NEW x, NEW y, NEW z, Distinct(r, x, y, z)
      PROVE  /\ (5 - k) * (avgDialTime' + (Up(x) + Up(y) + Up(z))) <= 4 * Longest
             /\ (5 - k) * (avgDialTime' - (Dn(x) + Dn(y) + Dn(z))) >= -(k - 1) * Longest
  <2>1. Budget(k, r, x, y, z)
    BY <1>5 DEF Budgets
  <2> DEFINE up == Up(x) + Up(y) + Up(z)
             dn == Dn(x) + Dn(y) + Dn(z)
  <2>2. /\ up \in Nat /\ dn \in Nat /\ Up(r) \in Nat /\ Dn(r) \in Nat
        /\ Up(r) + Up(x) + Up(y) + Up(z) = Up(r) + up
        /\ Dn(r) + Dn(x) + Dn(y) + Dn(z) = Dn(r) + dn
        /\ avgDialTime' = avgDialTime + Up(r) - Dn(r)
    BY <1>1, <1>2
  <2>3. /\ (5 - k) * (avgDialTime + (Up(r) + up)) <= 4 * Longest
        /\ (5 - k) * (avgDialTime - (Dn(r) + dn)) >= -(k - 1) * Longest
    BY <2>1, <2>2, Zenon DEF Budget
  <2> HIDE DEF up, dn
  <2> SUFFICES /\ (5 - k) * (avgDialTime' + up) <= 4 * Longest
               /\ (5 - k) * (avgDialTime' - dn) >= -(k - 1) * Longest
    BY Zenon DEF up, dn
  <2>4. CASE k = 1
    BY <1>1, <2>2, <2>3, <2>4
  <2>5. CASE k = 2
    BY <1>1, <2>2, <2>3, <2>5
  <2>6. CASE k = 3
    BY <1>1, <2>2, <2>3, <2>6
  <2>7. CASE k = 4
    BY <1>1, <2>2, <2>3, <2>7
  <2> QED
    BY <2>4, <2>5, <2>6, <2>7
<1>6. ASSUME NEW x, NEW y, NEW z, Distinct(r, x, y, z)
      PROVE  Budget(k, r, x, y, z)'
  <2>1. /\ (Up(r) + Up(x) + Up(y) + Up(z))' = Up(x) + Up(y) + Up(z)
        /\ (Dn(r) + Dn(x) + Dn(y) + Dn(z))' = Dn(x) + Dn(y) + Dn(z)
    BY <1>2, <1>3, <1>4, <1>6 DEF Distinct
  <2> QED
    BY <1>5, <1>6, <2>1, Zenon DEF Budget, Longest
<1>7. ASSUME NEW a, NEW b, NEW c, NEW d, Distinct(a, b, c, d), r \notin {a, b, c, d}
      PROVE  Budget(k, a, b, c, d)'
  <2>1. a \notin Adjusting \/ b \notin Adjusting \/ c \notin Adjusting \/ d \notin Adjusting
    <3>1. Cardinality(Adjusting) \in Nat
      BY FS_CardinalityType DEF OverlapInv
    <3>2. IsFiniteSet(Adjusting) /\ Cardinality(Adjusting) <= k
      BY <3>1 DEF OverlapInv
    <3>3. \A v, w, x, y, z \in Adjusting : Distinct(v, w, x, y) => z \in {v, w, x, y}
      BY <3>2, FewMembers, Zenon
    <3> QED
      BY <1>1, <1>7, <3>3, Zenon
  <2>2. /\ Up(a)' = Up(a) /\ Up(b)' = Up(b) /\ Up(c)' = Up(c) /\ Up(d)' = Up(d)
        /\ Dn(a)' = Dn(a) /\ Dn(b)' = Dn(b) /\ Dn(c)' = Dn(c) /\ Dn(d)' = Dn(d)
    BY <1>3, <1>7
  \* The three of the four that may have something to add.
  <2>3. \E x, y, z : /\ Distinct(r, x, y, z)
                     /\ Up(a) + Up(b) + Up(c) + Up(d) = Up(x) + Up(y) + Up(z)
                     /\ Dn(a) + Dn(b) + Dn(c) + Dn(d) = Dn(x) + Dn(y) + Dn(z)
    <3>1. CASE a \notin Adjusting
      <4>1. Distinct(r, b, c, d)
        BY <1>7 DEF Distinct
      <4>2. /\ Up(a) + Up(b) + Up(c) + Up(d) = Up(b) + Up(c) + Up(d)
            /\ Dn(a) + Dn(b) + Dn(c) + Dn(d) = Dn(b) + Dn(c) + Dn(d)
        BY <1>2, <3>1
      <4> QED
        BY <4>1, <4>2, Zenon
    <3>2. CASE b \notin Adjusting
      <4>1. Distinct(r, a, c, d)
        BY <1>7 DEF Distinct
      <4>2. /\ Up(a) + Up(b) + Up(c) + Up(d) = Up(a) + Up(c) + Up(d)
            /\ Dn(a) + Dn(b) + Dn(c) + Dn(d) = Dn(a) + Dn(c) + Dn(d)
        BY <1>2, <3>2
      <4> QED
        BY <4>1, <4>2, Zenon
    <3>3. CASE c \notin Adjusting
      <4>1. Distinct(r, a, b, d)
        BY <1>7 DEF Distinct
      <4>2. /\ Up(a) + Up(b) + Up(c) + Up(d) = Up(a) + Up(b) + Up(d)
            /\ Dn(a) + Dn(b) + Dn(c) + Dn(d) = Dn(a) + Dn(b) + Dn(d)
        BY <1>2, <3>3
      <4> QED
        BY <4>1, <4>2, Zenon
    <3>4. CASE d \notin Adjusting
      <4>1. Distinct(r, a, b, c)
        BY <1>7 DEF Distinct
      <4>2. /\ Up(a) + Up(b) + Up(c) + Up(d) = Up(a) + Up(b) + Up(c)
            /\ Dn(a) + Dn(b) + Dn(c) + Dn(d) = Dn(a) + Dn(b) + Dn(c)
        BY <1>2, <3>4
      <4> QED
        BY <4>1, <4>2, Zenon
    <3> QED
      BY <2>1, <3>1, <3>2, <3>3, <3>4, Zenon
  <2>4. PICK x, y, z : /\ Distinct(r, x, y, z)
                       /\ Up(a) + Up(b) + Up(c) + Up(d) = Up(x) + Up(y) + Up(z)
                       /\ Dn(a) + Dn(b) + Dn(c) + Dn(d) = Dn(x) + Dn(y) + Dn(z)
    BY <2>3, Zenon
  <2>5. /\ (5 - k) * (avgDialTime' + (Up(a) + Up(b) + Up(c) + Up(d))) <= 4 * Longest
        /\ (5 - k) * (avgDialTime' - (Dn(a) + Dn(b) + Dn(c) + Dn(d))) >= -(k - 1) * Longest
    BY <1>5, <2>4, Zenon
  <2> QED
    BY <2>2, <2>5, Zenon DEF Budget, Longest
<1> QED
  BY <1>6, <1>7, BudgetsByRequest, Zenon

\* Every step keeps the bounds for k overlapping adjustments.
LEMMA AvgInvStep ==
  ASSUME NEW k \in 1 .. 4, AvgInv(k), [DialNext]_dialVars
  PROVE  AvgInv(k)'
<1>1. FrameInv /\ OverlapInv /\ FrameInv' /\ OverlapInv'
  BY FrameStep, OverlapStep DEF AvgInv
<1> SUFFICES ASSUME most' <= k PROVE ValuesBounded(k)' /\ Budgets(k)'
  BY <1>1 DEF AvgInv
<1>2. most <= k
  <2>1. most <= most' /\ most \in Nat /\ most' \in Nat
    <3>1. most \in Nat /\ most' \in Nat
      BY <1>1 DEF OverlapInv
    <3>2. most' = most \/ most' > most
      <4>1. ASSUME NEW r \in Requests, LoadAvg(r) PROVE most' = most \/ most' > most
        BY <4>1 DEF LoadAvg, Overlap
      <4> QED
        BY <4>1 DEF DialNext, Change, BeginDial, Answered, TimedOut, AddAvg, dialVars
    <3> QED
      BY <3>1, <3>2
  <2> QED
    BY <2>1
<1>3. ValuesBounded(k) /\ Budgets(k) /\ Bounds(k)
  BY <1>1, <1>2, BudgetBounds DEF AvgInv
<1>4. ValuesBounded(k)'
  BY <1>1, <1>3, ValuesStep
<1>5. Budgets(k)'
  <2>1. ASSUME Adjusting' = Adjusting, avgDialTime' = avgDialTime,
               \A x \in Adjusting : val'[x] = val[x]
        PROVE  Budgets(k)'
    <3>1. \A x : Up(x)' = Up(x) /\ Dn(x)' = Dn(x)
      BY <2>1 DEF Up, Dn, Due
    <3>2. ASSUME NEW a, NEW b, NEW c, NEW d
          PROVE  Budget(k, a, b, c, d)' <=> Budget(k, a, b, c, d)
      BY <2>1, <3>1, Zenon DEF Budget, Longest
    <3> QED
      BY <1>3, <3>2, Zenon DEF Budgets, Distinct
  <2>2. CASE Change \/ UNCHANGED dialVars
    BY <2>1, <2>2 DEF Change, dialVars, Adjusting
  <2>3. ASSUME NEW r \in Requests, BeginDial(r) \/ Answered(r) \/ TimedOut(r) PROVE Budgets(k)'
    <3>1. /\ Adjusting' = Adjusting /\ avgDialTime' = avgDialTime
          /\ \A x \in Adjusting : val'[x] = val[x]
      BY <1>1, <2>3 DEF BeginDial, Answered, TimedOut, Adjusting, FrameInv, DialTypeOK
    <3> QED
      BY <2>1, <3>1
  <2>4. ASSUME NEW r \in Requests, LoadAvg(r) PROVE Budgets(k)'
    BY <1>1, <1>3, <2>4, LoadBudgets
  <2>5. ASSUME NEW r \in Requests, AddAvg(r) PROVE Budgets(k)'
    BY <1>1, <1>2, <1>3, <2>5, AddBudgets
  <2> QED
    BY <2>2, <2>3, <2>4, <2>5 DEF DialNext
<1> QED
  BY <1>4, <1>5

\* However many requests dial the host, stale adjustments of its average leave it within the
\* bounds for the number that at most overlapped, for every frame, lag and host
\* (Dial, updateDialTimeout).
THEOREM AvgBoundedAlways == DialSpec => []AvgBounded
<1> DEFINE Inv == \A k \in 1 .. 4 : AvgInv(k)
<1>1. DialInit => Inv
  <2> SUFFICES ASSUME DialInit, NEW k \in 1 .. 4 PROVE AvgInv(k)
    OBVIOUS
  <2>1. FrameInv
    BY FrameInit
  <2>2. Adjusting = {} /\ most = 0
    BY DEF DialInit, Adjusting
  <2>3. OverlapInv
    BY <2>2, FS_EmptySet DEF OverlapInv
  <2>4. ValuesBounded(k)
    BY DEF DialInit, ValuesBounded
  <2>5. Budgets(k)
    <3>1. \A x : Up(x) = 0 /\ Dn(x) = 0
      BY <2>2 DEF Up, Dn, Due
    <3>2. avgDialTime \in 0 .. Longest /\ Longest \in Nat
      BY DialAssumption DEF DialInit, Longest
    <3>3. (5 - k) * (avgDialTime + 0) <= 4 * Longest /\ (5 - k) * (avgDialTime - 0) >= -(k - 1) * Longest
      <4>1. CASE k = 1
        BY <3>2, <4>1
      <4>2. CASE k = 2
        BY <3>2, <4>2
      <4>3. CASE k = 3
        BY <3>2, <4>3
      <4>4. CASE k = 4
        BY <3>2, <4>4
      <4> QED
        BY <4>1, <4>2, <4>3, <4>4
    <3>4. 0 + 0 + 0 + 0 = 0
      OBVIOUS
    <3> QED
      BY <3>1, <3>3, <3>4, Zenon DEF Budgets, Budget
  <2> QED
    BY <2>1, <2>3, <2>4, <2>5 DEF AvgInv
<1>2. Inv /\ [DialNext]_dialVars => Inv'
  BY AvgInvStep
<1>3. Inv => AvgBounded
  <2> SUFFICES ASSUME Inv, NEW k \in 1 .. 4, most <= k PROVE Bounds(k)
    BY DEF AvgBounded, Bounds, cumulativeAvgWeight
  <2> QED
    BY BudgetBounds DEF AvgInv
<1> QED
  BY <1>1, <1>2, <1>3, PTL DEF DialSpec

-----------------------------------------------------------------------------
\* Exchanges

ReplyType ==
  [from : {"dns", "doh"}, id : {"own", "zero", "foreign"}, question : Questions,
   success : BOOLEAN, answer : Seq(Records)]

Places == {"select", "exchange", "https", "match", "add", "done"}

\* The Id of the request, and of a reply that has been received.
IdInv ==
  /\ at \in Places
  /\ query \in Queries
  /\ reqId \in {"own", "zero"}
  /\ query.packs => reqId = "own"
  /\ at \in {"match", "add"} =>
       /\ reply \in ReplyType
       /\ reply.id = reqId \/ (reply.id = "foreign" /\ reply.from = "doh")
  /\ at # "done" => written.kind = "none"
  /\ AnsweredAsAsked

\* A reply that is built from a content is one.
LEMMA ReplyTyped ==
  ASSUME NEW from \in {"dns", "doh"}, NEW id \in {"own", "zero", "foreign"},
         NEW q \in Questions, NEW c \in Contents
  PROVE  /\ Reply(from, id, q, c) \in ReplyType
         /\ Reply(from, id, q, c).id = id
         /\ Reply(from, id, q, c).from = from
<1>1. c \in [success : BOOLEAN, answer : Seq(Records)]
  BY DohAssumption
<1> QED
  BY <1>1 DEF Reply, ReplyType

\* The exchange begins with its invariant.
LEMMA IdInit == ExchangeInit => IdInv
<1> SUFFICES ASSUME ExchangeInit PROVE IdInv
  OBVIOUS
<1>1. query \in Queries /\ reqId = "own" /\ at = "select"
  BY Zenon DEF ExchangeInit, DohInit
<1>2. written.kind = "none"
  BY Zenon DEF ExchangeInit
<1>3. at \in Places \ {"match", "add", "done"} /\ reqId \in {"own", "zero"}
  BY <1>1 DEF Places
<1> QED
  BY <1>1, <1>2, <1>3 DEF IdInv, AnsweredAsAsked

\* Every step of the exchange keeps it.
LEMMA IdStep == IdInv /\ [ExchangeNext]_exchangeVars => IdInv'
<1> SUFFICES ASSUME IdInv, [ExchangeNext]_exchangeVars PROVE IdInv'
  OBVIOUS
<1> USE DEF IdInv, AnsweredAsAsked, Places
<1>1. CASE Dial \/ ExchangeFails
  BY <1>1 DEF Dial, ExchangeFails, dohVars
<1>2. CASE Exchanged
  <2>1. PICK q \in Questions, c \in Contents : reply' = Reply("dns", reqId, q, c)
    BY <1>2 DEF Exchanged
  <2>2. reply' \in ReplyType /\ reply'.id = reqId
    BY <2>1, ReplyTyped
  <2> QED
    BY <1>2, <2>2 DEF Exchanged
<1>3. ASSUME NEW proto \in Protos \ {"dns"}, dohExchange(proto) PROVE IdInv'
  <2>1. /\ at = "select" /\ at' \in {"https", "select"} /\ UNCHANGED <<query, written, reply>>
        /\ reqId' = reqId \/ (reqId' = "zero" /\ ~query.packs)
    BY <1>3 DEF dohExchange, jsonDnsExchange, ietfDnsExchange, ietfPackFails
  <2> QED
    BY <2>1
<1>4. CASE dohReturn
  <2>1. CASE dohError /\ at' = "select"
    BY <1>4, <2>1 DEF dohReturn, dohError
  <2>2. CASE dohReply /\ at' = "match"
    <3>1. PICK id \in {"zero", "foreign"}, q \in Questions, c \in Contents :
            reply' = Reply("doh", IF id = "zero" THEN reqId ELSE id, q, c)
      BY <2>2 DEF dohReply, jsonDnsParseResponse, ietfDnsParseResponse, Questions
    <3>2. /\ reply' \in ReplyType /\ reply'.from = "doh"
          /\ reply'.id \in {reqId, "foreign"}
      BY <3>1, ReplyTyped
    <3>3. UNCHANGED <<query, reqId, written>>
      BY <1>4, <2>2 DEF dohReturn, dohReply
    <3>4. at = "https" /\ at' \in {"match", "select"}
      BY <1>4 DEF dohReturn
    <3> QED
      BY <3>2, <3>3, <3>4
  <2> QED
    BY <1>4, <2>1, <2>2 DEF dohReturn
<1>5. CASE GiveUp
  BY <1>5 DEF GiveUp, Write, dohVars
<1>6. CASE Match
  BY <1>6 DEF Match, Write, dohVars
<1>7. CASE AddIPs
  BY <1>7 DEF AddIPs, dohVars
<1>8. CASE WriteReply
  BY <1>8 DEF WriteReply, Write, dohVars
<1>9. CASE UNCHANGED exchangeVars
  BY <1>9 DEF exchangeVars, dohVars
<1> HIDE DEF IdInv, AnsweredAsAsked, Places
<1> QED
  BY <1>1, <1>2, <1>3, <1>4, <1>5, <1>6, <1>7, <1>8, <1>9, Zenon DEF ExchangeNext

\* A request that can be packed is answered under its own Id, after any tries on any hosts,
\* unless a DNS over HTTPS server sends an Id of its own, which the code passes on
\* (src/doh-ietf.go:26-33, 77; src/healthcheck.go:457).
THEOREM AnsweredAsAskedAlways == ExchangeSpec => []AnsweredAsAsked
<1>1. IdInv => AnsweredAsAsked
  BY DEF IdInv
<1> QED
  BY IdInit, IdStep, <1>1, PTL DEF ExchangeSpec

-----------------------------------------------------------------------------
\* A record and a table: the table takes the address, or the loops have still to come to
\* the two, later or now.
Wanted(p, t) ==
  reply.success /\ HasAddress(reply.answer[p]) /\ Fits(reply.answer[p], tables[t])
Pending(p, t) == p > pos \/ (p = pos /\ t \in left)

\* What the loops of ipsetAddIP and pfAddIP have done and have still to do.
Adding ==
  /\ reply \in ReplyType
  /\ records = IF reply.success THEN reply.answer ELSE <<>>
  /\ pos \in Nat \ {0}
  /\ left \subseteq DOMAIN tables
  /\ \A p, t : <<p, t>> \in added =>
       p \in DOMAIN reply.answer /\ t \in DOMAIN tables /\ Wanted(p, t)
  /\ added \subseteq (DOMAIN reply.answer) \X (DOMAIN tables)
  /\ \A p \in DOMAIN reply.answer, t \in DOMAIN tables :
       Wanted(p, t) => <<p, t>> \in added \cup refused \/ Pending(p, t)

AddInv ==
  /\ IdInv
  /\ at = "add" => Adding
  /\ at \notin {"add", "done"} => written.kind # "reply"
  /\ RoutedOrRefused

\* What a table takes depends on the reply and on the tables only.
LEMMA WantedSame ==
  ASSUME reply' = reply, tables' = tables, NEW p, NEW t
  PROVE  Wanted(p, t)' <=> Wanted(p, t)
BY Zenon DEF Wanted, HasAddress, Fits, ipsetFits, pfFits

\* A reply that passes the checks enters ipsetAddIP with nothing added yet.
LEMMA MatchAdds ==
  ASSUME IdInv, Match, at' = "add"
  PROVE  Adding'
<1>1. /\ BeginAdd(reply) /\ reply' = reply /\ reply \in ReplyType
  BY Zenon DEF Match, Write, IdInv, dohVars
<1>2. /\ tables' = tables /\ left' = DOMAIN tables /\ added' = {} /\ pos' = 1
      /\ records' = IF reply.success THEN reply.answer ELSE <<>>
  BY <1>1, Zenon DEF BeginAdd
<1>3. DOMAIN reply.answer \subseteq Nat \ {0}
  BY <1>1 DEF ReplyType
<1>4. \A p \in DOMAIN reply.answer, t \in DOMAIN tables : Pending(p, t)'
  BY <1>2, <1>3 DEF Pending
<1>5. pos' \in Nat \ {0}
  BY <1>2
<1> QED
  BY <1>1, <1>2, <1>4, <1>5, Zenon DEF Adding

\* Going on to the next record leaves none behind that has an address to add.
LEMMA RecordAdds ==
  ASSUME Adding, NextRecord, reply' = reply
  PROVE  Adding'
<1>1. /\ pos' = pos + 1 /\ left' = DOMAIN tables
      /\ ~HasAddress(records[pos]) \/ left = {}
      /\ UNCHANGED <<tables, records, added, refused>>
  BY Zenon DEF NextRecord
<1>2. pos \in Nat \ {0} /\ DOMAIN reply.answer \subseteq Nat
  BY DEF Adding, ReplyType
<1>3. ASSUME NEW p, NEW t PROVE Wanted(p, t)' <=> Wanted(p, t)
  BY <1>1, WantedSame, Zenon
<1>4. ASSUME NEW p \in DOMAIN reply.answer, NEW t \in DOMAIN tables, Pending(p, t), Wanted(p, t)
      PROVE  Pending(p, t)'
  <2>1. CASE p > pos
    BY <1>1, <1>2, <2>1 DEF Pending
  <2>2. CASE p = pos /\ t \in left
    BY <1>1, <1>4, <2>2, Zenon DEF Adding, Wanted
  <2> QED
    BY <1>4, <2>1, <2>2, Zenon DEF Pending
<1>5. pos' \in Nat \ {0}
  BY <1>1, <1>2
<1> QED
  BY <1>1, <1>3, <1>4, <1>5, Zenon DEF Adding

\* So does handing one address to one table, whether the table takes it or refuses.
LEMMA TableAdds ==
  ASSUME Adding, NEW t \in left, ipsetAddTo(t) \/ pfAddTo(t), reply' = reply
  PROVE  Adding'
<1>1. /\ pos <= Len(records) /\ HasAddress(records[pos])
      /\ left' = left \ {t} /\ UNCHANGED <<tables, records, pos>>
  BY Zenon DEF ipsetAddTo, pfAddTo, AtTable
<1>2. \/ ~Fits(records[pos], tables[t]) /\ added' = added /\ refused' = refused
      \/ Fits(records[pos], tables[t]) /\ added' = added \cup {<<pos, t>>} /\ refused' = refused
      \/ added' = added /\ refused' = refused \cup {<<pos, t>>}
  BY Zenon DEF ipsetAddTo, pfAddTo, Fits, Took, Failed
<1>3. pos \in Nat \ {0} /\ t \in DOMAIN tables /\ reply \in ReplyType
  BY Zenon DEF Adding
<1>4. reply.success /\ records = reply.answer /\ pos \in DOMAIN reply.answer
  <2>1. reply.answer \in Seq(Records)
    BY <1>3, Zenon DEF ReplyType
  <2>2. CASE reply.success
    <3>1. records = reply.answer
      BY <2>2, Zenon DEF Adding
    <3>2. pos \in 1 .. Len(reply.answer) /\ DOMAIN reply.answer = 1 .. Len(reply.answer)
      BY <1>1, <1>3, <2>1, <3>1
    <3> QED
      BY <2>2, <3>1, <3>2, Zenon
  <2>3. CASE ~reply.success
    <3>1. Len(records) = 0
      BY <2>3, Zenon DEF Adding
    <3> QED
      BY <1>1, <1>3, <3>1
  <2> QED
    BY <2>2, <2>3, Zenon
<1>5. Wanted(pos, t) <=> Fits(records[pos], tables[t])
  BY <1>1, <1>4, Zenon DEF Wanted
<1>6. ASSUME NEW p, NEW x PROVE Wanted(p, x)' <=> Wanted(p, x)
  BY <1>1, WantedSame, Zenon
<1>7. /\ added' \subseteq (DOMAIN reply.answer) \X (DOMAIN tables)
      /\ \A p, x : <<p, x>> \in added' =>
           p \in DOMAIN reply.answer /\ x \in DOMAIN tables /\ Wanted(p, x)
  <2>1. CASE added' = added
    BY <2>1, Zenon DEF Adding
  <2>2. CASE Fits(records[pos], tables[t]) /\ added' = added \cup {<<pos, t>>}
    <3>1. <<pos, t>> \in (DOMAIN reply.answer) \X (DOMAIN tables)
      BY <1>3, <1>4
    <3>2. ASSUME NEW p, NEW x, <<p, x>> \in added'
          PROVE  <<p, x>> \in added \/ (p = pos /\ x = t)
      BY <2>2, <3>2
    <3>3. added' \subseteq (DOMAIN reply.answer) \X (DOMAIN tables)
      BY <2>2, <3>1, Zenon DEF Adding
    <3> QED
      BY <1>3, <1>4, <1>5, <2>2, <3>2, <3>3, Zenon DEF Adding
  <2> QED
    BY <1>2, <2>1, <2>2, Zenon
<1>8. ASSUME NEW p \in DOMAIN reply.answer, NEW x \in DOMAIN tables, Wanted(p, x)
      PROVE  <<p, x>> \in added' \cup refused' \/ Pending(p, x)'
  <2>1. CASE <<p, x>> \in added \cup refused
    BY <1>2, <2>1, Zenon
  <2>2. CASE Pending(p, x) /\ ~(p = pos /\ x = t)
    BY <1>1, <2>2, Zenon DEF Pending
  <2>3. CASE p = pos /\ x = t
    BY <1>2, <1>5, <1>8, <2>3, Zenon
  <2> QED
    BY <1>8, <2>1, <2>2, <2>3, Zenon DEF Adding
<1> QED
  BY <1>1, <1>4, <1>6, <1>7, <1>8, Zenon DEF Adding

\* The exchange begins with nothing added.
LEMMA AddInvInit == ExchangeInit => AddInv
<1> SUFFICES ASSUME ExchangeInit PROVE AddInv
  OBVIOUS
<1>1. IdInv /\ at = "select"
  BY IdInit, Zenon DEF ExchangeInit
<1>2. at \notin {"add", "done"} /\ written.kind # "reply"
  BY <1>1 DEF IdInv
<1> QED
  BY <1>1, <1>2, Zenon DEF AddInv, RoutedOrRefused

\* Every step keeps the invariant of the adding loop.
LEMMA AddInvStep == AddInv /\ [ExchangeNext]_exchangeVars => AddInv'
<1> SUFFICES ASSUME AddInv, [ExchangeNext]_exchangeVars PROVE AddInv'
  BY Zenon
<1>1. IdInv /\ IdInv'
  BY IdStep, Zenon DEF AddInv
\* Steps that neither begin, go on with nor end the addition.
<1>2. ASSUME at \notin {"add", "done"}, at' \notin {"add", "done"}, written' = written
      PROVE  AddInv'
  BY <1>1, <1>2, Zenon DEF AddInv, RoutedOrRefused
<1>3. CASE Dial \/ ExchangeFails \/ Exchanged \/ dohReturn
  BY <1>2, <1>3, Zenon DEF Dial, ExchangeFails, Exchanged, dohReturn
<1>4. ASSUME NEW proto \in Protos \ {"dns"}, dohExchange(proto) PROVE AddInv'
  BY <1>2, <1>4, Zenon DEF dohExchange
<1>5. CASE GiveUp
  <2>1. written'.kind = "servfail" /\ at' = "done"
    BY <1>5, Zenon DEF GiveUp, Write
  <2> QED
    BY <1>1, <2>1, Zenon DEF AddInv, RoutedOrRefused
<1>6. CASE Match
  <2>1. CASE at' = "add"
    <3>1. Adding' /\ written' = written /\ at = "match"
      BY <1>1, <1>6, <2>1, MatchAdds, Zenon DEF Match, Write
    <3> QED
      BY <1>1, <2>1, <3>1, Zenon DEF AddInv, RoutedOrRefused
  <2>2. CASE at' # "add"
    <3>1. written'.kind = "formerr" /\ at' = "done"
      BY <1>6, <2>2 DEF Match, Write
    <3> QED
      BY <1>1, <3>1, Zenon DEF AddInv, RoutedOrRefused
  <2> QED
    BY <2>1, <2>2, Zenon
<1>7. CASE AddIPs
  <2>1. at = "add" /\ at' = at /\ written' = written /\ reply' = reply /\ Adding
    BY <1>7, Zenon DEF AddIPs, AddInv, dohVars
  <2>2. Adding'
    BY <1>7, <2>1, RecordAdds, TableAdds, Zenon DEF AddIPs
  <2>3. written.kind = "none"
    BY <1>1, <2>1, Zenon DEF IdInv
  <2> QED
    BY <1>1, <2>1, <2>2, <2>3, Zenon DEF AddInv, RoutedOrRefused
<1>8. CASE WriteReply
  <2>1. /\ at = "add" /\ at' = "done" /\ pos > Len(records) /\ Adding
        /\ reply' = reply /\ UNCHANGED addVars
    BY <1>8, Zenon DEF WriteReply, Write, AddInv, dohVars
  <2>2. ASSUME NEW p \in DOMAIN reply.answer, NEW t \in DOMAIN tables, Wanted(p, t)
        PROVE  <<p, t>> \in added \cup refused
    <3>1. reply.answer \in Seq(Records) /\ records = reply.answer /\ pos \in Nat
      BY <2>1, <2>2, Zenon DEF Adding, ReplyType, Wanted
    <3>2. ~Pending(p, t)
      BY <2>1, <3>1 DEF Pending
    <3> QED
      BY <2>1, <2>2, <3>2, Zenon DEF Adding
  <2> DEFINE wanted == {p \in (DOMAIN reply.answer) \X (DOMAIN tables) :
                          /\ reply.success /\ HasAddress(reply.answer[p[1]])
                          /\ Fits(reply.answer[p[1]], tables[p[2]])}
  <2>3. ASSUME NEW e \in added PROVE e \in wanted
    <3>1. added \subseteq (DOMAIN reply.answer) \X (DOMAIN tables)
      BY <2>1, Zenon DEF Adding
    <3>2. PICK p \in DOMAIN reply.answer, t \in DOMAIN tables : e = <<p, t>>
      BY <3>1
    <3>3. Wanted(p, t)
      BY <2>1, <3>2, Zenon DEF Adding
    <3> QED
      BY <3>2, <3>3 DEF Wanted
  <2>4. ASSUME NEW e \in wanted PROVE e \in added \cup refused
    <3>1. PICK p \in DOMAIN reply.answer, t \in DOMAIN tables : e = <<p, t>>
      OBVIOUS
    <3>2. Wanted(p, t)
      BY <3>1 DEF Wanted
    <3> QED
      BY <2>2, <3>1, <3>2, Zenon
  <2>5. RoutedOrRefused'
    BY <2>1, <2>3, <2>4, Zenon DEF RoutedOrRefused, addVars, HasAddress, Fits, ipsetFits, pfFits
  <2> QED
    BY <1>1, <2>1, <2>5, Zenon DEF AddInv
<1>9. CASE UNCHANGED exchangeVars
  <2>1. UNCHANGED <<reply, tables, records, pos, left, added, refused, at, written>>
    BY <1>9, Zenon DEF exchangeVars, dohVars, addVars
  <2>2. at = "add" => Adding'
    <3>1. \A p, t : Wanted(p, t)' <=> Wanted(p, t)
      BY <2>1, WantedSame, Zenon
    <3>2. \A p, t : Pending(p, t)' <=> Pending(p, t)
      BY <2>1, Zenon DEF Pending
    <3>3. Adding => Adding'
      BY <2>1, <3>1, <3>2, Zenon DEF Adding
    <3> QED
      BY <3>3, Zenon DEF AddInv
  <2>3. RoutedOrRefused'
    BY <2>1, Zenon DEF AddInv, RoutedOrRefused, HasAddress, Fits, ipsetFits, pfFits
  <2> QED
    BY <1>1, <2>1, <2>2, <2>3, Zenon DEF AddInv
<1> QED
  BY <1>3, <1>4, <1>5, <1>6, <1>7, <1>8, <1>9, Zenon DEF ExchangeNext

\* When the client has its reply, each record with an address is in each set and table of its
\* family, or the call for that very record and table failed, and nothing else was added: for
\* every reply, with any number of records of a type, and any number of sets and tables
\* (src/ipset_linux.go:69-116, src/pf_darwin.go:131-170).
THEOREM RoutedOrRefusedAlways == ExchangeSpec => []RoutedOrRefused
<1>1. AddInv => RoutedOrRefused
  BY Zenon DEF AddInv
<1> QED
  BY AddInvInit, AddInvStep, <1>1, PTL DEF ExchangeSpec
=============================================================================
