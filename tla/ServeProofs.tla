----------------------------- MODULE ServeProofs -----------------------------
(****************************************************************************)
(* Proofs about ServeDNS and NameList, the handling of a request and the    *)
(* lists it is looked up in.                                                *)
(*                                                                          *)
(* ServeDNS: its safety properties for any number of requests and hosts.    *)
(*                                                                          *)
(* NameList, for any contents and any number of changes of the file: the    *)
(* invariant adds that an updater between its fetch and its store holds a   *)
(* content of the server's, so what it stores has a hash other than 0.      *)
(****************************************************************************)
EXTENDS ServeDNS, NameList, TLAPS

-----------------------------------------------------------------------------
\* The handling of a request

HostTypes ==
  /\ maxFails \in {0, MaxFails}
  /\ policy \in Policies
  /\ spray \in BOOLEAN
  /\ checking \in BOOLEAN
  /\ alive \in [Hosts -> BOOLEAN]
  /\ fails \in [Hosts -> Int]
  /\ timers \in [Hosts -> 0..MaxTimers]
  /\ cache \in [Hosts -> 0..MaxCache]
  /\ spotless \in [Hosts -> BOOLEAN]

RequestTypes ==
  /\ pc \in [Requests -> PCs]
  /\ tries \in [Requests -> 0..MaxRetry + 1]
  /\ host \in [Requests -> Hosts \cup {NoHost}]
  /\ cached \in [Requests -> BOOLEAN]
  /\ err \in [Requests -> BOOLEAN]
  /\ routed \in [Requests -> BOOLEAN]
  /\ written \in [Requests -> {<<>>, <<"formerr">>, <<"reply">>}]
  /\ ret \in [Requests -> Results]

\* The counter of a host, and the sleeping goroutines that will still lower it.
HostOK(h) ==
  /\ fails[h] >= timers[h] - MaxTimers
  /\ fails[h] <= FailCap + timers[h]
  /\ spotless[h] => alive[h] /\ fails[h] <= 0

\* What a request has done, by where it is.
RequestOK(r) ==
  /\ pc[r] # "done" => written[r] = <<>>
  /\ pc[r] = "done" => tries[r] = 0
  /\ pc[r] # "select" => tries[r] <= MaxRetry
  /\ pc[r] \in {"dial", "exchange"} => host[r] \in Hosts
  /\ pc[r] = "write" => routed[r]
  /\ pc[r] = "loop" => err[r] \/ tries[r] = 0
  /\ pc[r] = "select" => err[r] \/ tries[r] = 1
  /\ pc[r] = "done" /\ ret[r] = "success" => written[r] # <<>>
  /\ pc[r] = "done" /\ ret[r] # "success" => written[r] = <<>>
  /\ written[r] = <<"reply">> => routed[r]

ServeInv ==
  /\ HostTypes
  /\ RequestTypes
  /\ \A h \in Hosts : HostOK(h)
  /\ \A r \in Requests : RequestOK(r)

\* ServeDNS begins with the invariant.
LEMMA ServeInvInit == ServeInit => ServeInv
<1> SUFFICES ASSUME ServeInit PROVE ServeInv
  OBVIOUS
<1>1. HostTypes
  BY ServeAssumption DEF ServeInit, HostTypes
<1>2. RequestTypes
  BY ServeAssumption DEF ServeInit, RequestTypes, PCs, Results
<1>3. \A h \in Hosts : HostOK(h)
  BY ServeAssumption DEF ServeInit, HostOK, FailCap
<1>4. \A r \in Requests : RequestOK(r)
  <2>1. \A r \in Requests : tries[r] = 0
    BY Zenon DEF ServeInit
  <2>2. 0 <= MaxRetry
    BY ServeAssumption
  <2> QED
    BY <2>1, <2>2, Zenon DEF ServeInit, RequestOK
<1> QED
  BY <1>1, <1>2, <1>3, <1>4 DEF ServeInv

-----------------------------------------------------------------------------
\* The steps of hosts, health checks and goroutines leave every request alone.
LEMMA HostStepInv ==
  ASSUME ServeInv, NEW h \in Hosts,
         Flip(h) \/ Check(h) \/ TimerFire(h) \/ Expire(h) \/ Refill(h)
  PROVE  ServeInv'
<1>1. UNCHANGED requestVars /\ UNCHANGED config
  BY DEF Flip, Check, TimerFire, Expire, Refill
<1>2. RequestTypes' /\ \A r \in Requests : RequestOK(r)'
  BY <1>1 DEF ServeInv, requestVars, RequestTypes, RequestOK
<1>3. HostTypes /\ HostOK(h)
  BY DEF ServeInv
<1>4. ASSUME NEW x \in Hosts, x # h PROVE HostOK(x)'
  <2>1. fails'[x] = fails[x] /\ timers'[x] = timers[x] /\ spotless'[x] = spotless[x] /\ alive'[x] = alive[x]
    BY <1>3, <1>4 DEF Flip, Check, TimerFire, Expire, Refill, HostTypes
  <2> QED
    BY <2>1 DEF ServeInv, HostOK
<1>5. ASSUME Flip(h) PROVE HostTypes' /\ HostOK(h)'
  BY <1>1, <1>3, <1>5 DEF Flip, HostTypes, HostOK, config
<1>6. ASSUME Check(h) PROVE HostTypes' /\ HostOK(h)'
  BY <1>1, <1>3, <1>6, ServeAssumption DEF Check, Checked, HostTypes, HostOK, config, FailCap
<1>7. ASSUME TimerFire(h) PROVE HostTypes' /\ HostOK(h)'
  <2>1. timers[h] \in 1 .. MaxTimers /\ timers' = [timers EXCEPT ![h] = @ - 1]
    BY <1>3, <1>7, ServeAssumption DEF TimerFire, HostTypes
  <2>2. /\ alive' = alive /\ cache' = cache /\ spotless' = spotless
    BY <1>7 DEF TimerFire
  <2>3. PICK n \in Int : /\ fails' = [fails EXCEPT ![h] = n]
                         /\ \/ n = fails[h] - 1
                            \/ n = 0 /\ alive[h]
                            \/ n = fails[h] /\ ~alive[h] /\ fails[h] <= FailCap
    BY <1>3, <1>7 DEF TimerFire, Checked, HostTypes
  <2>4. HostTypes'
    BY <1>1, <1>3, <2>1, <2>2, <2>3, ServeAssumption DEF HostTypes, config
  <2>5. fails'[h] = n /\ timers'[h] = timers[h] - 1
    BY <1>3, <2>1, <2>3 DEF HostTypes
  <2>6. fails[h] \in Int /\ MaxTimers \in Nat /\ FailCap \in Nat
    BY <1>3, ServeAssumption DEF HostTypes, FailCap
  <2>7. HostOK(h)'
    BY <1>3, <2>1, <2>2, <2>3, <2>5, <2>6 DEF HostOK, FailCap
  <2> QED
    BY <2>4, <2>7
<1>8. ASSUME Expire(h) \/ Refill(h) PROVE HostTypes' /\ HostOK(h)'
  <2>1. /\ UNCHANGED <<alive, fails, timers, spotless>>
        /\ cache' \in [Hosts -> 0..MaxCache]
    BY <1>3, <1>8, ServeAssumption DEF Expire, Refill, HostTypes
  <2> QED
    BY <1>1, <1>3, <2>1 DEF HostTypes, HostOK, config
<1> QED
  BY <1>2, <1>4, <1>5, <1>6, <1>7, <1>8 DEF ServeInv

-----------------------------------------------------------------------------
RequestAction(r) == Pass(r) \/ Receive(r) \/ RequestStep(r)

\* The part of the state that belongs to one request.
RequestSame(q) ==
  /\ pc'[q] = pc[q] /\ tries'[q] = tries[q] /\ host'[q] = host[q]
  /\ err'[q] = err[q] /\ routed'[q] = routed[q]
  /\ written'[q] = written[q] /\ ret'[q] = ret[q]

\* A step of one request leaves the others alone, ...
LEMMA OthersUntouched ==
  ASSUME ServeInv, NEW r \in Requests, RequestAction(r), NEW q \in Requests, q # r
  PROVE  RequestSame(q)
<1>1. RequestTypes
  BY DEF ServeInv
<1>2. CASE Selected(r)
  BY <1>1, <1>2 DEF RequestSame, Selected, Return, RequestTypes
<1>3. CASE Pass(r)
  BY <1>1, <1>3 DEF RequestSame, Pass, Return, RequestTypes
<1>4. CASE Receive(r)
  BY <1>1, <1>4 DEF RequestSame, Receive, RequestTypes
<1>5. CASE Try(r)
  BY <1>1, <1>5 DEF RequestSame, Try, RequestTypes
<1>6. CASE GiveUp(r)
  BY <1>1, <1>6 DEF RequestSame, GiveUp, Return, RequestTypes
<1>7. CASE Dial(r)
  BY <1>1, <1>7 DEF RequestSame, Dial, RequestTypes
<1>8. CASE CachedClosed(r)
  BY <1>1, <1>8 DEF RequestSame, CachedClosed, RequestTypes
<1>9. CASE Fail(r)
  BY <1>1, <1>9 DEF RequestSame, Fail, NextIteration, RequestTypes
<1>10. CASE Answer(r)
  BY <1>1, <1>10 DEF RequestSame, Answer, RequestTypes
<1>11. CASE WrongReply(r)
  BY <1>1, <1>11 DEF RequestSame, WrongReply, Return, RequestTypes
<1>12. CASE AddIPs(r)
  BY <1>1, <1>12 DEF RequestSame, AddIPs, RequestTypes
<1>13. CASE WriteReply(r)
  BY <1>1, <1>13 DEF RequestSame, WriteReply, Return, RequestTypes
<1> QED
  BY <1>2, <1>3, <1>4, <1>5, <1>6, <1>7, <1>8, <1>9, <1>10, <1>11, <1>12, <1>13 DEF RequestAction, RequestStep

\* ... and so their part of the invariant.
LEMMA OthersSame ==
  ASSUME ServeInv, NEW r \in Requests, RequestAction(r), NEW q \in Requests, q # r
  PROVE  RequestOK(q)'
BY OthersUntouched DEF ServeInv, RequestOK, RequestSame

\* Most steps of a request leave the hosts alone.
LEMMA HostsSame ==
  ASSUME ServeInv, UNCHANGED <<config, hostVars>>
  PROVE  HostTypes' /\ \A h \in Hosts : HostOK(h)'
BY DEF ServeInv, HostTypes, HostOK, config, hostVars

\* What the steps of a request do to it.
LEMMA OwnStep ==
  ASSUME ServeInv, NEW r \in Requests, RequestAction(r)
  PROVE  RequestTypes' /\ RequestOK(r)'
<1> USE ServeAssumption DEF PCs, Results
<1>1. RequestTypes /\ RequestOK(r) /\ HostTypes
  BY DEF ServeInv
<1>2. CASE Try(r)
  <2>1. RequestTypes'
    BY <1>1, <1>2 DEF Try, RequestTypes, RequestOK
  <2>2. RequestOK(r)'
    BY <1>1, <1>2 DEF Try, RequestTypes, RequestOK
  <2> QED
    BY <2>1, <2>2
<1>3. CASE Pass(r)
  <2>1. RequestTypes'
    BY <1>1, <1>3 DEF Pass, Return, RequestTypes, RequestOK
  <2>2. RequestOK(r)'
    BY <1>1, <1>3 DEF Pass, Return, RequestTypes, RequestOK
  <2> QED
    BY <2>1, <2>2
<1>4. CASE Receive(r)
  <2>1. RequestTypes'
    BY <1>1, <1>4 DEF Receive, RequestTypes, RequestOK
  <2>2. RequestOK(r)'
    BY <1>1, <1>4 DEF Receive, RequestTypes, RequestOK
  <2> QED
    BY <2>1, <2>2
<1>5. CASE GiveUp(r)
  <2>1. RequestTypes'
    BY <1>1, <1>5 DEF GiveUp, Return, RequestTypes, RequestOK
  <2>2. RequestOK(r)'
    BY <1>1, <1>5 DEF GiveUp, Return, RequestTypes, RequestOK
  <2> QED
    BY <2>1, <2>2
<1>6. CASE Dial(r)
  <2>1. RequestTypes'
    BY <1>1, <1>6 DEF Dial, RequestTypes, RequestOK
  <2>2. RequestOK(r)'
    BY <1>1, <1>6 DEF Dial, RequestTypes, RequestOK
  <2> QED
    BY <2>1, <2>2
<1>7. CASE CachedClosed(r)
  <2>1. RequestTypes'
    BY <1>1, <1>7 DEF CachedClosed, RequestTypes, RequestOK
  <2>2. RequestOK(r)'
    BY <1>1, <1>7 DEF CachedClosed, RequestTypes, RequestOK
  <2> QED
    BY <2>1, <2>2
<1>8. CASE Fail(r)
  <2>1. RequestTypes'
    BY <1>1, <1>8 DEF Fail, NextIteration, RequestTypes, RequestOK
  <2>2. RequestOK(r)'
    BY <1>1, <1>8 DEF Fail, NextIteration, RequestTypes, RequestOK
  <2> QED
    BY <2>1, <2>2
<1>9. CASE Answer(r)
  <2>1. RequestTypes'
    BY <1>1, <1>9 DEF Answer, RequestTypes, RequestOK
  <2>2. RequestOK(r)'
    BY <1>1, <1>9 DEF Answer, RequestTypes, RequestOK
  <2> QED
    BY <2>1, <2>2
<1>10. CASE WrongReply(r)
  <2>1. pc[r] = "wrong" /\ Return(r, "success") /\ UNCHANGED routed
    BY <1>10 DEF WrongReply
  <2>2. written' = [written EXCEPT ![r] = <<"formerr">>]
    <3>1. written[r] = <<>>
      BY <1>1, <2>1 DEF RequestOK
    <3>2. Append(<<>>, "formerr") = <<"formerr">>
      OBVIOUS
    <3> QED
      BY <1>10, <3>1, <3>2 DEF WrongReply
  <2>3. RequestTypes'
    BY <1>1, <2>1, <2>2 DEF Return, RequestTypes
  <2>4. RequestOK(r)'
    BY <1>1, <2>1, <2>2 DEF Return, RequestTypes, RequestOK
  <2> QED
    BY <2>3, <2>4
<1>11. CASE AddIPs(r)
  <2>1. RequestTypes'
    BY <1>1, <1>11 DEF AddIPs, RequestTypes, RequestOK
  <2>2. RequestOK(r)'
    BY <1>1, <1>11 DEF AddIPs, RequestTypes, RequestOK
  <2> QED
    BY <2>1, <2>2
<1>12. CASE WriteReply(r)
  <2>1. pc[r] = "write" /\ Return(r, "success") /\ UNCHANGED routed
    BY <1>12 DEF WriteReply
  <2>2. written' = [written EXCEPT ![r] = <<"reply">>]
    <3>1. written[r] = <<>>
      BY <1>1, <2>1 DEF RequestOK
    <3>2. Append(<<>>, "reply") = <<"reply">>
      OBVIOUS
    <3> QED
      BY <1>12, <3>1, <3>2 DEF WriteReply
  <2>3. RequestTypes'
    BY <1>1, <2>1, <2>2 DEF Return, RequestTypes
  <2>4. RequestOK(r)'
    BY <1>1, <2>1, <2>2 DEF Return, RequestTypes, RequestOK
  <2> QED
    BY <2>3, <2>4
<1>13. CASE Selected(r)
  <2>1. PICK h \in Select!Promised(r) :
          IF h = NoHost \/ tries[r] > MaxRetry
            THEN Return(r, "no_healthy")
            ELSE /\ host' = [host EXCEPT ![r] = h]
                 /\ pc' = [pc EXCEPT ![r] = "dial"]
                 /\ UNCHANGED <<tries, cached, err, ret>>
    BY <1>13 DEF Selected
  <2>2. h \in Hosts \cup {NoHost}
    BY <2>1 DEF Select!Promised, Select!Seen
  <2>3. /\ pc[r] = "select" /\ UNCHANGED <<routed, written>>
        /\ tries[r] \in 0 .. MaxRetry + 1
    BY <1>1, <1>13 DEF Selected, RequestTypes, RequestOK
  <2>4. CASE h = NoHost \/ tries[r] > MaxRetry
    <3>1. Return(r, "no_healthy")
      BY <2>1, <2>4
    <3>2. RequestTypes'
      BY <1>1, <2>3, <3>1 DEF Return, RequestTypes
    <3>3. RequestOK(r)'
      BY <1>1, <2>3, <3>1 DEF Return, RequestTypes, RequestOK
    <3> QED
      BY <3>2, <3>3
  <2>5. CASE ~(h = NoHost \/ tries[r] > MaxRetry)
    <3>1. /\ host' = [host EXCEPT ![r] = h] /\ pc' = [pc EXCEPT ![r] = "dial"]
          /\ UNCHANGED <<tries, cached, err, ret>> /\ h \in Hosts /\ tries[r] <= MaxRetry
      BY <2>1, <2>2, <2>3, <2>5
    <3>2. RequestTypes'
      BY <1>1, <2>3, <3>1 DEF RequestTypes
    <3>3. RequestOK(r)'
      BY <1>1, <2>3, <3>1 DEF RequestTypes, RequestOK
    <3> QED
      BY <3>2, <3>3
  <2> QED
    BY <2>4, <2>5
<1> QED
  BY <1>2, <1>3, <1>4, <1>5, <1>6, <1>7, <1>8, <1>9, <1>10, <1>11, <1>12, <1>13 DEF RequestAction, RequestStep

\* What they do to the hosts: Dial and Answer change the cache, Fail raises the counter
\* of a host, which is spotless no more.
LEMMA HostsOfStep ==
  ASSUME ServeInv, NEW r \in Requests, RequestAction(r)
  PROVE  HostTypes' /\ \A h \in Hosts : HostOK(h)'
<1> USE ServeAssumption
<1>1. /\ HostTypes /\ RequestTypes /\ RequestOK(r)
      /\ \A h \in Hosts : HostOK(h)
  BY DEF ServeInv
<1>2. CASE Dial(r) \/ Answer(r)
  <2>1. UNCHANGED <<maxFails, policy, spray, checking, alive, fails, timers, spotless>>
    BY <1>2 DEF Dial, Answer, config
  <2>2. host[r] \in Hosts
    BY <1>1, <1>2 DEF Dial, Answer, RequestOK
  <2>3. cache' \in [Hosts -> 0..MaxCache]
    BY <1>1, <1>2, <2>2 DEF Dial, Answer, HostTypes
  <2> QED
    BY <1>1, <2>1, <2>3 DEF HostTypes, HostOK
<1>3. CASE Fail(r)
  <2> DEFINE x == host[r]
  <2>1. /\ UNCHANGED <<maxFails, policy, spray, checking, alive, cache>>
        /\ spotless' = [spotless EXCEPT ![x] = FALSE]
        /\ \/ UNCHANGED <<fails, timers>>
           \/ /\ timers[x] < MaxTimers
              /\ fails' = [fails EXCEPT ![x] = @ + 1]
              /\ timers' = [timers EXCEPT ![x] = @ + 1]
    BY <1>3 DEF Fail, config
  <2>2. x \in Hosts
    BY <1>1, <1>3 DEF Fail, RequestOK
  <2> HIDE DEF x
  <2>3. CASE UNCHANGED <<fails, timers>>
    BY <1>1, <2>1, <2>3 DEF HostTypes, HostOK
  <2>4. CASE /\ timers[x] < MaxTimers
             /\ fails' = [fails EXCEPT ![x] = @ + 1]
             /\ timers' = [timers EXCEPT ![x] = @ + 1]
    <3>1. HostTypes'
      BY <1>1, <2>1, <2>2, <2>4 DEF HostTypes
    <3>2. ASSUME NEW h \in Hosts PROVE HostOK(h)'
      <4>1. CASE h = x
        BY <1>1, <2>1, <2>2, <2>4, <4>1 DEF HostTypes, HostOK, FailCap
      <4>2. CASE h # x
        BY <1>1, <2>1, <2>2, <2>4, <4>2 DEF HostTypes, HostOK
      <4> QED
        BY <4>1, <4>2
    <3> QED
      BY <3>1, <3>2
  <2> QED
    BY <2>1, <2>3, <2>4
<1>4. CASE ~(Dial(r) \/ Answer(r) \/ Fail(r))
  <2>1. UNCHANGED <<config, hostVars>>
    BY <1>4 DEF RequestAction, RequestStep, Pass, Receive, Try, Selected, GiveUp, CachedClosed,
                WrongReply, AddIPs, WriteReply
  <2> QED
    BY <2>1, HostsSame, Zenon
<1> QED
  BY <1>2, <1>3, <1>4, Zenon

\* Every step of a request, a check or a timer keeps the invariant.
LEMMA ServeInvStep == ServeInv /\ [ServeNext]_vars => ServeInv'
<1> SUFFICES ASSUME ServeInv, [ServeNext]_vars PROVE ServeInv'
  OBVIOUS
<1>1. ASSUME NEW r \in Requests, RequestAction(r) PROVE ServeInv'
  <2>1. \A q \in Requests : RequestOK(q)'
    BY <1>1, OwnStep, OthersSame
  <2> QED
    BY <1>1, <2>1, OwnStep, HostsOfStep DEF ServeInv
<1>2. CASE UNCHANGED vars
  <2>1. UNCHANGED <<config, hostVars>> /\ UNCHANGED requestVars
    BY <1>2 DEF vars
  <2>2. RequestTypes' /\ \A r \in Requests : RequestOK(r)'
    BY <2>1 DEF ServeInv, requestVars, RequestTypes, RequestOK
  <2> QED
    BY <2>1, <2>2, HostsSame DEF ServeInv
<1> QED
  BY <1>1, <1>2, HostStepInv DEF ServeNext, RequestAction

\* The invariant always holds.
LEMMA ServeInvAlways == ServeSpec => []ServeInv
BY ServeInvInit, ServeInvStep, PTL DEF ServeSpec

-----------------------------------------------------------------------------
\* A host that has always answered counts as up all through every call of Select.
SteadyInv ==
  /\ steadyUp \in [Requests -> SUBSET Hosts]
  /\ steadyDown \in [Requests -> SUBSET Hosts]
  /\ \A r \in Requests, h \in Hosts : pc[r] = "select" /\ spotless[h] => h \in steadyUp[r]

\* ServeDNS begins with it: nothing is being selected.
LEMMA SteadyInvInit == ServeInit => SteadyInv
BY Zenon DEF ServeInit, SteadyInv

\* The counter of a host that has always answered is 0 or less.
LEMMA SpotlessIn ==
  ASSUME ServeInv, NEW h \in Hosts, spotless[h]
  PROVE  h \in Up
BY ServeAssumption DEF ServeInv, HostTypes, HostOK, Up, Down

\* A step that changes counters keeps it, what ends a call of Select or begins none too.
LEMMA SteadyTurn ==
  ASSUME SteadyInv, ServeInv', HostsTurn,
         \A h \in Hosts : spotless'[h] => spotless[h],
         \A r \in Requests : pc'[r] = "select" => pc[r] = "select"
  PROVE  SteadyInv'
<1>1. ASSUME NEW h \in Hosts, spotless'[h] PROVE h \in Up'
  BY <1>1, ServeAssumption DEF ServeInv, HostTypes, HostOK, Up, Down
<1>2. /\ steadyUp' \in [Requests -> SUBSET Hosts]
      /\ steadyDown' \in [Requests -> SUBSET Hosts]
      /\ \A r \in Requests : steadyUp'[r] = steadyUp[r] \cap Up'
  BY Zenon DEF SteadyInv, HostsTurn
<1> QED
  BY <1>1, <1>2, Zenon DEF SteadyInv

\* So does one that leaves the calls of Select alone.
LEMMA SteadyKept ==
  ASSUME SteadyInv, UNCHANGED selectVars,
         \A h \in Hosts : spotless'[h] => spotless[h],
         \A r \in Requests : pc'[r] = "select" => pc[r] = "select"
  PROVE  SteadyInv'
BY Zenon DEF SteadyInv, selectVars

\* Every step keeps it.
LEMMA SteadyInvStep == ServeInv /\ ServeInv' /\ SteadyInv /\ [ServeNext]_vars => SteadyInv'
<1> SUFFICES ASSUME ServeInv, ServeInv', SteadyInv, [ServeNext]_vars PROVE SteadyInv'
  OBVIOUS
<1>1. HostTypes /\ RequestTypes
  BY DEF ServeInv
<1>2. ASSUME NEW h \in Hosts, Check(h) \/ TimerFire(h) PROVE SteadyInv'
  <2>1. HostsTurn /\ UNCHANGED spotless /\ UNCHANGED requestVars
    BY <1>2 DEF Check, TimerFire
  <2> QED
    BY <2>1, SteadyTurn DEF requestVars
<1>3. ASSUME NEW h \in Hosts, Flip(h) \/ Expire(h) \/ Refill(h) PROVE SteadyInv'
  <2>1. UNCHANGED selectVars /\ UNCHANGED requestVars
    BY <1>3 DEF Flip, Expire, Refill
  <2>2. \A x \in Hosts : spotless'[x] => spotless[x]
    BY <1>1, <1>3 DEF Flip, Expire, Refill, HostTypes
  <2> QED
    BY <2>1, <2>2, SteadyKept DEF requestVars
<1>4. ASSUME NEW r \in Requests, Fail(r) PROVE SteadyInv'
  <2>1. /\ HostsTurn /\ pc' = [pc EXCEPT ![r] = "loop"]
        /\ spotless' = [spotless EXCEPT ![host[r]] = FALSE]
    BY <1>4 DEF Fail, NextIteration
  <2>2. \A q \in Requests : pc'[q] = "select" => pc[q] = "select"
    BY <1>1, <2>1 DEF RequestTypes
  <2>3. \A h \in Hosts : spotless'[h] => spotless[h]
    BY <1>1, <2>1 DEF HostTypes
  <2> QED
    BY <2>1, <2>2, <2>3, SteadyTurn
<1>5. ASSUME NEW r \in Requests, Try(r) PROVE SteadyInv'
  <2>1. /\ pc' = [pc EXCEPT ![r] = "select"] /\ UNCHANGED spotless
        /\ steadyUp' = [steadyUp EXCEPT ![r] = Up]
        /\ steadyDown' = [steadyDown EXCEPT ![r] = Hosts \ Up]
    BY <1>5 DEF Try, hostVars
  <2>2. Up \subseteq Hosts
    BY DEF Up
  <2>3. steadyUp' \in [Requests -> SUBSET Hosts] /\ steadyDown' \in [Requests -> SUBSET Hosts]
    BY <2>1, <2>2 DEF SteadyInv
  <2>4. ASSUME NEW q \in Requests, NEW h \in Hosts, pc'[q] = "select", spotless'[h]
        PROVE  h \in steadyUp'[q]
    <3>1. CASE q = r
      BY <2>1, <2>4, <3>1, SpotlessIn DEF SteadyInv
    <3>2. CASE q # r
      BY <1>1, <2>1, <2>4, <3>2 DEF SteadyInv, RequestTypes
    <3> QED
      BY <3>1, <3>2
  <2> QED
    BY <2>3, <2>4 DEF SteadyInv
<1>6. ASSUME NEW r \in Requests, Selected(r) PROVE SteadyInv'
  <2>1. /\ UNCHANGED spotless
        /\ steadyUp' = [steadyUp EXCEPT ![r] = {}]
        /\ steadyDown' = [steadyDown EXCEPT ![r] = {}]
        /\ pc' = [pc EXCEPT ![r] = "done"] \/ pc' = [pc EXCEPT ![r] = "dial"]
    BY <1>6 DEF Selected, Return, hostVars
  <2>2. steadyUp' \in [Requests -> SUBSET Hosts] /\ steadyDown' \in [Requests -> SUBSET Hosts]
    BY <2>1 DEF SteadyInv
  <2>3. ASSUME NEW q \in Requests, pc'[q] = "select"
        PROVE  pc[q] = "select" /\ steadyUp'[q] = steadyUp[q]
    BY <1>1, <2>1, <2>3 DEF RequestTypes, SteadyInv
  <2> QED
    BY <2>1, <2>2, <2>3, Zenon DEF SteadyInv
<1>7. ASSUME NEW r \in Requests, RequestAction(r), ~Fail(r), ~Try(r), ~Selected(r)
      PROVE  SteadyInv'
  <2>1. \/ Pass(r) \/ Receive(r) \/ GiveUp(r) \/ Dial(r) \/ CachedClosed(r) \/ Answer(r)
        \/ WrongReply(r) \/ AddIPs(r) \/ WriteReply(r)
    BY <1>7, Zenon DEF RequestAction, RequestStep
  <2>4. UNCHANGED selectVars /\ UNCHANGED spotless
    BY <2>1, Zenon DEF Pass, Receive, GiveUp, Dial, CachedClosed, Answer, WrongReply, AddIPs,
                       WriteReply, hostVars
  <2>2. PICK to \in PCs \ {"select"} : pc' = [pc EXCEPT ![r] = to]
    BY <2>1, Zenon DEF Pass, Receive, GiveUp, Dial, CachedClosed, Answer, WrongReply, AddIPs,
                       WriteReply, Return, PCs
  <2>3. \A q \in Requests : pc'[q] = "select" => pc[q] = "select"
    BY <1>1, <2>2 DEF RequestTypes
  <2> QED
    BY <2>3, <2>4, SteadyKept, Zenon
<1>8. CASE UNCHANGED vars
  BY <1>8, SteadyKept, Zenon DEF vars, hostVars, requestVars
<1> QED
  BY <1>2, <1>3, <1>4, <1>5, <1>6, <1>7, <1>8 DEF ServeNext, RequestAction

\* Both invariants always hold.
LEMMA SteadyInvAlways == ServeSpec => []SteadyInv
BY SteadyInvInit, SteadyInvStep, ServeInvAlways, PTL DEF ServeSpec

-----------------------------------------------------------------------------
\* Type correctness, with the bounds of counters and tries, for any number of requests
\* and hosts.
THEOREM ServeTypeCorrect == ServeSpec => []ServeTypeOK
<1>1. ServeInv /\ SteadyInv => ServeTypeOK
  <2> SUFFICES ASSUME ServeInv, SteadyInv PROVE ServeTypeOK
    OBVIOUS
  <2>1. ASSUME NEW h \in Hosts PROVE fails[h] \in (-MaxTimers)..(FailCap + MaxTimers)
    BY ServeAssumption DEF ServeInv, HostTypes, HostOK, FailCap
  <2>2. fails \in [Hosts -> (-MaxTimers)..(FailCap + MaxTimers)]
    BY <2>1 DEF ServeInv, HostTypes
  <2> QED
    BY <2>2 DEF ServeInv, SteadyInv, HostTypes, RequestTypes, ServeTypeOK
<1> QED
  BY <1>1, ServeInvAlways, SteadyInvAlways, PTL

\* ServeDNS writes exactly one message when it returns RcodeSuccess and none otherwise.
THEOREM OneAnswerAlways == ServeSpec => []OneAnswer
<1>1. ServeInv => OneAnswer
  <2> SUFFICES ASSUME ServeInv, NEW r \in Requests, pc[r] = "done"
               PROVE  Len(written[r]) = IF ret[r] = "success" THEN 1 ELSE 0
    BY Zenon DEF OneAnswer
  <2>1. written[r] \in {<<>>, <<"formerr">>, <<"reply">>}
    BY DEF ServeInv, RequestTypes
  <2>2. (ret[r] = "success") <=> written[r] # <<>>
    BY DEF ServeInv, RequestOK
  <2>3. Len(<<>>) = 0 /\ Len(<<"formerr">>) = 1 /\ Len(<<"reply">>) = 1
    OBVIOUS
  <2> QED
    BY <2>1, <2>2, <2>3, Zenon
<1> QED
  BY <1>1, ServeInvAlways, PTL

\* A client that has the reply finds its addresses in ipset and pf (src/dnsredir.go:122-127).
THEOREM RoutedFirstAlways == ServeSpec => []RoutedFirst
<1>1. ServeInv => RoutedFirst
  BY DEF ServeInv, RequestOK, RoutedFirst
<1> QED
  BY <1>1, ServeInvAlways, PTL

\* A host that has always answered is never down, whatever requests and health checks meet.
THEOREM SpotlessUpAlways == ServeSpec => []SpotlessUp
<1>1. ServeInv => SpotlessUp
  BY SpotlessIn, Zenon DEF SpotlessUp, Up
<1> QED
  BY <1>1, ServeInvAlways, PTL

\* A request ends in one of four steps.
LEMMA Ends ==
  ASSUME ServeInv, [ServeNext]_vars, NEW r \in Requests, pc[r] # "done", pc'[r] = "done"
  PROVE  Selected(r) \/ GiveUp(r) \/ WrongReply(r) \/ WriteReply(r)
<1>1. RequestTypes
  BY DEF ServeInv
<1>2. CASE UNCHANGED requestVars
  BY <1>2 DEF requestVars
<1>3. ASSUME NEW q \in Requests, q # r, RequestAction(q) PROVE FALSE
  <2>1. pc'[r] = pc[r]
    BY <1>3, OthersUntouched DEF RequestSame
  <2> QED
    BY <2>1
<1>4. ASSUME NEW h \in Hosts, Flip(h) \/ Check(h) \/ TimerFire(h) \/ Expire(h) \/ Refill(h)
      PROVE  UNCHANGED requestVars
  BY <1>4 DEF Flip, Check, TimerFire, Expire, Refill
<1>5. ASSUME RequestAction(r), ~(Selected(r) \/ GiveUp(r) \/ WrongReply(r) \/ WriteReply(r))
      PROVE  FALSE
  <2>1. ~Pass(r)
    BY Zenon DEF Pass
  <2>3. \/ Receive(r) \/ Try(r) \/ Dial(r) \/ CachedClosed(r) \/ Fail(r) \/ Answer(r)
        \/ AddIPs(r)
    BY <1>5, <2>1, Zenon DEF RequestAction, RequestStep
  <2>2. PICK to \in PCs \ {"done"} : pc' = [pc EXCEPT ![r] = to]
    BY <2>3, Zenon DEF Receive, Try, Dial, CachedClosed, Fail, NextIteration, Answer, AddIPs, PCs
  <2> QED
    BY <1>1, <2>2 DEF RequestTypes
<1> QED
  BY <1>2, <1>3, <1>4, <1>5, Zenon DEF ServeNext, RequestAction, vars

\* The panic of ServeDNS is out of reach of a request that has tried a host
\* (src/dnsredir.go:139).
THEOREM PanicOnlyUntriedAlways == ServeSpec => PanicOnlyUntried
<1>1. ServeInv /\ [ServeNext]_vars =>
        [\A r \in Requests :
           pc[r] # "done" /\ pc'[r] = "done" /\ ret'[r] = "panic" => tries[r] = 0]_vars
  <2> SUFFICES ASSUME ServeInv, [ServeNext]_vars, NEW r \in Requests,
                      pc[r] # "done", pc'[r] = "done", ret'[r] = "panic"
               PROVE  tries[r] = 0
    BY Zenon
  <2>1. RequestTypes /\ RequestOK(r)
    BY Zenon DEF ServeInv
  <2>2. CASE Selected(r)
    <3>1. ret' = [ret EXCEPT ![r] = "no_healthy"] \/ pc' = [pc EXCEPT ![r] = "dial"]
      BY <2>2 DEF Selected, Return
    <3> QED
      BY <2>1, <3>1 DEF RequestTypes
  <2>3. CASE WrongReply(r) \/ WriteReply(r)
    <3>1. ret' = [ret EXCEPT ![r] = "success"]
      BY <2>3 DEF WrongReply, WriteReply, Return
    <3> QED
      BY <2>1, <3>1 DEF RequestTypes
  <2>4. CASE GiveUp(r)
    BY <2>1, <2>4 DEF GiveUp, Return, RequestTypes, RequestOK
  <2> QED
    BY <2>2, <2>3, <2>4, Ends, Zenon
<1> QED
  BY <1>1, ServeInvAlways, PTL DEF ServeSpec, PanicOnlyUntried

\* "no healthy upstream host" is returned only after max_retry failed tries, or, without
\* spray, when no host was up all through the call of Select, none that has always
\* answered in particular, or round robin met a change (src/dnsredir.go:81-89).
THEOREM RefusedForCauseAlways == ServeSpec => RefusedForCause
<1> DEFINE Cause(r) ==
      \/ tries[r] = MaxRetry + 1 /\ (err[r] \/ MaxRetry = 0)
      \/ ~spray /\ steadyUp[r] = {} /\ \A h \in Hosts : ~spotless[h]
      \/ /\ ~spray /\ policy = "round_robin"
         /\ steadyUp[r] \cup steadyDown[r] # Hosts
<1>1. ServeInv /\ SteadyInv /\ [ServeNext]_vars =>
        [\A r \in Requests :
           pc[r] # "done" /\ pc'[r] = "done" /\ ret'[r] = "no_healthy" => Cause(r)]_vars
  <2> SUFFICES ASSUME ServeInv, SteadyInv, [ServeNext]_vars, NEW r \in Requests,
                      pc[r] # "done", pc'[r] = "done", ret'[r] = "no_healthy"
               PROVE  Cause(r)
    OBVIOUS
  <2>1. RequestTypes /\ RequestOK(r)
    BY DEF ServeInv
  <2>2. Selected(r)
    <3>1. CASE WrongReply(r) \/ WriteReply(r)
      <4>1. ret' = [ret EXCEPT ![r] = "success"]
        BY <3>1 DEF WrongReply, WriteReply, Return
      <4> QED
        BY <2>1, <4>1 DEF RequestTypes
    <3>2. CASE GiveUp(r)
      BY <2>1, <3>2 DEF GiveUp, Return, RequestTypes
    <3> QED
      BY <3>1, <3>2, Ends, Zenon
  <2>3. PICK h \in Select!Promised(r) :
          IF h = NoHost \/ tries[r] > MaxRetry
            THEN Return(r, "no_healthy")
            ELSE pc' = [pc EXCEPT ![r] = "dial"]
    BY <2>2 DEF Selected
  <2>4. h = NoHost \/ tries[r] > MaxRetry
    BY <2>1, <2>3 DEF RequestTypes
  <2>5. CASE tries[r] > MaxRetry
    <3>1. tries[r] \in 0 .. MaxRetry + 1 /\ (err[r] \/ tries[r] = 1)
      BY <2>1, <2>2 DEF Selected, RequestTypes, RequestOK
    <3> QED
      BY <2>5, <3>1, ServeAssumption
  <2>6. CASE h = NoHost
    <3>1. NoHost \notin Hosts
      BY ServeAssumption
    <3>2. ~spray /\ Select!MayMiss(r)
      BY <2>3, <2>6, <3>1, Zenon DEF Select!Promised, Select!Seen
    <3>3. steadyUp[r] = {} => \A x \in Hosts : ~spotless[x]
      BY <2>2, Zenon DEF SteadyInv, Selected
    <3> QED
      BY <3>2, <3>3, Zenon DEF Select!MayMiss
  <2> QED
    BY <2>4, <2>5, <2>6, Zenon
<1> QED
  BY <1>1, ServeInvAlways, SteadyInvAlways, PTL DEF ServeSpec, RefusedForCause

-----------------------------------------------------------------------------
\* Loading and reloading of name lists

FetchedOK ==
  \A u \in Updaters : urlPc[u] \in {"fetched", "parsed"} => got[u] \in Versions

\* The two goroutines' part of the state, and the file's.
UrlTypes ==
  /\ page \in Versions
  /\ reachable \in BOOLEAN
  /\ urlNames \in Contents
  /\ urlHash \in {Hash[v] : v \in Versions} \cup {0}
  /\ urlPc \in [Updaters -> {"idle", "fetched", "parsed", "gone"}]
  /\ got \in [Updaters -> Contents]
  /\ retries \in 0..MaxRetries

PathTypes ==
  /\ file \in [content : Contents, stamp : 1..MaxStamp]
  /\ pathNames \in Contents \cup {Torn}
  /\ pathStamp \in 0..MaxStamp
  /\ pathPc \in {"closed", "opened", "parsed"}
  /\ fd \in [content : Contents, same : BOOLEAN]
  /\ stat \in -1..MaxStamp
  /\ read \in Contents \cup {Torn}
  /\ pathLoop \in {"start", "loop", "gone"}

\* What the path's goroutine has in hand is the file's, unless the file has changed since
\* it asked for the stamp; an older stamp never comes back.
SeenOK ==
  /\ pathStamp <= file.stamp /\ stat <= file.stamp
  /\ file.stamp \in {pathStamp, stat} =>
       /\ pathPc = "opened" => fd.content = file.content
       /\ pathPc = "parsed" => read \in {file.content, Torn}
  /\ pathStamp = file.stamp => pathNames \in {file.content, Torn}

NamesInv ==
  /\ UrlTypes
  /\ PathTypes
  /\ stopped \in BOOLEAN
  /\ crashed \in BOOLEAN
  /\ FetchedOK
  /\ HashTellsNames
  /\ SeenOK

\* The lists begin with the invariant.
LEMMA NamesInvInit == NamesInit => NamesInv
<1> SUFFICES ASSUME NamesInit PROVE NamesInv
  OBVIOUS
<1>1. UrlTypes
  BY DEF NamesInit, UrlTypes, Contents, Updaters, MaxRetries
<1>2. PathTypes
  BY NameListAssumption DEF NamesInit, PathTypes, Contents, NoFd
<1>3. FetchedOK /\ HashTellsNames
  BY DEF NamesInit, FetchedOK, HashTellsNames, Updaters
<1>4. SeenOK
  BY DEF NamesInit, SeenOK
<1> QED
  BY <1>1, <1>2, <1>3, <1>4, Zenon DEF NamesInit, NamesInv

-----------------------------------------------------------------------------
\* The outside and the path's goroutine leave the URL's item alone, and the other way round.
LEMMA UrlUntouched ==
  ASSUME NamesInv, UNCHANGED urlVars, page' \in Versions, reachable' \in BOOLEAN
  PROVE  UrlTypes' /\ FetchedOK' /\ HashTellsNames'
<1>1. UrlTypes'
  BY DEF NamesInv, UrlTypes, urlVars
<1>2. FetchedOK' /\ HashTellsNames'
  BY DEF NamesInv, FetchedOK, HashTellsNames, urlVars
<1> QED
  BY <1>1, <1>2

\* A step that leaves the files and their lists alone keeps what holds of them.
LEMMA PathUntouched ==
  ASSUME NamesInv, UNCHANGED <<file, pathVars>>
  PROVE  PathTypes' /\ SeenOK'
<1>1. PathTypes'
  BY DEF NamesInv, PathTypes, pathVars
<1>2. SeenOK'
  BY DEF NamesInv, SeenOK, pathVars
<1> QED
  BY <1>1, <1>2

\* A change of the file leaves every stamp taken before it behind.
LEMMA StampsBehind ==
  ASSUME NamesInv, file'.stamp = file.stamp + 1, UNCHANGED <<pathStamp, stat>>
  PROVE  SeenOK'
<1>1. /\ file.stamp \in Int /\ pathStamp \in Int /\ stat \in Int
      /\ pathStamp <= file.stamp /\ stat <= file.stamp
  BY NameListAssumption DEF NamesInv, PathTypes, SeenOK
<1>2. pathStamp' < file'.stamp /\ stat' < file'.stamp
  BY <1>1
<1>3. pathStamp' # file'.stamp /\ stat' # file'.stamp /\ pathStamp' <= file'.stamp /\ stat' <= file'.stamp
  BY <1>1, <1>2
<1> QED
  BY <1>3, Zenon DEF SeenOK

\* What happens to the sources outside the process keeps the invariant.
LEMMA OutsideStep ==
  ASSUME NamesInv,
         \/ \E v \in Versions : Rewrite(v) \/ Publish(v)
         \/ \E v \in Contents : Replace(v)
         \/ Connectivity
  PROVE  NamesInv'
<1>1. ASSUME NEW v \in Versions, Rewrite(v) PROVE NamesInv'
  <2>1. UrlTypes' /\ FetchedOK' /\ HashTellsNames'
    BY <1>1, UrlUntouched DEF NamesInv, UrlTypes, Rewrite
  <2>2. file' \in [content : Contents, stamp : 1..MaxStamp]
    BY <1>1, NameListAssumption DEF NamesInv, PathTypes, Rewrite, Contents
  <2>3. fd' \in [content : Contents, same : BOOLEAN]
    BY <1>1 DEF NamesInv, PathTypes, Rewrite, Contents
  <2>4. SeenOK'
    BY <1>1, StampsBehind DEF Rewrite
  <2> QED
    BY <1>1, <2>1, <2>2, <2>3, <2>4 DEF NamesInv, PathTypes, Rewrite
<1>2. ASSUME NEW v \in Versions, Publish(v) PROVE NamesInv'
  BY <1>2, UrlUntouched, PathUntouched DEF NamesInv, UrlTypes, Publish
<1>3. ASSUME NEW v \in Contents, Replace(v) PROVE NamesInv'
  <2>1. UrlTypes' /\ FetchedOK' /\ HashTellsNames'
    BY <1>3, UrlUntouched DEF NamesInv, UrlTypes, Replace
  <2>2. file' \in [content : Contents, stamp : 1..MaxStamp]
    BY <1>3, NameListAssumption DEF NamesInv, PathTypes, Replace
  <2>3. fd' \in [content : Contents, same : BOOLEAN]
    BY <1>3, Zenon DEF NamesInv, PathTypes, Replace
  <2>4. SeenOK'
    BY <1>3, StampsBehind DEF Replace
  <2> QED
    BY <1>3, <2>1, <2>2, <2>3, <2>4 DEF NamesInv, PathTypes, Replace
<1>4. ASSUME Connectivity PROVE NamesInv'
  BY <1>4, UrlUntouched, PathUntouched DEF NamesInv, UrlTypes, Connectivity
<1> QED
  BY <1>1, <1>2, <1>3, <1>4

\* The path's goroutine: what it stores was read or is Torn, its stamp was the file's.
LEMMA PathStepInv ==
  ASSUME NamesInv, PathStep \/ PathOpenNoStat \/ PathExit
  PROVE  NamesInv'
<1>1. UNCHANGED <<env, urlVars, stopped>>
  BY DEF PathStep, PathSkip, PathOpen, PathOpenNoStat, PathParse, PathStore, PathStoreNoStat, PathExit
<1>2. UrlTypes' /\ FetchedOK' /\ HashTellsNames'
  BY <1>1, UrlUntouched DEF NamesInv, UrlTypes, env
<1>3. AfterUpdate => pathLoop' \in {"start", "loop", "gone"}
  BY DEF NamesInv, PathTypes, AfterUpdate
<1>4. PathTypes' /\ crashed' \in BOOLEAN
  <2>1. CASE PathSkip
    BY <1>1, <1>3, <2>1 DEF NamesInv, PathTypes, PathSkip, env
  <2>2. CASE PathOpen
    BY <1>1, <2>2 DEF NamesInv, PathTypes, PathOpen, env
  <2>3. CASE PathOpenNoStat
    BY <1>1, <2>3, NameListAssumption DEF NamesInv, PathTypes, PathOpenNoStat, env
  <2>4. CASE PathParse
    BY <1>1, <2>4 DEF NamesInv, PathTypes, PathParse, NoFd, Contents, env
  <2>5. CASE PathStore
    BY <1>1, <1>3, <2>5, NameListAssumption DEF NamesInv, PathTypes, PathStore, Contents, env
  <2>6. CASE PathStoreNoStat
    BY <1>1, <2>6 DEF NamesInv, PathTypes, PathStoreNoStat, env
  <2>7. CASE PathExit
    BY <1>1, <2>7 DEF NamesInv, PathTypes, PathExit, env
  <2> QED
    BY <2>1, <2>2, <2>3, <2>4, <2>5, <2>6, <2>7 DEF PathStep
<1>5. SeenOK'
  <2>0. /\ SeenOK /\ file' = file /\ file.stamp \in Nat \ {0}
        /\ pathStamp \in Int /\ stat \in Int
    BY <1>1, NameListAssumption DEF NamesInv, PathTypes, env
  <2>1. CASE PathSkip \/ PathExit
    BY <2>0, <2>1 DEF SeenOK, PathSkip, PathExit
  <2>2. CASE PathOpen \/ PathOpenNoStat
    <3>1. /\ pathPc' = "opened" /\ fd'.content = file.content /\ stat' \in {file.stamp, -1}
          /\ pathStamp' = pathStamp /\ pathNames' = pathNames
      BY <2>2 DEF PathOpen, PathOpenNoStat
    <3>2. stat' <= file.stamp
      BY <2>0, <3>1
    <3> QED
      BY <2>0, <3>1, <3>2, Zenon DEF SeenOK
  <2>3. CASE PathParse
    BY <2>0, <2>3 DEF SeenOK, PathParse
  <2>4. CASE PathStore
    BY <2>0, <2>4 DEF SeenOK, PathStore
  <2>5. CASE PathStoreNoStat
    BY <2>0, <2>5 DEF SeenOK, PathStoreNoStat
  <2> QED
    BY <2>1, <2>2, <2>3, <2>4, <2>5 DEF PathStep
<1> QED
  BY <1>1, <1>2, <1>4, <1>5 DEF NamesInv

\* An updater of the URL's item: the names and the hash are stored in one step.
LEMMA UrlStepInv ==
  ASSUME NamesInv, NEW u \in Updaters, UrlStep(u)
  PROVE  NamesInv'
<1>1. UNCHANGED <<env, pathVars, stopped, crashed>>
  BY Zenon DEF UrlStep, UrlFetch, UrlFetchFail, UrlSame, UrlParse, UrlStore
<1>2. PathTypes' /\ SeenOK' /\ page' \in Versions /\ reachable' \in BOOLEAN
  BY <1>1, PathUntouched, Zenon DEF NamesInv, UrlTypes, env
<1>3. /\ urlPc' \in [Updaters -> {"idle", "fetched", "parsed", "gone"}]
      /\ got' \in [Updaters -> Contents]
      /\ FetchedOK'
  <2>1. ASSUME Finished(u)
        PROVE  /\ urlPc' \in [Updaters -> {"idle", "fetched", "parsed", "gone"}]
               /\ got' \in [Updaters -> Contents]
               /\ FetchedOK'
    BY <2>1 DEF NamesInv, UrlTypes, FetchedOK, Finished, Contents
  <2>2. CASE UrlFetch(u)
    BY <2>2, Zenon DEF NamesInv, UrlTypes, FetchedOK, UrlFetch, Contents
  <2>3. CASE UrlFetchFail(u)
    BY <2>1, <2>3, Zenon DEF NamesInv, UrlTypes, FetchedOK, UrlFetchFail
  <2>4. CASE UrlSame(u)
    BY <2>1, <2>4, Zenon DEF UrlSame
  <2>5. CASE UrlParse(u)
    BY <2>5 DEF NamesInv, UrlTypes, FetchedOK, UrlParse
  <2>6. CASE UrlStore(u)
    BY <2>1, <2>6 DEF UrlStore
  <2> QED
    BY <2>2, <2>3, <2>4, <2>5, <2>6 DEF UrlStep
<1>4. retries' \in 0..MaxRetries
  <2>1. retries \in 0..MaxRetries /\ MaxRetries \in Nat
    BY DEF NamesInv, UrlTypes, MaxRetries
  <2>2. \/ retries' = retries
        \/ retries < MaxRetries /\ retries' = retries + 1
    <3>1. CASE UrlFetchFail(u)
      BY <3>1 DEF UrlFetchFail
    <3>2. CASE UrlFetch(u) \/ UrlSame(u) \/ UrlParse(u) \/ UrlStore(u)
      BY <3>2, Zenon DEF UrlFetch, UrlSame, UrlParse, UrlStore
    <3> QED
      BY <3>1, <3>2 DEF UrlStep
  <2> QED
    BY <2>1, <2>2
<1>5. /\ urlNames' \in Contents
      /\ urlHash' \in {Hash[v] : v \in Versions} \cup {0}
      /\ HashTellsNames'
  <2>1. CASE UrlStore(u)
    <3>1. got[u] \in Versions /\ urlNames' = got[u] /\ urlHash' = Hash[got[u]]
      BY <2>1 DEF NamesInv, FetchedOK, UrlStore, stringHash
    <3>2. got[u] # NoNames
      BY <3>1, NameListAssumption
    <3> QED
      BY <3>1, <3>2 DEF HashTellsNames, Contents
  <2>2. CASE UrlFetch(u) \/ UrlFetchFail(u) \/ UrlSame(u) \/ UrlParse(u)
    <3>1. UNCHANGED <<urlNames, urlHash>>
      BY <2>2 DEF UrlFetch, UrlFetchFail, UrlSame, UrlParse
    <3> QED
      BY <3>1 DEF NamesInv, UrlTypes, HashTellsNames
  <2> QED
    BY <2>1, <2>2 DEF UrlStep
<1> QED
  BY <1>1, <1>2, <1>3, <1>4, <1>5 DEF NamesInv, UrlTypes

\* Every step of the lists keeps the invariant.
LEMMA NamesInvStep ==
  ASSUME NamesInv, [NamesNext]_namesVars
  PROVE  NamesInv'
<1>1. CASE UrlExit
  <2>1. PathTypes' /\ SeenOK'
    BY <1>1, PathUntouched DEF UrlExit, env
  <2>2. UrlTypes' /\ FetchedOK' /\ HashTellsNames'
    BY <1>1, Zenon DEF NamesInv, UrlTypes, FetchedOK, HashTellsNames, UrlExit, env
  <2> QED
    BY <1>1, <2>1, <2>2 DEF NamesInv, UrlExit
<1>2. CASE Stop
  BY <1>2, UrlUntouched, PathUntouched DEF NamesInv, UrlTypes, Stop, env
<1>3. CASE UNCHANGED namesVars
  BY <1>3, UrlUntouched, PathUntouched DEF NamesInv, UrlTypes, namesVars, env
<1> QED
  BY <1>1, <1>2, <1>3, OutsideStep, PathStepInv, UrlStepInv DEF NamesNext

\* The invariant always holds.
LEMMA NamesInvAlways == NamesSpec => []NamesInv
BY NamesInvInit, NamesInvStep, PTL DEF NamesSpec

-----------------------------------------------------------------------------
\* Type correctness of the two items and their goroutines.
THEOREM NamesTypeCorrect == NamesSpec => []NamesTypeOK
<1>1. NamesInv => NamesTypeOK
  BY DEF NamesInv, UrlTypes, PathTypes, NamesTypeOK
<1> QED
  BY <1>1, NamesInvAlways, PTL

\* The hash stored by updateItemFromUrl is that of the content its names came from, in
\* every interleaving of the initial update and the reload, and a stamp stored by
\* updateItemFromPath that is the file's comes with the file's names, whenever the file
\* changes (src/namelist.go:273-300, 352-395).
THEOREM MarksTellNamesAlways == NamesSpec => []MarksTellNames
<1>1. NamesInv => MarksTellNames
  BY DEF NamesInv, SeenOK, MarksTellNames
<1> QED
  BY <1>1, NamesInvAlways, PTL

=============================================================================
